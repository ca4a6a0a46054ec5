------------------------------ MODULE Sessions ------------------------------
(***************************************************************************)
(* What the process system promises its programs.  Every terminal has a    *)
(* session: a program in front and the chain of programs that wait for it, *)
(* each for the one it called.  A call puts a new program in front of the  *)
(* session on the screen, a return removes the front program and hands its *)
(* status to its caller, a root that ends is replaced by a new one.  The   *)
(* CPU only ever runs programs that are in front.                          *)
(***************************************************************************)
EXTENDS Integers

CONSTANTS
  Screens,   \* the terminals
  Programs,  \* names for programs
  Values,    \* what a program can return
  Nobody

VARIABLES
  live,      \* programs started and not ended
  front,     \* the program in front of each session
  caller,    \* who waits for a program, Nobody for a root
  result,    \* the last status handed to a program
  current,   \* the program on the CPU, Nobody before the first
  shown      \* the terminal on the screen

vars == <<live, front, caller, result, current, shown>>

Init ==
  /\ live = {}
  /\ front = [t \in Screens |-> Nobody]
  /\ caller = [p \in Programs |-> Nobody]
  /\ result = [p \in Programs |-> Nobody]
  /\ current = Nobody
  /\ shown \in Screens

\* A first program for terminal t, which comes on the screen.
Open(t, c) ==
  /\ front[t] = Nobody
  /\ c \notin live
  /\ live' = live \cup {c}
  /\ front' = [front EXCEPT ![t] = c]
  /\ current' = c
  /\ shown' = t
  /\ UNCHANGED <<caller, result>>

Call(c) ==
  /\ current # Nobody /\ front[shown] = current
  /\ c \notin live
  /\ live' = live \cup {c}
  /\ front' = [front EXCEPT ![shown] = c]
  /\ caller' = [caller EXCEPT ![c] = current]
  /\ current' = c
  /\ UNCHANGED <<result, shown>>

Return(t, v) ==
  /\ current # Nobody /\ front[t] = current
  /\ caller[current] # Nobody
  /\ live' = live \ {current}
  /\ front' = [front EXCEPT ![t] = caller[current]]
  /\ caller' = [caller EXCEPT ![current] = Nobody]
  /\ result' = [result EXCEPT ![caller[current]] = v]
  /\ current' = caller[current]
  /\ UNCHANGED shown

Restart(c) ==
  /\ current # Nobody /\ front[shown] = current
  /\ caller[current] = Nobody
  /\ c \notin live \ {current}
  /\ live' = (live \ {current}) \cup {c}
  /\ front' = [front EXCEPT ![shown] = c]
  /\ current' = c
  /\ UNCHANGED <<caller, result, shown>>

Dispatch(t) ==
  /\ front[t] # Nobody
  /\ current' = front[t]
  /\ UNCHANGED <<live, front, caller, result, shown>>

Show(t) ==
  /\ front[t] # Nobody
  /\ shown' = t
  /\ UNCHANGED <<live, front, caller, result, current>>

Next ==
  \/ \E t \in Screens, c \in Programs : Open(t, c)
  \/ \E c \in Programs : Call(c) \/ Restart(c)
  \/ \E t \in Screens, v \in Values : Return(t, v)
  \/ \E t \in Screens : Dispatch(t) \/ Show(t)

Spec == Init /\ [][Next]_vars
=============================================================================
