--------------------------- MODULE TerminalProofs ---------------------------
(***************************************************************************)
(* Proofs about Terminal for every number of terminals, every buffer size, *)
(* every character set and every size of read: types and bounds under any  *)
(* interleaving, the bytes behind a line while nobody clicks, and, for a   *)
(* user who leaves the kernel time between keys, that every line is read   *)
(* by the terminal it was entered on.                                      *)
(***************************************************************************)
EXTENDS Terminal, TLAPS, SequenceTheorems

\* The test of terminal_read's loop is reached with an index inside the buffer.
TestInside == \A t \in Terminals : pc[t] = "test" => idx[t] < BufferSize

TypeInv == TypeOK /\ TestInside

\* A read never has to copy more than the buffer holds.
LEMMA CountRange ==
  ASSUME TypeOK, NEW t \in Terminals
  PROVE  Count(t) \in 0 .. BufferSize
<1>0. nbytes[t] \in Requests \cup {0}
  BY DEF TypeOK
<1>1. nbytes[t] \in Nat
  BY <1>0, TerminalAssumption
<1> QED
  BY <1>1, TerminalAssumption DEF Count

\* terminal_open leaves every variable in its type.
LEMMA TypeInvInit == Init => TypeInv
BY TerminalAssumption DEF Init, TypeInv, TypeOK, TestInside, Terminals, Positions, EmptyLine

\* A key keeps every line inside its buffer.
LEMMA TypeInvKeyboard ==
  ASSUME TypeInv, do_handle_keyboard
  PROVE  TypeInv'
<1> USE TerminalAssumption DEF TypeInv, TypeOK, TestInside, Terminals, Positions, EmptyLine, reader
<1>1. ASSUME NEW v \in {0, 1}, ctrl(v)
      PROVE  TypeInv'
  BY <1>1 DEF ctrl
<1>2. ASSUME NEW v \in {0, 1}, alt(v)
      PROVE  TypeInv'
  BY <1>2 DEF alt
<1>3. ASSUME NEW t \in Terminals, switch_terminal(t)
      PROVE  TypeInv'
  BY <1>3 DEF switch_terminal
<1>4. CASE backspace
  <2>1. input_buffer' \in [Terminals -> [Positions -> Chars \cup {NUL}]]
    <3> DEFINE t == current_active_terminal
               p == curr_buff_pos[t]
    <3>1. ASSUME NEW u, NEW k, input_buffer' = [input_buffer EXCEPT ![u][k] = NUL]
          PROVE  input_buffer' \in [Terminals -> [Positions -> Chars \cup {NUL}]]
      BY <3>1
    <3>2. \/ input_buffer' = [input_buffer EXCEPT ![t][p - 1] = NUL]
          \/ input_buffer' = [input_buffer EXCEPT ![t - 1][BufferSize - 1] = NUL]
          \/ input_buffer' = input_buffer
      BY <1>4 DEF backspace
    <3> QED
      BY <3>1, <3>2
  <2>2. curr_buff_pos' \in [Terminals -> 0 .. BufferSize]
    <3> DEFINE t == current_active_terminal
               p == curr_buff_pos[t]
               q == IF p > 0 THEN p - 1 ELSE 0
    <3>1. q \in 0 .. BufferSize
      <4>1. p \in 0 .. BufferSize
        OBVIOUS
      <4> QED
        BY <4>1
    <3>2. curr_buff_pos' = [curr_buff_pos EXCEPT ![t] = q]
      BY <1>4 DEF backspace
    <3> HIDE DEF q
    <3> QED
      BY <3>1, <3>2
  <2> QED
    BY <1>4, <2>1, <2>2 DEF backspace
<1>5. CASE enter
  BY <1>5 DEF enter
<1>6. CASE ctrl_l
  BY <1>6 DEF ctrl_l
<1>7. ASSUME NEW c \in Chars, character(c)
      PROVE  TypeInv'
  BY <1>7 DEF character, HasRoom
<1> QED
  BY <1>1, <1>2, <1>3, <1>4, <1>5, <1>6, <1>7 DEF do_handle_keyboard

\* So does every step of a program.
LEMMA TypeInvProgram ==
  ASSUME TypeInv, NEW t \in Terminals, Program(t)
  PROVE  TypeInv'
<1> USE TerminalAssumption
    DEF TypeInv, TypeOK, TestInside, Positions, EmptyLine, keyboard, Goto
<1>1. ASSUME NEW n \in Requests, read_call(t, n)
      PROVE  TypeInv'
  BY <1>1 DEF read_call
<1>2. CASE read_wake(t)
  BY <1>2 DEF read_wake
<1>3. CASE read_ack(t)
  BY <1>3 DEF read_ack
<1>4. CASE read_copy(t)
  BY <1>4, CountRange DEF read_copy
<1>5. CASE read_test(t)
  BY <1>5 DEF read_test
<1>6. CASE read_newline(t)
  BY <1>6 DEF read_newline
<1>7. CASE read_row(t)
  BY <1>7, RowAssumption DEF read_row
<1>8. CASE read_row_forget(t)
  BY <1>8 DEF read_row_forget
<1>9. CASE read_row_ack(t)
  BY <1>9 DEF read_row_ack
<1>10. CASE read_row_reset(t)
  BY <1>10 DEF read_row_reset
<1>11. CASE read_row_clear(t)
  <2>1. input_buffer' \in [Terminals -> [Positions -> Chars \cup {NUL}]]
    BY <1>11 DEF read_row_clear
  <2>2. idx' \in [Terminals -> 0 .. BufferSize]
    BY <1>11 DEF read_row_clear
  <2> QED
    BY <1>11, <2>1, <2>2 DEF read_row_clear
<1>11a. CASE read_row_done(t)
  BY <1>11a DEF read_row_done
<1>12. CASE read_return(t)
  BY <1>12 DEF read_return
<1>13. CASE halt_call(t)
  BY <1>13 DEF halt_call
<1>14. CASE clear_buffer(t)
  <2>1. input_buffer' \in [Terminals -> [Positions -> Chars \cup {NUL}]]
    BY <1>14 DEF clear_buffer
  <2>2. idx' \in [Terminals -> 0 .. BufferSize]
    BY <1>14 DEF clear_buffer
  <2> QED
    BY <1>14, <2>1, <2>2 DEF clear_buffer
<1>15. CASE halt_done(t)
  BY <1>15 DEF halt_done
<1> QED
  BY <1>1, <1>2, <1>3, <1>4, <1>5, <1>6, <1>7, <1>8, <1>9, <1>10, <1>11, <1>11a, <1>12,
     <1>13, <1>14, <1>15
  DEF Program, TypedRead, RowRead

\* Every step of the whole of line input keeps the types.
LEMMA TypeInvStep == TypeInv /\ [Next]_vars => TypeInv'
<1> SUFFICES ASSUME TypeInv, [Next]_vars
             PROVE  TypeInv'
  OBVIOUS
<1>1. ASSUME NEW row \in Rows, run_prog(row)
      PROVE  TypeInv'
  BY <1>1 DEF run_prog, TypeInv, TypeOK, TestInside, keyboard, reader
<1>2. CASE UNCHANGED vars
  BY <1>2 DEF vars, TypeInv, TypeOK, TestInside, keyboard, reader
<1> QED
  BY <1>1, <1>2, TypeInvKeyboard, TypeInvProgram DEF Next, KeyboardNext

\* No key, click, read or halt writes outside the line buffers or takes a line
\* position out of 0 .. BUFFER_SIZE, whatever the interleaving.
THEOREM TypeCorrect == Spec => []TypeOK
<1>1. TypeInv => TypeOK
  BY DEF TypeInv
<1> QED
  BY <1>1, TypeInvInit, TypeInvStep, PTL DEF Spec

-----------------------------------------------------------------------------
(* Without the mouse no read takes a row, and no stale bytes are left.      *)

NoRow ==
  /\ mouse_command = NUL
  /\ \A t \in Terminals : pc[t] \notin {"row", "row_ack", "row_reset", "row_clear"}

TailInv == TypeInv /\ NoRow /\ TailClear

\* A boot leaves every line empty.
LEMMA TailInit == Init => TailInv
BY TypeInvInit, TerminalAssumption
DEF Init, TailInv, NoRow, TailClear, Terminals, Positions, EmptyLine

\* A key leaves no byte behind the end of a line, also while clear_buffer runs.
LEMMA TailKeyboard ==
  ASSUME TailInv, do_handle_keyboard
  PROVE  NoRow' /\ TailClear'
<1> USE TerminalAssumption
    DEF TailInv, TypeInv, TypeOK, NoRow, TailClear, Terminals, Positions, EmptyLine, reader
<1>1. ASSUME NEW v \in {0, 1}, ctrl(v)
      PROVE  NoRow' /\ TailClear'
  BY <1>1 DEF ctrl
<1>2. ASSUME NEW v \in {0, 1}, alt(v)
      PROVE  NoRow' /\ TailClear'
  BY <1>2 DEF alt
<1>3. ASSUME NEW t \in Terminals, switch_terminal(t)
      PROVE  NoRow' /\ TailClear'
  BY <1>3 DEF switch_terminal
<1>4. CASE backspace
  <2>1. NoRow'
    BY <1>4 DEF backspace
  <2>2. ASSUME NEW u \in Terminals, NEW k \in Positions,
               k >= curr_buff_pos'[u], ~(pc'[u] = "clear" /\ idx'[u] <= k)
        PROVE  input_buffer'[u][k] = NUL
    <3> DEFINE t == current_active_terminal
               p == curr_buff_pos[t]
    <3>1. /\ ~(pc[u] = "clear" /\ idx[u] <= k)
          /\ t \in Terminals /\ p \in 0 .. BufferSize
      BY <1>4, <2>2 DEF backspace
    <3>2. CASE p > 0
      <4>1. /\ input_buffer' = [input_buffer EXCEPT ![t][p - 1] = NUL]
            /\ curr_buff_pos' = [curr_buff_pos EXCEPT ![t] = p - 1]
        BY <1>4, <3>1, <3>2 DEF backspace
      <4>2. CASE u = t /\ k = p - 1
        <5>1. u \in Terminals /\ k \in Positions
          OBVIOUS
        <5>2. input_buffer \in [Terminals -> [Positions -> Chars \cup {NUL}]]
          OBVIOUS
        <5>3. input_buffer' = [input_buffer EXCEPT ![u][k] = NUL]
          BY <4>1, <4>2, Zenon
        <5> HIDE DEF TailInv, TypeInv, TypeOK, NoRow, TailClear, Terminals, Positions, EmptyLine
        <5> QED
          BY <5>1, <5>2, <5>3
      <4>3. CASE ~(u = t /\ k = p - 1)
        <5>1. input_buffer'[u][k] = input_buffer[u][k]
          BY <4>1, <4>3
        <5>2. k >= curr_buff_pos[u]
          <6>1. CASE u = t
            <7> HIDE DEF TailInv, TypeInv, TypeOK, NoRow, TailClear, EmptyLine
            <7>1. curr_buff_pos \in [Terminals -> 0 .. BufferSize]
              BY DEF TailInv, TypeInv, TypeOK
            <7>2. k >= p - 1 /\ k # p - 1
              BY <2>2, <4>1, <4>3, <6>1, <7>1
            <7>3. k \in Int /\ p \in Int
              BY <3>1
            <7> QED
              BY <6>1, <7>2, <7>3
          <6>2. CASE u # t
            BY <2>2, <4>1, <6>2
          <6> QED
            BY <6>1, <6>2
        <5> QED
          BY <3>1, <5>1, <5>2
      <4> QED
        BY <4>2, <4>3
    <3>3. CASE p = 0
      <4>1. curr_buff_pos'[u] = curr_buff_pos[u]
        BY <1>4, <3>1, <3>3 DEF backspace
      <4>2. input_buffer[u][k] = NUL
        BY <2>2, <3>1, <4>1
      <4>3. CASE t > 0
        <5>1. input_buffer' = [input_buffer EXCEPT ![t - 1][BufferSize - 1] = NUL]
          BY <1>4, <3>1, <3>3, <4>3 DEF backspace
        <5>2. t - 1 \in Terminals /\ BufferSize - 1 \in Positions
          BY <3>1, <4>3
        <5> QED
          BY <2>2, <4>2, <5>1, <5>2
      <4>4. CASE t = 0
        BY <1>4, <3>1, <3>3, <4>2, <4>4 DEF backspace
      <4> QED
        BY <3>1, <4>3, <4>4
    <3> QED
      BY <3>1, <3>2, <3>3
  <2> QED
    BY <2>1, <2>2
<1>5. CASE enter
  BY <1>5 DEF enter
<1>6. CASE ctrl_l
  BY <1>6 DEF ctrl_l
<1>7. ASSUME NEW c \in Chars, character(c)
      PROVE  NoRow' /\ TailClear'
  BY <1>7 DEF character, HasRoom
<1> QED
  BY <1>1, <1>2, <1>3, <1>4, <1>5, <1>6, <1>7 DEF do_handle_keyboard

\* Nor does a program; clear_buffer closes the gap it opened.
LEMMA TailProgram ==
  ASSUME TailInv, NEW t \in Terminals, Program(t)
  PROVE  NoRow' /\ TailClear'
<1> USE TerminalAssumption
    DEF TailInv, TypeInv, TypeOK, NoRow, TailClear, Positions, keyboard, Goto
<1>1. ASSUME NEW n \in Requests, read_call(t, n)
      PROVE  NoRow' /\ TailClear'
  BY <1>1 DEF read_call
<1>2. CASE TypedRead(t)
  BY <1>2 DEF TypedRead, read_wake, read_ack, read_copy, read_test, read_newline
<1>3. CASE RowRead(t)
  BY <1>3 DEF RowRead, read_row, read_row_forget, read_row_ack, read_row_reset, read_row_clear,
              read_row_done
<1>4. CASE read_return(t)
  BY <1>4 DEF read_return
<1>5. CASE halt_call(t)
  BY <1>5 DEF halt_call
<1>6. CASE clear_buffer(t)
  BY <1>6 DEF clear_buffer
<1>7. CASE halt_done(t)
  BY <1>7 DEF halt_done
<1> QED
  BY <1>1, <1>2, <1>3, <1>4, <1>5, <1>6, <1>7 DEF Program

\* As long as nobody clicks, Enter never hands over bytes of an earlier line:
\* Backspace, Enter, Ctrl-L and clear_buffer, interleaved in any way, clear
\* every byte they take off a line.
THEOREM TailClearHolds == KeyboardSpec => []TailClear
<1>1. TailInv /\ [KeyboardNext]_vars => TailInv'
  <2> SUFFICES ASSUME TailInv, [KeyboardNext]_vars
               PROVE  TailInv'
    OBVIOUS
  <2>1. TypeInv'
    BY TypeInvStep DEF TailInv, Next
  <2>2. CASE UNCHANGED vars
    BY <2>1, <2>2 DEF vars, TailInv, NoRow, TailClear, keyboard, reader
  <2> QED
    BY <2>1, <2>2, TailKeyboard, TailProgram DEF KeyboardNext, TailInv
<1>2. TailInv => TailClear
  BY DEF TailInv
<1> QED
  BY <1>1, <1>2, TailInit, PTL DEF KeyboardSpec

-----------------------------------------------------------------------------
(* A user who leaves the kernel time between keys: PacedSpec *)

Lines == {l \in Seq(Chars) : Len(l) <= BufferSize}

\* A line as it lies in a buffer, NUL behind its end.
Padded(l) == [k \in Positions |-> IF k < Len(l) THEN l[k + 1] ELSE NUL]

\* The buffer of a terminal holds what its user has typed; while clear_buffer
\* runs the user has nothing on the line and the bytes passed are NUL.
LineOK(t) ==
  /\ typed[t] \in Lines
  /\ curr_buff_pos[t] = Len(typed[t])
  /\ pc[t] # "clear" => input_buffer[t] = Padded(typed[t])
  /\ pc[t] = "clear" => /\ typed[t] = << >>
                        /\ \A k \in Positions : k < idx[t] => input_buffer[t][k] = NUL

\* Terminal t has a line that is entered and not yet returned by a read.
Holds(t) == enter_flag[t] = 1 \/ pc[t] \in {"ack", "copy", "test"}

\* The shared buffer belongs to one terminal, and holds its line.
HeldOnce == \A t, u \in Terminals : Holds(t) /\ Holds(u) => t = u
HeldOK(t) == Holds(t) => \E l \in Lines : sent[t] = {l} /\ enter_buffer = Padded(l)

\* The first i bytes of a caller's buffer b are the first i of line l.
Copied(l, b, i) == i <= Len(l) /\ \A k \in 0 .. i - 1 : b[k] = l[k + 1]

\* The bytes copied so far are the first ones of the line, and the line has
\* not ended among them.
CopyOK(t) ==
  pc[t] \in {"copy", "test"} =>
    /\ idx[t] <= Count(t)
    /\ pc[t] = "test" => idx[t] < Count(t)
    /\ \A l \in sent[t] : /\ Copied(l, buf[t], idx[t])
                          /\ pc[t] = "test" => buf[t][idx[t]] = Padded(l)[idx[t]]

\* A reader that has taken its line has lowered its flag, and nobody raises it.
FlagTaken(t) == pc[t] \in {"copy", "test", "done"} => enter_flag[t] = 0

DoneOK(t) ==
  pc[t] = "done" =>
    \E l \in sent[t] :
      LET n == IF Len(l) < Count(t) THEN Len(l) ELSE Count(t)
      IN  /\ ret[t] = n + 1
          /\ \A k \in 0 .. n - 1 : buf[t][k] = l[k + 1]
          /\ buf[t][n] = Newline

Arrays ==
  /\ buf \in [Terminals -> [0 .. BufferSize -> Chars \cup Rows \cup {NUL, Newline, Unset}]]
  /\ DOMAIN typed = Terminals /\ typed = [t \in Terminals |-> typed[t]]
  /\ sent = [t \in Terminals |-> sent[t]]
  /\ ret = [t \in Terminals |-> ret[t]]

PacedInv ==
  /\ TypeInv
  /\ NoRow
  /\ Arrays
  /\ HeldOnce
  /\ \A t \in Terminals : LineOK(t) /\ HeldOK(t) /\ FlagTaken(t) /\ CopyOK(t) /\ DoneOK(t)

-----------------------------------------------------------------------------
\* An empty line is a cleared buffer.
LEMMA PadEmpty == << >> \in Lines /\ Padded(<< >>) = EmptyLine
BY TerminalAssumption DEF Lines, Padded, EmptyLine, Positions

\* Storing a character at the position appends it to the line.
LEMMA PadAppend ==
  ASSUME NEW l \in Lines, Len(l) < BufferSize, NEW c \in Chars
  PROVE  /\ Append(l, c) \in Lines
         /\ Len(Append(l, c)) = Len(l) + 1
         /\ [Padded(l) EXCEPT ![Len(l)] = c] = Padded(Append(l, c))
<1>1. l \in Seq(Chars) /\ Len(l) \in Nat
  BY DEF Lines
<1>2. Append(l, c) \in Seq(Chars) /\ Len(Append(l, c)) = Len(l) + 1
  BY <1>1
<1>3. ASSUME NEW k \in Positions
      PROVE  [Padded(l) EXCEPT ![Len(l)] = c][k] = Padded(Append(l, c))[k]
  <2>1. CASE k < Len(l)
    BY <1>1, <1>2, <2>1, TerminalAssumption DEF Padded, Positions
  <2>2. CASE k = Len(l)
    BY <1>1, <1>2, <2>2, TerminalAssumption DEF Padded, Positions
  <2>3. CASE k > Len(l)
    BY <1>1, <1>2, <2>3, TerminalAssumption DEF Padded, Positions
  <2> QED
    BY <1>1, <2>1, <2>2, <2>3, TerminalAssumption DEF Positions
<1>4. [Padded(l) EXCEPT ![Len(l)] = c] = Padded(Append(l, c))
  BY <1>3 DEF Padded
<1> QED
  BY <1>2, <1>4, TerminalAssumption DEF Lines

\* The first m elements of a sequence.
LEMMA PrefixFacts ==
  ASSUME NEW S, NEW l \in Seq(S), NEW m \in Nat, m <= Len(l)
  PROVE  /\ SubSeq(l, 1, m) \in Seq(S)
         /\ Len(SubSeq(l, 1, m)) = m
         /\ \A k \in 1 .. m : SubSeq(l, 1, m)[k] = l[k]
<1>1. \A i \in 1 .. m : l[i] \in S
  OBVIOUS
<1>2. /\ SubSeq(l, 1, m) \in Seq(S)
      /\ Len(SubSeq(l, 1, m)) = IF 1 <= m THEN m - 1 + 1 ELSE 0
      /\ \A i \in 1 .. m - 1 + 1 : SubSeq(l, 1, m)[i] = l[1 + i - 1]
  BY <1>1, SubSeqProperties
<1>3. (IF 1 <= m THEN m - 1 + 1 ELSE 0) = m /\ m - 1 + 1 = m
  OBVIOUS
<1>4. \A k \in 1 .. m : 1 + k - 1 = k
  OBVIOUS
<1> QED
  BY <1>2, <1>3, <1>4

\* Clearing the byte in front of the position takes the last character off.
LEMMA PadFront ==
  ASSUME NEW l \in Lines, Len(l) > 0
  PROVE  /\ Front(l) \in Lines
         /\ Len(Front(l)) = Len(l) - 1
         /\ [Padded(l) EXCEPT ![Len(l) - 1] = NUL] = Padded(Front(l))
<1>1. l \in Seq(Chars) /\ Len(l) \in Nat /\ Len(l) <= BufferSize
  BY DEF Lines
<1>2. /\ Front(l) \in Seq(Chars)
      /\ Len(Front(l)) = Len(l) - 1
      /\ \A k \in 1 .. Len(l) - 1 : Front(l)[k] = l[k]
  <2>1. Len(l) - 1 \in Nat /\ Len(l) - 1 <= Len(l)
    BY <1>1
  <2>2. Front(l) = SubSeq(l, 1, Len(l) - 1)
    BY DEF Front
  <2> QED
    BY <1>1, <2>1, <2>2, PrefixFacts, Zenon
<1>3. ASSUME NEW k \in Positions
      PROVE  [Padded(l) EXCEPT ![Len(l) - 1] = NUL][k] = Padded(Front(l))[k]
  <2>1. CASE k < Len(l) - 1
    BY <1>1, <1>2, <2>1, TerminalAssumption DEF Padded, Positions
  <2>2. CASE k = Len(l) - 1
    BY <1>1, <1>2, <2>2, TerminalAssumption DEF Padded, Positions
  <2>3. CASE k > Len(l) - 1
    BY <1>1, <1>2, <2>3, TerminalAssumption DEF Padded, Positions
  <2> QED
    BY <1>1, <2>1, <2>2, <2>3, TerminalAssumption DEF Positions
<1>4. [Padded(l) EXCEPT ![Len(l) - 1] = NUL] = Padded(Front(l))
  BY <1>3 DEF Padded
<1> QED
  BY <1>1, <1>2, <1>4, TerminalAssumption DEF Lines

\* At boot every line is empty and nothing is entered.
LEMMA PacedInit == Init => PacedInv
<1> SUFFICES ASSUME Init PROVE PacedInv
  OBVIOUS
<1>1. TypeInv
  BY TypeInvInit
<1>2. NoRow /\ HeldOnce
  BY DEF Init, NoRow, HeldOnce, Holds
<1>3. Arrays
  BY DEF Init, Arrays, FreshBuf
<1>4. \A t \in Terminals : LineOK(t)
  BY PadEmpty DEF Init, LineOK
<1>5. \A t \in Terminals : HeldOK(t) /\ FlagTaken(t) /\ CopyOK(t) /\ DoneOK(t)
  BY DEF Init, HeldOK, Holds, FlagTaken, CopyOK, DoneOK
<1> QED
  BY <1>1, <1>2, <1>3, <1>4, <1>5 DEF PacedInv

-----------------------------------------------------------------------------
(* Keys.  All programs are at "user" or "spin", so only lines, flags and    *)
(* what has been entered are at stake.                                      *)

\* What a key leaves alone: the reads under way and what they hold.
LEMMA PacedKeyFrame ==
  ASSUME PacedInv, Settled, do_handle_keyboard, reader' = reader,
         mouse_command' = mouse_command, Arrays', HeldOnce',
         \A t \in Terminals : LineOK(t)' /\ HeldOK(t)'
  PROVE  PacedInv'
<1>1. TypeInv'
  BY TypeInvKeyboard DEF PacedInv
<1>2. pc' = pc /\ idx' = idx /\ buf' = buf /\ ret' = ret /\ nbytes' = nbytes
  BY DEF reader
<1>3. NoRow'
  BY <1>2 DEF PacedInv, NoRow
<1>4. \A t \in Terminals : FlagTaken(t)' /\ CopyOK(t)' /\ DoneOK(t)'
  BY <1>2 DEF Settled, FlagTaken, CopyOK, DoneOK
<1> QED
  BY <1>1, <1>3, <1>4 DEF PacedInv

\* Modifiers and terminal switches leave the lines alone.
LEMMA PacedModifier ==
  ASSUME PacedInv, Settled,
         \/ \E v \in {0, 1} : ctrl(v) \/ alt(v)
         \/ \E t \in Terminals : switch_terminal(t)
  PROVE  PacedInv'
<1>1. /\ reader' = reader /\ mouse_command' = mouse_command /\ typed' = typed /\ sent' = sent
      /\ input_buffer' = input_buffer /\ curr_buff_pos' = curr_buff_pos
      /\ enter_buffer' = enter_buffer /\ enter_flag' = enter_flag
  BY DEF ctrl, alt, switch_terminal
<1>2. pc' = pc /\ idx' = idx /\ buf' = buf /\ ret' = ret
  BY <1>1 DEF reader
<1>3. Arrays' /\ HeldOnce'
  BY <1>1, <1>2 DEF PacedInv, Arrays, HeldOnce, Holds
<1>4. \A t \in Terminals : LineOK(t)' /\ HeldOK(t)'
  BY <1>1, <1>2 DEF PacedInv, LineOK, HeldOK, Holds
<1>5. do_handle_keyboard
  BY DEF do_handle_keyboard
<1> QED
  BY <1>1, <1>3, <1>4, <1>5, PacedKeyFrame

\* Backspace on a line that is not empty.
LEMMA PacedBackspace ==
  ASSUME PacedInv, Settled, backspace, curr_buff_pos[current_active_terminal] > 0
  PROVE  PacedInv'
<1> DEFINE t == current_active_terminal
           p == curr_buff_pos[t]
<1>1. t \in Terminals /\ p \in 1 .. BufferSize /\ LineOK(t) /\ pc[t] # "clear"
  BY DEF PacedInv, TypeInv, TypeOK, Settled
<1>2. typed[t] \in Lines /\ p = Len(typed[t]) /\ input_buffer[t] = Padded(typed[t])
  BY <1>1 DEF LineOK
<1>3. /\ Front(typed[t]) \in Lines /\ Len(Front(typed[t])) = p - 1
      /\ [Padded(typed[t]) EXCEPT ![p - 1] = NUL] = Padded(Front(typed[t]))
  BY <1>1, <1>2, PadFront
<1>4. /\ input_buffer' = [input_buffer EXCEPT ![t] = Padded(Front(typed[t]))]
      /\ curr_buff_pos' = [curr_buff_pos EXCEPT ![t] = p - 1]
      /\ typed' = [typed EXCEPT ![t] = Front(typed[t])]
  <2>1. input_buffer' = [input_buffer EXCEPT ![t][p - 1] = NUL]
    BY <1>1 DEF backspace
  <2>2. input_buffer' = [input_buffer EXCEPT ![t] = [Padded(typed[t]) EXCEPT ![p - 1] = NUL]]
    BY <1>2, <2>1
  <2> QED
    BY <1>1, <1>3, <2>2 DEF backspace
<1>5. /\ reader' = reader /\ mouse_command' = mouse_command /\ sent' = sent
      /\ enter_buffer' = enter_buffer /\ enter_flag' = enter_flag
  BY DEF backspace
<1>6. pc' = pc /\ idx' = idx /\ buf' = buf /\ ret' = ret
  BY <1>5 DEF reader
<1>7. Arrays'
  BY <1>4, <1>5, <1>6 DEF PacedInv, Arrays
<1>8. HeldOnce' /\ \A u \in Terminals : HeldOK(u)'
  BY <1>5, <1>6 DEF PacedInv, HeldOnce, HeldOK, Holds
<1>9. ASSUME NEW u \in Terminals
      PROVE  LineOK(u)'
  <2>1. CASE u = t
    BY <1>1, <1>3, <1>4, <1>6, <2>1 DEF LineOK, PacedInv, TypeInv, TypeOK, Arrays
  <2>2. CASE u # t
    BY <1>4, <1>6, <2>2 DEF LineOK, PacedInv, TypeInv, TypeOK, Arrays
  <2> QED
    BY <2>1, <2>2
<1>10. do_handle_keyboard
  BY DEF do_handle_keyboard
<1> QED
  BY <1>5, <1>7, <1>8, <1>9, <1>10, PacedKeyFrame

\* A character.
LEMMA PacedCharacter ==
  ASSUME PacedInv, Settled, NEW c \in Chars, character(c)
  PROVE  PacedInv'
<1> DEFINE t == current_active_terminal
           p == curr_buff_pos[t]
<1>1. t \in Terminals /\ p \in 0 .. BufferSize - 1 /\ LineOK(t) /\ pc[t] # "clear"
  <2>1. t \in Terminals /\ p \in 0 .. BufferSize /\ LineOK(t) /\ pc[t] # "clear"
    BY DEF PacedInv, TypeInv, TypeOK, Settled
  <2>2. p < BufferSize
    BY DEF character, HasRoom
  <2> QED
    BY <2>1, <2>2, TerminalAssumption
<1>2. typed[t] \in Lines /\ p = Len(typed[t]) /\ input_buffer[t] = Padded(typed[t])
  BY <1>1 DEF LineOK
<1>3. /\ Append(typed[t], c) \in Lines /\ Len(Append(typed[t], c)) = p + 1
      /\ [Padded(typed[t]) EXCEPT ![p] = c] = Padded(Append(typed[t], c))
  BY <1>1, <1>2, PadAppend, TerminalAssumption
<1>4. /\ input_buffer' = [input_buffer EXCEPT ![t] = Padded(Append(typed[t], c))]
      /\ curr_buff_pos' = [curr_buff_pos EXCEPT ![t] = p + 1]
      /\ typed' = [typed EXCEPT ![t] = Append(typed[t], c)]
  <2>1. input_buffer' = [input_buffer EXCEPT ![t][p] = c]
    BY DEF character
  <2>2. input_buffer' = [input_buffer EXCEPT ![t] = [Padded(typed[t]) EXCEPT ![p] = c]]
    BY <1>2, <2>1
  <2> QED
    BY <1>3, <2>2 DEF character
<1>5. /\ reader' = reader /\ mouse_command' = mouse_command /\ sent' = sent
      /\ enter_buffer' = enter_buffer /\ enter_flag' = enter_flag
  BY DEF character
<1>6. pc' = pc /\ idx' = idx /\ buf' = buf /\ ret' = ret
  BY <1>5 DEF reader
<1>7. Arrays'
  BY <1>4, <1>5, <1>6 DEF PacedInv, Arrays
<1>8. HeldOnce' /\ \A u \in Terminals : HeldOK(u)'
  BY <1>5, <1>6 DEF PacedInv, HeldOnce, HeldOK, Holds
<1>9. ASSUME NEW u \in Terminals
      PROVE  LineOK(u)'
  <2>1. CASE u = t
    BY <1>1, <1>3, <1>4, <1>6, <2>1 DEF LineOK, PacedInv, TypeInv, TypeOK, Arrays
  <2>2. CASE u # t
    BY <1>4, <1>6, <2>2 DEF LineOK, PacedInv, TypeInv, TypeOK, Arrays
  <2> QED
    BY <2>1, <2>2
<1>10. do_handle_keyboard
  BY DEF do_handle_keyboard
<1> QED
  BY <1>5, <1>7, <1>8, <1>9, <1>10, PacedKeyFrame

\* Enter and Ctrl-L empty the line of the terminal on the screen.
LEMMA PacedEmptied ==
  ASSUME PacedInv, Settled, enter \/ ctrl_l
  PROVE  \A u \in Terminals : LineOK(u)'
<1> DEFINE t == current_active_terminal
<1>1. /\ t \in Terminals /\ pc' = pc /\ idx' = idx
      /\ input_buffer' = [input_buffer EXCEPT ![t] = Padded(<< >>)]
      /\ curr_buff_pos' = [curr_buff_pos EXCEPT ![t] = 0]
      /\ typed' = [typed EXCEPT ![t] = << >>]
  BY PadEmpty DEF PacedInv, TypeInv, TypeOK, enter, ctrl_l, reader
<1> SUFFICES ASSUME NEW u \in Terminals
             PROVE  LineOK(u)'
  OBVIOUS
<1>2. CASE u = t
  BY <1>1, <1>2, PadEmpty DEF LineOK, PacedInv, TypeInv, TypeOK, Arrays, Settled
<1>3. CASE u # t
  BY <1>1, <1>3 DEF LineOK, PacedInv, TypeInv, TypeOK, Arrays
<1> QED
  BY <1>2, <1>3

\* Ctrl-L drops the line being typed and no line that was entered.
LEMMA PacedCtrlL ==
  ASSUME PacedInv, Settled, ctrl_l
  PROVE  PacedInv'
<1>1. /\ reader' = reader /\ mouse_command' = mouse_command /\ sent' = sent
      /\ enter_buffer' = enter_buffer /\ enter_flag' = enter_flag
      /\ typed' = [typed EXCEPT ![current_active_terminal] = << >>]
  BY DEF ctrl_l
<1>2. pc' = pc /\ idx' = idx /\ buf' = buf /\ ret' = ret
  BY <1>1 DEF reader
<1>3. Arrays'
  BY <1>1, <1>2 DEF PacedInv, Arrays
<1>4. HeldOnce' /\ \A u \in Terminals : HeldOK(u)'
  BY <1>1, <1>2 DEF PacedInv, HeldOnce, HeldOK, Holds
<1>5. do_handle_keyboard
  BY DEF do_handle_keyboard
<1> QED
  BY <1>1, <1>3, <1>4, <1>5, PacedEmptied, PacedKeyFrame

\* Enter hands the shared buffer to the terminal on the screen.
LEMMA PacedEnter ==
  ASSUME PacedInv, Settled, enter, NoneUnreadElsewhere
  PROVE  PacedInv'
<1> DEFINE t == current_active_terminal
<1>1. t \in Terminals /\ typed[t] \in Lines /\ input_buffer[t] = Padded(typed[t])
  BY DEF PacedInv, TypeInv, TypeOK, LineOK, Settled
<1>2. /\ reader' = reader /\ mouse_command' = mouse_command
      /\ enter_buffer' = Padded(typed[t])
      /\ enter_flag' = [enter_flag EXCEPT ![t] = 1]
      /\ sent' = [sent EXCEPT ![t] = {typed[t]}]
      /\ typed' = [typed EXCEPT ![t] = << >>]
  BY <1>1 DEF enter
<1>3. pc' = pc /\ idx' = idx /\ buf' = buf /\ ret' = ret
  BY <1>2 DEF reader
<1>4. Arrays'
  BY <1>2, <1>3 DEF PacedInv, Arrays
<1>5. \A u \in Terminals : Holds(u)' => u = t
  <2> SUFFICES ASSUME NEW u \in Terminals, u # t
               PROVE  ~ Holds(u)'
    OBVIOUS
  <2>1. enter_flag'[u] = 0
    BY <1>1, <1>2 DEF PacedInv, TypeInv, TypeOK, NoneUnreadElsewhere
  <2> QED
    BY <1>3, <2>1 DEF Holds, Settled
<1>6. sent'[t] = {typed[t]}
  BY <1>1, <1>2 DEF PacedInv, Arrays
<1>7. HeldOnce' /\ \A u \in Terminals : HeldOK(u)'
  BY <1>1, <1>2, <1>5, <1>6 DEF HeldOnce, HeldOK
<1>8. do_handle_keyboard
  BY DEF do_handle_keyboard
<1> QED
  BY <1>2, <1>4, <1>7, <1>8, PacedEmptied, PacedKeyFrame

-----------------------------------------------------------------------------
(* Steps of the program of terminal t.  Another terminal's program is       *)
(* disturbed only through the shared buffer, which no program writes.       *)

\* A step of one terminal's program leaves the facts about the others as they are.
LEMMA PacedOther ==
  ASSUME PacedInv, NEW t \in Terminals, NEW u \in Terminals, u # t,
         input_buffer'[u] = input_buffer[u], curr_buff_pos'[u] = curr_buff_pos[u],
         typed'[u] = typed[u], sent'[u] = sent[u], enter_buffer' = enter_buffer,
         enter_flag'[u] = enter_flag[u], pc'[u] = pc[u], idx'[u] = idx[u],
         buf'[u] = buf[u], ret'[u] = ret[u], nbytes'[u] = nbytes[u]
  PROVE  /\ LineOK(u)' /\ HeldOK(u)' /\ FlagTaken(u)' /\ CopyOK(u)' /\ DoneOK(u)'
         /\ Holds(u)' <=> Holds(u)
<1>1. Count(u)' = Count(u)
  BY DEF Count
<1>2. Holds(u)' <=> Holds(u)
  BY DEF Holds
<1>3. LineOK(u) /\ HeldOK(u) /\ FlagTaken(u) /\ CopyOK(u) /\ DoneOK(u)
  BY DEF PacedInv
<1>4. LineOK(u)'
  BY <1>3 DEF LineOK
<1>5. HeldOK(u)' /\ FlagTaken(u)'
  BY <1>2, <1>3 DEF HeldOK, FlagTaken
<1>6. CopyOK(u)'
  BY <1>1, <1>3 DEF CopyOK
<1>7. DoneOK(u)'
  BY <1>1, <1>3 DEF DoneOK
<1> QED
  BY <1>2, <1>4, <1>5, <1>6, <1>7

\* The other half of a program step: what it does to its own terminal.
LEMMA PacedProgramFrame ==
  ASSUME PacedInv, NEW t \in Terminals, Program(t), NoRow', Arrays',
         mouse_command' = mouse_command, enter_buffer' = enter_buffer,
         Holds(t)' => Holds(t),
         LineOK(t)', HeldOK(t)', FlagTaken(t)', CopyOK(t)', DoneOK(t)',
         \A u \in Terminals \ {t} :
           /\ input_buffer'[u] = input_buffer[u] /\ curr_buff_pos'[u] = curr_buff_pos[u]
           /\ typed'[u] = typed[u] /\ sent'[u] = sent[u] /\ enter_flag'[u] = enter_flag[u]
           /\ pc'[u] = pc[u] /\ idx'[u] = idx[u] /\ buf'[u] = buf[u]
           /\ ret'[u] = ret[u] /\ nbytes'[u] = nbytes[u]
  PROVE  PacedInv'
<1>1. TypeInv'
  BY TypeInvProgram DEF PacedInv
<1>2. \A u \in Terminals \ {t} : /\ LineOK(u)' /\ HeldOK(u)' /\ FlagTaken(u)'
                                 /\ CopyOK(u)' /\ DoneOK(u)'
                                 /\ Holds(u)' <=> Holds(u)
  BY PacedOther
<1>3. HeldOnce'
  <2>1. \A u \in Terminals : Holds(u)' => Holds(u)
    BY <1>2
  <2> QED
    BY <2>1 DEF HeldOnce, PacedInv
<1> QED
  BY <1>1, <1>2, <1>3 DEF PacedInv

\* Calling terminal_read, waking, and acknowledging move the line, and nothing
\* else, from the flag to the reader.
LEMMA PacedTake ==
  ASSUME PacedInv, NEW t \in Terminals,
         \/ \E n \in Requests : read_call(t, n)
         \/ read_wake(t) \/ read_ack(t)
  PROVE  PacedInv'
<1>0. Program(t)
  BY DEF Program, TypedRead
<1>1. /\ input_buffer' = input_buffer /\ curr_buff_pos' = curr_buff_pos
      /\ enter_buffer' = enter_buffer /\ typed' = typed /\ sent' = sent
      /\ mouse_command' = mouse_command /\ buf' = buf /\ ret' = ret
  BY DEF read_call, read_wake, read_ack, keyboard
<1>2. /\ \A u \in Terminals \ {t} : /\ enter_flag'[u] = enter_flag[u] /\ pc'[u] = pc[u]
                                    /\ idx'[u] = idx[u] /\ nbytes'[u] = nbytes[u]
      /\ pc[t] \in {"user", "spin", "ack"}
      /\ pc'[t] \in {"spin", "ack", "copy"}
      /\ pc'[t] = "copy" => idx'[t] = 0
  BY DEF PacedInv, TypeInv, TypeOK, NoRow, read_call, read_wake, read_ack, Goto, keyboard
<1>3. NoRow'
  BY <1>1, <1>2 DEF PacedInv, NoRow
<1>4. Arrays'
  BY <1>1 DEF PacedInv, Arrays
<1>5. Holds(t)' => Holds(t)
  BY DEF PacedInv, TypeInv, TypeOK, NoRow, read_call, read_wake, read_ack, Goto, keyboard,
         Holds, Woken
<1>6. LineOK(t)'
  BY <1>1, <1>2 DEF PacedInv, LineOK
<1>7. HeldOK(t)'
  BY <1>1, <1>5 DEF PacedInv, HeldOK
<1>8. CopyOK(t)'
  <2> SUFFICES ASSUME pc'[t] = "copy"
               PROVE  /\ 0 <= Count(t)'
                      /\ \A l \in sent'[t] : 0 <= Len(l)
    BY <1>2 DEF CopyOK, Copied
  <2>1. read_ack(t)
    BY DEF PacedInv, TypeInv, TypeOK, NoRow, read_call, read_wake, Goto
  <2>2. Count(t)' = Count(t) /\ Count(t) \in 0 .. BufferSize
    BY <2>1, CountRange DEF Count, read_ack, PacedInv, TypeInv
  <2>3. \E l \in Lines : sent[t] = {l}
    BY <2>1 DEF PacedInv, HeldOK, Holds, read_ack
  <2> QED
    BY <1>1, <2>2, <2>3 DEF Lines
<1>9. DoneOK(t)'
  BY <1>2 DEF DoneOK
<1>10. FlagTaken(t)'
  BY DEF PacedInv, TypeInv, TypeOK, NoRow, read_call, read_wake, read_ack, Goto, FlagTaken
<1> QED
  BY <1>0, <1>1, <1>2, <1>3, <1>4, <1>5, <1>6, <1>7, <1>8, <1>9, <1>10, PacedProgramFrame

\* What a reader in its copy loop knows of its line.
LEMMA HeldLine ==
  ASSUME PacedInv, NEW t \in Terminals, pc[t] \in {"copy", "test"}
  PROVE  \E l \in Lines :
           /\ sent[t] = {l} /\ enter_buffer = Padded(l)
           /\ idx[t] \in 0 .. Len(l) /\ idx[t] \in 0 .. Count(t)
           /\ \A k \in 0 .. idx[t] - 1 : buf[t][k] = l[k + 1]
           /\ pc[t] = "test" => idx[t] < Count(t) /\ buf[t][idx[t]] = Padded(l)[idx[t]]
<1>1. PICK l \in Lines : sent[t] = {l} /\ enter_buffer = Padded(l)
  BY DEF PacedInv, HeldOK, Holds
<1>2. idx[t] \in Nat
  BY DEF PacedInv, TypeInv, TypeOK
<1>3. /\ idx[t] <= Count(t)
      /\ idx[t] <= Len(l)
      /\ \A k \in 0 .. idx[t] - 1 : buf[t][k] = l[k + 1]
      /\ pc[t] = "test" => idx[t] < Count(t) /\ buf[t][idx[t]] = Padded(l)[idx[t]]
  BY <1>1 DEF PacedInv, CopyOK, Copied
<1>4. Count(t) \in Nat /\ Len(l) \in Nat
  BY CountRange, TerminalAssumption DEF PacedInv, TypeInv, Lines
<1> QED
  BY <1>1, <1>2, <1>3, <1>4

\* One byte is copied: it is the line's byte at the index, or the NUL behind it.
LEMMA PacedCopy ==
  ASSUME PacedInv, NEW t \in Terminals, read_copy(t)
  PROVE  PacedInv'
<1>0. Program(t)
  BY DEF Program, TypedRead
<1>1. PICK l \in Lines :
        /\ sent[t] = {l} /\ enter_buffer = Padded(l)
        /\ idx[t] \in 0 .. Len(l) /\ idx[t] \in 0 .. Count(t)
        /\ \A k \in 0 .. idx[t] - 1 : buf[t][k] = l[k + 1]
  BY HeldLine DEF read_copy
<1>2. Count(t) \in 0 .. BufferSize /\ idx[t] < Count(t)
  BY CountRange DEF PacedInv, TypeInv, read_copy
<1>3. /\ keyboard' = keyboard /\ enter_flag' = enter_flag /\ mouse_command' = mouse_command
      /\ nbytes' = nbytes /\ idx' = idx /\ ret' = ret /\ typed' = typed /\ sent' = sent
      /\ pc' = [pc EXCEPT ![t] = "test"]
      /\ buf' = [buf EXCEPT ![t] = [buf[t] EXCEPT ![idx[t]] = enter_buffer[idx[t]]]]
  BY DEF read_copy, Goto
<1>4. pc'[t] = "test" /\ pc[t] = "copy" /\ \A u \in Terminals \ {t} : pc'[u] = pc[u]
  BY <1>3 DEF PacedInv, TypeInv, TypeOK, read_copy
<1>5. /\ buf'[t] = [buf[t] EXCEPT ![idx[t]] = enter_buffer[idx[t]]]
      /\ \A u \in Terminals \ {t} : buf'[u] = buf[u]
  BY <1>3 DEF PacedInv, Arrays
<1>6. NoRow'
  BY <1>3, <1>4 DEF PacedInv, NoRow
<1>7. Arrays'
  <2>1. enter_buffer[idx[t]] \in Chars \cup {NUL}
    BY <1>1, <1>2, TerminalAssumption DEF PacedInv, TypeInv, TypeOK, Positions
  <2>2. buf' \in [Terminals -> [0 .. BufferSize -> Chars \cup Rows \cup {NUL, Newline, Unset}]]
    BY <1>3, <2>1 DEF PacedInv, Arrays
  <2> QED
    BY <1>3, <2>2 DEF PacedInv, Arrays
<1>8. Holds(t)' /\ Holds(t)
  BY <1>4 DEF Holds
<1>9. LineOK(t)' /\ HeldOK(t)' /\ FlagTaken(t)'
  BY <1>3, <1>4, <1>8 DEF PacedInv, LineOK, HeldOK, FlagTaken, keyboard
<1>10. CopyOK(t)'
  <2>1. Count(t)' = Count(t) /\ idx'[t] = idx[t] /\ sent'[t] = {l}
    BY <1>1, <1>3 DEF Count
  <2>2. \A k \in 0 .. idx[t] - 1 : buf'[t][k] = l[k + 1]
    BY <1>1, <1>2, <1>5 DEF PacedInv, Arrays
  <2>3. buf'[t][idx[t]] = Padded(l)[idx[t]]
    BY <1>1, <1>2, <1>5, TerminalAssumption DEF PacedInv, Arrays
  <2>4. Copied(l, buf'[t], idx[t])
    BY <1>1, <2>2 DEF Copied
  <2> QED
    BY <1>1, <1>2, <2>1, <2>3, <2>4 DEF CopyOK
<1>11. DoneOK(t)'
  BY <1>4 DEF DoneOK
<1> QED
  BY <1>0, <1>3, <1>4, <1>5, <1>6, <1>7, <1>8, <1>9, <1>10, <1>11, PacedProgramFrame DEF keyboard

\* The byte was not NUL: it is the line's, and it is in the caller's buffer.
LEMMA CopiedByte ==
  ASSUME NEW l \in Lines, NEW k \in Positions, Padded(l)[k] # NUL
  PROVE  k < Len(l) /\ Padded(l)[k] = l[k + 1]
BY DEF Padded

\* A NUL in a padded line is at or behind its end.
LEMMA EndByte ==
  ASSUME NEW l \in Lines, NEW k \in Positions, Padded(l)[k] = NUL
  PROVE  k >= Len(l)
<1> SUFFICES ASSUME k < Len(l)
             PROVE  FALSE
  BY TerminalAssumption DEF Lines, Positions
<1>1. l[k + 1] \in Chars
  BY TerminalAssumption DEF Lines, Positions
<1> QED
  BY <1>1, TerminalAssumption DEF Padded

\* terminal_read's loop: one more byte copied.
LEMMA CopiedNext ==
  ASSUME NEW l, Len(l) \in Nat, NEW b, NEW i \in Nat,
         Copied(l, b, i), i < Len(l), b[i] = l[i + 1]
  PROVE  Copied(l, b, i + 1)
<1>1. \A k \in 0 .. (i + 1) - 1 : k \in 0 .. i - 1 \/ k = i
  OBVIOUS
<1> QED
  BY <1>1 DEF Copied

\* On to the next byte.
LEMMA PacedTest ==
  ASSUME PacedInv, NEW t \in Terminals, read_test(t)
  PROVE  PacedInv'
<1>0. Program(t)
  BY DEF Program, TypedRead
<1>1. PICK l \in Lines :
        /\ sent[t] = {l} /\ enter_buffer = Padded(l)
        /\ idx[t] \in 0 .. Len(l) /\ idx[t] \in 0 .. Count(t)
        /\ \A k \in 0 .. idx[t] - 1 : buf[t][k] = l[k + 1]
        /\ idx[t] < Count(t) /\ buf[t][idx[t]] = Padded(l)[idx[t]]
  BY HeldLine DEF read_test
<1>2. Count(t) \in 0 .. BufferSize /\ idx[t] \in Positions /\ Len(l) \in Nat
  BY <1>1, CountRange, TerminalAssumption DEF PacedInv, TypeInv, Positions, Lines
<1>3. /\ keyboard' = keyboard /\ enter_flag' = enter_flag /\ mouse_command' = mouse_command
      /\ nbytes' = nbytes /\ buf' = buf /\ ret' = ret /\ typed' = typed /\ sent' = sent
  BY DEF read_test
<1>4. /\ pc'[t] = "copy" /\ pc[t] = "test" /\ idx'[t] = idx[t] + 1
      /\ \A u \in Terminals \ {t} : pc'[u] = pc[u] /\ idx'[u] = idx[u]
  BY DEF PacedInv, TypeInv, TypeOK, read_test, Goto
<1>5. NoRow' /\ Arrays'
  BY <1>3, <1>4 DEF PacedInv, NoRow, Arrays
<1>6. Holds(t)' /\ Holds(t)
  BY <1>4 DEF Holds
<1>7. LineOK(t)' /\ HeldOK(t)' /\ FlagTaken(t)'
  BY <1>3, <1>4, <1>6 DEF PacedInv, LineOK, HeldOK, FlagTaken, keyboard
<1>8. idx[t] < Len(l) /\ buf[t][idx[t]] = l[idx[t] + 1]
  BY <1>1, <1>2, CopiedByte DEF read_test
<1>9. CopyOK(t)'
  <2>1. Count(t)' = Count(t) /\ sent'[t] = {l} /\ buf'[t] = buf[t]
    BY <1>1, <1>3 DEF Count
  <2>3. idx[t] + 1 <= Count(t)
    BY <1>1, <1>2
  <2>4. pc'[t] # "test"
    BY <1>4
  <2>5. Copied(l, buf[t], idx[t] + 1)
    <3>1. Copied(l, buf[t], idx[t])
      BY <1>1 DEF Copied
    <3>2. idx[t] \in Nat
      BY <1>2 DEF Positions
    <3> QED
      BY <1>2, <1>8, <3>1, <3>2, CopiedNext
  <2> QED
    BY <1>4, <2>1, <2>3, <2>4, <2>5 DEF CopyOK
<1>10. DoneOK(t)'
  BY <1>4 DEF DoneOK
<1> QED
  BY <1>0, <1>3, <1>4, <1>5, <1>6, <1>7, <1>9, <1>10, PacedProgramFrame DEF keyboard

\* The loop ends at the end of the line or at the size asked for.
LEMMA PacedNewline ==
  ASSUME PacedInv, NEW t \in Terminals, read_newline(t)
  PROVE  PacedInv'
<1>0. Program(t) /\ pc[t] \in {"copy", "test"}
  BY DEF Program, TypedRead, read_newline
<1>1. PICK l \in Lines :
        /\ sent[t] = {l} /\ enter_buffer = Padded(l)
        /\ idx[t] \in 0 .. Len(l) /\ idx[t] \in 0 .. Count(t)
        /\ \A k \in 0 .. idx[t] - 1 : buf[t][k] = l[k + 1]
        /\ pc[t] = "test" => idx[t] < Count(t)
  BY <1>0, HeldLine
<1>2. Count(t) \in 0 .. BufferSize /\ Len(l) \in Nat /\ idx[t] \in 0 .. BufferSize
  BY <1>1, CountRange, TerminalAssumption DEF PacedInv, TypeInv, TypeOK, Lines
<1>3. /\ keyboard' = keyboard /\ enter_flag' = enter_flag /\ mouse_command' = mouse_command
      /\ nbytes' = nbytes /\ idx' = idx /\ typed' = typed /\ sent' = sent
      /\ buf' = [buf EXCEPT ![t] = [buf[t] EXCEPT ![idx[t]] = Newline]]
      /\ ret' = [ret EXCEPT ![t] = idx[t] + 1]
  BY DEF read_newline
<1>4. pc'[t] = "done" /\ \A u \in Terminals \ {t} : pc'[u] = pc[u]
  BY DEF PacedInv, TypeInv, TypeOK, read_newline, Goto
<1>5. /\ buf'[t] = [buf[t] EXCEPT ![idx[t]] = Newline] /\ ret'[t] = idx[t] + 1
      /\ \A u \in Terminals \ {t} : buf'[u] = buf[u] /\ ret'[u] = ret[u]
  BY <1>3 DEF PacedInv, Arrays
<1>6. NoRow'
  BY <1>3, <1>4 DEF PacedInv, NoRow
<1>7. Arrays'
  <2>1. buf' \in [Terminals -> [0 .. BufferSize -> Chars \cup Rows \cup {NUL, Newline, Unset}]]
    BY <1>2, <1>3 DEF PacedInv, Arrays
  <2> QED
    BY <1>3, <2>1 DEF PacedInv, Arrays
<1>8. Holds(t)
  BY <1>0 DEF Holds
<1>9. LineOK(t)' /\ HeldOK(t)' /\ FlagTaken(t)'
  BY <1>0, <1>3, <1>4, <1>8 DEF PacedInv, LineOK, HeldOK, FlagTaken, keyboard
<1>10. CopyOK(t)'
  BY <1>4 DEF CopyOK
<1>11. DoneOK(t)'
  <2> DEFINE n == IF Len(l) < Count(t) THEN Len(l) ELSE Count(t)
  <2>1. idx[t] = n
    <3>1. CASE pc[t] = "test"
      <4>1. idx[t] \in Positions /\ Padded(l)[idx[t]] = NUL
        BY <1>1, <1>2, <3>1, TerminalAssumption DEF read_newline, Positions
      <4>2. idx[t] >= Len(l)
        BY <4>1, EndByte
      <4> QED
        BY <1>1, <1>2, <3>1, <4>2
    <3>2. CASE pc[t] = "copy"
      BY <1>1, <1>2, <3>2 DEF read_newline
    <3> QED
      BY <1>0, <3>1, <3>2
  <2>2. Count(t)' = Count(t) /\ sent'[t] = {l}
    BY <1>1, <1>3 DEF Count
  <2>3. \A k \in 0 .. idx[t] - 1 : buf'[t][k] = l[k + 1]
    BY <1>1, <1>2, <1>5 DEF PacedInv, Arrays
  <2>4. buf'[t][idx[t]] = Newline
    <3>1. DOMAIN buf[t] = 0 .. BufferSize
      BY DEF PacedInv, Arrays
    <3> QED
      BY <1>2, <1>5, <3>1
  <2>5. ret'[t] = n + 1
    BY <1>5, <2>1
  <2>6. /\ (IF Len(l) < Count(t)' THEN Len(l) ELSE Count(t)') = n
        /\ \A k \in 0 .. n - 1 : buf'[t][k] = l[k + 1]
        /\ buf'[t][n] = Newline
    BY <2>1, <2>2, <2>3, <2>4
  <2> HIDE DEF n
  <2> QED
    BY <2>2, <2>5, <2>6 DEF DoneOK
<1> QED
  BY <1>0, <1>3, <1>4, <1>5, <1>6, <1>7, <1>8, <1>9, <1>10, <1>11, PacedProgramFrame DEF keyboard

\* The program has used its line; none is waiting.
LEMMA PacedReturn ==
  ASSUME PacedInv, NEW t \in Terminals, read_return(t)
  PROVE  PacedInv'
<1>0. Program(t)
  BY DEF Program
<1>1. /\ keyboard' = keyboard /\ enter_flag' = enter_flag /\ mouse_command' = mouse_command
      /\ typed' = typed
  BY DEF read_return
<1>2. /\ pc'[t] = "user" /\ pc[t] = "done"
      /\ \A u \in Terminals \ {t} :
           /\ pc'[u] = pc[u] /\ idx'[u] = idx[u] /\ nbytes'[u] = nbytes[u]
           /\ buf'[u] = buf[u] /\ ret'[u] = ret[u] /\ sent'[u] = sent[u]
  BY DEF PacedInv, TypeInv, TypeOK, Arrays, read_return, Goto
<1>3. NoRow'
  BY <1>1, <1>2 DEF PacedInv, NoRow
<1>4. Arrays'
  BY <1>1 DEF PacedInv, Arrays, read_return, FreshBuf
<1>5. ~ Holds(t)'
  BY <1>1, <1>2 DEF PacedInv, FlagTaken, Holds
<1>6. LineOK(t)' /\ HeldOK(t)' /\ FlagTaken(t)' /\ CopyOK(t)' /\ DoneOK(t)'
  BY <1>1, <1>2, <1>5 DEF PacedInv, LineOK, HeldOK, FlagTaken, CopyOK, DoneOK, keyboard
<1> QED
  BY <1>0, <1>1, <1>2, <1>3, <1>4, <1>5, <1>6, PacedProgramFrame DEF keyboard

\* A program ends: its terminal's line is dropped, then cleared byte by byte.
LEMMA PacedHalt ==
  ASSUME PacedInv, NEW t \in Terminals, halt_call(t) \/ clear_buffer(t) \/ halt_done(t)
  PROVE  PacedInv'
<1>0. Program(t)
  BY DEF Program
<1>1. /\ enter_buffer' = enter_buffer /\ mouse_command' = mouse_command
      /\ enter_flag' = enter_flag /\ nbytes' = nbytes /\ buf' = buf /\ ret' = ret
      /\ sent' = sent
  BY DEF halt_call, clear_buffer, halt_done, keyboard
<1>2. /\ pc[t] \in {"user", "clear"} /\ pc'[t] \in {"user", "clear"}
      /\ \A u \in Terminals \ {t} :
           /\ pc'[u] = pc[u] /\ idx'[u] = idx[u] /\ curr_buff_pos'[u] = curr_buff_pos[u]
           /\ typed'[u] = typed[u] /\ input_buffer'[u] = input_buffer[u]
  BY DEF PacedInv, TypeInv, TypeOK, Arrays, halt_call, clear_buffer, halt_done, Goto, keyboard
<1>3. NoRow'
  BY <1>1, <1>2 DEF PacedInv, NoRow
<1>4. Arrays'
  BY <1>1 DEF PacedInv, Arrays, halt_call, clear_buffer, halt_done, keyboard
<1>5. Holds(t)' => Holds(t)
  BY <1>1, <1>2 DEF Holds
<1>6. HeldOK(t)' /\ FlagTaken(t)' /\ CopyOK(t)' /\ DoneOK(t)'
  BY <1>1, <1>2, <1>5 DEF PacedInv, HeldOK, FlagTaken, CopyOK, DoneOK
<1>7. LineOK(t)'
  <2>1. CASE halt_call(t)
    <3>1. /\ pc'[t] = "clear" /\ idx'[t] = 0 /\ typed'[t] = << >> /\ curr_buff_pos'[t] = 0
      BY <2>1 DEF PacedInv, TypeInv, TypeOK, Arrays, halt_call, Goto
    <3> QED
      BY <3>1, PadEmpty, TerminalAssumption DEF LineOK, Positions
  <2>2. CASE clear_buffer(t)
    <3>1. /\ pc'[t] = "clear" /\ idx'[t] = idx[t] + 1 /\ typed' = typed
          /\ curr_buff_pos' = curr_buff_pos
          /\ input_buffer'[t] = [input_buffer[t] EXCEPT ![idx[t]] = NUL]
      BY <2>2 DEF PacedInv, TypeInv, TypeOK, clear_buffer
    <3>2. LineOK(t) /\ pc[t] = "clear" /\ idx[t] \in Nat /\ DOMAIN input_buffer[t] = Positions
      BY <2>2 DEF PacedInv, TypeInv, TypeOK, clear_buffer
    <3>3. \A k \in Positions : k < idx[t] + 1 => input_buffer'[t][k] = NUL
      BY <3>1, <3>2, TerminalAssumption DEF LineOK, Positions
    <3> QED
      BY <3>1, <3>2, <3>3 DEF LineOK
  <2>3. CASE halt_done(t)
    <3>1. pc'[t] = "user" /\ typed' = typed /\ keyboard' = keyboard /\ idx[t] = BufferSize
      BY <2>3 DEF PacedInv, TypeInv, TypeOK, halt_done, Goto
    <3>2. LineOK(t) /\ pc[t] = "clear" /\ input_buffer[t] \in [Positions -> Chars \cup {NUL}]
      BY <2>3 DEF PacedInv, TypeInv, TypeOK, halt_done
    <3>3. \A k \in Positions : input_buffer[t][k] = NUL
      BY <3>1, <3>2, TerminalAssumption DEF LineOK, Positions
    <3>4. input_buffer[t] = Padded(<< >>)
      BY <3>2, <3>3, PadEmpty DEF EmptyLine
    <3> QED
      BY <3>1, <3>2, <3>4 DEF LineOK, keyboard
  <2> QED
    BY <2>1, <2>2, <2>3
<1> QED
  BY <1>0, <1>1, <1>2, <1>3, <1>4, <1>5, <1>6, <1>7, PacedProgramFrame

\* terminal_read gives every program the line last entered on its own terminal,
\* once, provided the user leaves the kernel time between keys, does not click,
\* and does not press Enter while another terminal's line is unread.
THEOREM ReadOwnLineHolds == PacedSpec => []ReadOwnLine
<1>1. PacedInv /\ [PacedNext]_vars => PacedInv'
  <2> SUFFICES ASSUME PacedInv, [PacedNext]_vars
               PROVE  PacedInv'
    OBVIOUS
  <2>1. CASE SettledKey(NoneUnreadElsewhere)
    BY <2>1, PacedModifier, PacedBackspace, PacedCharacter, PacedCtrlL, PacedEnter
    DEF SettledKey
  <2>2. ASSUME NEW t \in Terminals, Program(t)
        PROVE  PacedInv'
    <3>1. ~ RowRead(t)
      BY DEF PacedInv, NoRow, RowRead, read_row, read_row_forget, read_row_ack,
             read_row_reset, read_row_clear, read_row_done
    <3> QED
      BY <2>2, <3>1, PacedTake, PacedCopy, PacedTest, PacedNewline, PacedReturn, PacedHalt
      DEF Program, TypedRead
  <2>3. CASE UNCHANGED vars
    BY <2>3 DEF vars, keyboard, reader, PacedInv, TypeInv, TypeOK, TestInside, NoRow, Arrays,
                HeldOnce, Holds, LineOK, HeldOK, FlagTaken, CopyOK, DoneOK, Count
  <2> QED
    BY <2>1, <2>2, <2>3 DEF PacedNext
<1>2. PacedInv => ReadOwnLine
  BY DEF PacedInv, DoneOK, ReadOwnLine
<1> QED
  BY <1>1, <1>2, PacedInit, PTL DEF PacedSpec
=============================================================================
