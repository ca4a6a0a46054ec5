---------------------------- MODULE KernelProofs ----------------------------
(***************************************************************************)
(* Proofs about Kernel for every number of terminals, PCBs and statuses.   *)
(* In every interleaving types and the reservation of the mapped page      *)
(* hold.  CalmInv is an inductive invariant of CalmSpec: with no interrupt *)
(* inside halt and calls from the foreground only, the process structure   *)
(* is sound, and CalmSpec implements Sessions under the refinement mapping *)
(* of Kernel.                                                              *)
(***************************************************************************)
EXTENDS Kernel, LoopLemmas, FiniteSetTheorems

-----------------------------------------------------------------------------
(* Facts about the searches the code makes.                                *)

\* add_pcb and add_prog_page return a free entry when there is one.
LEMMA FirstFreeIsFree ==
  ASSUME NEW used, used \subseteq Slots, used # Slots
  PROVE  FirstFree(used) \in Slots \ used
<1> DEFINE free == Slots \ used
<1>1. free \subseteq Nat
  BY MaxNumProgAssumption DEF Slots
<1>a. free # {}
  OBVIOUS
<1>2. PICK i \in free : \A j \in free : ~ (j < i)
  BY <1>1, <1>a, LeastNat
<1>3. i \in Slots /\ i \notin used /\ \A j \in Slots : j < i => j \in used
  BY <1>2
<1> QED
  BY <1>3 DEF FirstFree

\* The scheduler's first loop ends at a terminal whose current process is the
\* interrupted one, or past the last terminal.
LEMMA CurrentIndexRange ==
  /\ CurrentIndex \in 0 .. NumTerminals
  /\ CurrentIndex \in Terminals => term_curr_pcb[CurrentIndex] = run
<1> USE NumTerminalsAssumption DEF Terminals
<1>1. CASE \E t \in Terminals : term_curr_pcb[t] = run
  <2> DEFINE hits == {t \in Terminals : term_curr_pcb[t] = run}
  <2>1. PICK t \in hits : \A u \in hits : ~ (u < t)
    <3>1. hits \subseteq Nat
      OBVIOUS
    <3>2. hits # {}
      BY <1>1
    <3> QED
      BY <3>1, <3>2, LeastNat
  <2>2. \E v \in Terminals :
          /\ term_curr_pcb[v] = run
          /\ \A u \in Terminals : u < v => term_curr_pcb[u] # run
    BY <2>1
  <2>3. CurrentIndex \in Terminals /\ term_curr_pcb[CurrentIndex] = run
    BY <1>1, <2>2 DEF CurrentIndex
  <2> QED
    BY <2>3
<1>2. CASE ~ \E t \in Terminals : term_curr_pcb[t] = run
  BY <1>2 DEF CurrentIndex
<1> QED
  BY <1>1, <1>2

\* Every terminal is some number of steps, at most NumTerminals, after any
\* position of the scheduler's search, counting in circular order.
LEMMA StepsAhead ==
  ASSUME NEW from \in 0 .. NumTerminals, NEW t \in Terminals
  PROVE  \E n \in 1 .. NumTerminals : (from + n) % NumTerminals = t
<1> USE NumTerminalsAssumption DEF Terminals
<1>1. t % NumTerminals = t /\ (t + NumTerminals) % NumTerminals = t
  OBVIOUS
<1>2. (NumTerminals + NumTerminals) % NumTerminals = 0
  OBVIOUS
<1>3. CASE t > from
  <2>1. t - from \in 1 .. NumTerminals
    BY <1>3
  <2>2. (from + (t - from)) % NumTerminals = t
    BY <1>1, <1>3
  <2> QED
    BY <2>1, <2>2
<1>4. CASE t <= from /\ from # NumTerminals
  <2>1. t - from + NumTerminals \in 1 .. NumTerminals
    BY <1>4
  <2>2. (from + (t - from + NumTerminals)) % NumTerminals = t
    BY <1>1, <1>4
  <2> QED
    BY <2>1, <2>2
<1>5. CASE from = NumTerminals /\ t # 0
  <2>1. t \in 1 .. NumTerminals
    BY <1>5
  <2>2. (from + (t)) % NumTerminals = t
    BY <1>1, <1>5
  <2> QED
    BY <2>1, <2>2
<1>6. CASE from = NumTerminals /\ t = 0
  <2>1. NumTerminals \in 1 .. NumTerminals
    BY <1>6
  <2>2. (from + (NumTerminals)) % NumTerminals = t
    BY <1>2, <1>6
  <2> QED
    BY <2>1, <2>2
<1> QED
  BY <1>3, <1>4, <1>5, <1>6

\* The scheduler's search stops at a terminal that has a process, when one has.
LEMMA NextTerminalHasProcess ==
  ASSUME NEW from \in 0 .. NumTerminals,
         \E t \in Terminals : term_curr_pcb[t] # NULL
  PROVE  /\ NextTerminal(from) \in Terminals
         /\ term_curr_pcb[NextTerminal(from)] # NULL
<1> DEFINE Nth(i) == (from + i) % NumTerminals
           hits   == {n \in 1 .. NumTerminals : term_curr_pcb[Nth(n)] # NULL}
<1>1. hits # {}
  BY StepsAhead
<1>2. hits \subseteq Nat
  BY NumTerminalsAssumption
<1>3. PICK n \in hits : \A m \in hits : ~ (m < n)
  BY <1>1, <1>2, LeastNat
<1>4. \E k \in 1 .. NumTerminals :
         /\ term_curr_pcb[Nth(k)] # NULL
         /\ \A m \in 1 .. NumTerminals : m < k => term_curr_pcb[Nth(m)] = NULL
  BY <1>3
<1>5. \A k \in 1 .. NumTerminals : Nth(k) \in Terminals
  BY NumTerminalsAssumption DEF Terminals
<1> HIDE DEF Nth
<1>6. \E k \in 1 .. NumTerminals :
         NextTerminal(from) = Nth(k) /\ term_curr_pcb[Nth(k)] # NULL
  BY <1>4 DEF NextTerminal, Nth
<1> QED
  BY <1>5, <1>6
-----------------------------------------------------------------------------
(* What holds in every interleaving.                                       *)

\* A stack inside halt holds halt's argument, and past the test of the parent
\* pointer it has a parent.
HaltFrames ==
  \A s \in Slots :
    /\ pc[s] \in HaltWindow => status[s] \in 0 .. ExceptionStatus
    /\ pc[s] \in {"map_parent", "set_return", "jump"} => parent[s] \in Slots

TypeInv == TypeOK /\ HaltFrames

\* Before boot: the tables of sched.c and page.c are empty.
LEMMA TypeInvInit == Init => TypeInv
  BY NumTerminalsAssumption, MaxNumProgAssumption
     DEF Init, TypeInv, TypeOK, HaltFrames, Terminals, Slots, Points, Waiting,
         HaltWindow

\* execute, entered from anywhere, keeps the types.
LEMMA LaunchType ==
  ASSUME TypeInv, NEW t \in Terminals, run \in Slots,
         NEW after \in {"execute", "gone", "respawned", pc[run]},
         Launch(t, after), return_val' = return_val,
         video_page' \in {"none", "screen", "backup"}, active' \in Terminals
  PROVE  TypeInv'
<1> DEFINE page  == FirstFree(prog_used_page)
           child == FirstFree(pcb_used)
<1>1. page \in Slots /\ child \in Slots
  BY FirstFreeIsFree DEF TypeInv, TypeOK, Launch
<1> HIDE DEF page, child
<1>2. /\ prog_used_page' = prog_used_page \cup {page}
      /\ page_dir' = page
      /\ pcb_used' = pcb_used \cup {child}
      /\ terminal_number' = [terminal_number EXCEPT ![child] = t]
      /\ pt_idx' = [pt_idx EXCEPT ![child] = page]
      /\ parent' = [parent EXCEPT ![child] = IF term_curr_pcb[t] # NULL
                                             THEN run ELSE NULL]
      /\ old_tssESP' \in {old_tssESP, [old_tssESP EXCEPT ![child] = esp0]}
      /\ esp0' = child
      /\ term_curr_pcb' = [term_curr_pcb EXCEPT ![t] = child]
      /\ pc' = [pc EXCEPT ![run] = after, ![child] = "user"]
      /\ status' = [status EXCEPT ![child] = NULL]
      /\ run' = child
      /\ intr' = TRUE
  BY DEF Launch, add_prog_page, page, child
<1>3. TypeOK'
  BY <1>1, <1>2 DEF TypeInv, TypeOK, Points, Waiting
<1>4. HaltFrames'
  <2> SUFFICES ASSUME NEW s \in Slots
               PROVE  /\ pc'[s] \in HaltWindow => status'[s] \in 0 .. ExceptionStatus
                      /\ pc'[s] \in {"map_parent", "set_return", "jump"}
                           => parent'[s] \in Slots
    BY DEF HaltFrames
  <2>1. CASE s = child
    BY <1>1, <1>2, <2>1 DEF TypeInv, TypeOK, HaltWindow
  <2>2. CASE s # child
    <3>1. pc'[s] = pc[s] \/ pc'[s] \in {"execute", "gone", "respawned"}
      BY <1>1, <1>2, <2>2 DEF TypeInv, TypeOK
    <3>2. status'[s] = status[s] /\ parent'[s] = parent[s]
      BY <1>1, <1>2, <2>2 DEF TypeInv, TypeOK
    <3> QED
      BY <3>1, <3>2 DEF TypeInv, HaltFrames, HaltWindow
  <2> QED
    BY <2>1, <2>2
<1> QED
  BY <1>3, <1>4 DEF TypeInv

\* A failed execute keeps the types.
LEMMA LaunchFailsType ==
  ASSUME TypeInv, LaunchFails
  PROVE  /\ prog_used_page' \subseteq Slots
         /\ page_dir' \in Slots \cup {NULL}
         /\ UNCHANGED <<pcb_used, term_curr_pcb, esp0, pcbVars>>
  BY FirstFreeIsFree DEF TypeInv, TypeOK, LaunchFails, add_prog_page, pageVars

\* Every step of the kernel keeps the typing.
LEMMA TypeInvStep == TypeInv /\ [Next]_vars => TypeInv'
<1> SUFFICES ASSUME TypeInv, [Next]_vars
             PROVE  TypeInv'
  OBVIOUS
<1> USE DEF TypeInv
<1>1. CASE UNCHANGED vars
  BY <1>1 DEF vars, pageVars, pcbVars, TypeOK, HaltFrames
<1>2. CASE execute
  <2>1. run \in Slots /\ active \in Terminals
    BY <1>2 DEF execute, UserMode, At, TypeOK
  <2>2. CASE Launch(active, "execute")
    BY <1>2, <2>1, <2>2, LaunchType DEF execute, TypeOK
  <2>3. CASE LaunchFails /\ UNCHANGED <<run, pc, status, intr>>
    BY <1>2, <2>3, LaunchFailsType DEF execute, TypeOK, HaltFrames, pcbVars
  <2> QED
    BY <1>2, <2>2, <2>3 DEF execute
<1>3. CASE boot_shell
  <2>1. run \in Slots /\ active \in Terminals
    BY <1>3 DEF boot_shell, At, TypeOK
  <2> QED
    BY <1>3, <2>1, LaunchType DEF boot_shell, TypeOK
<1>4. CASE vidmap
  BY <1>4 DEF vidmap, pageVars, pcbVars, TypeOK, HaltFrames
<1>5. ASSUME NEW st \in 0 .. ExceptionStatus, run \in Slots, halt_detach(st),
             intr' \in BOOLEAN
      PROVE  TypeInv'
  <2>1. TypeOK'
    BY <1>5 DEF halt_detach, TypeOK, pageVars, pcbVars, Points, HaltWindow
  <2>2. HaltFrames'
    BY <1>5 DEF halt_detach, TypeOK, HaltFrames, HaltWindow, pcbVars
  <2> QED
    BY <2>1, <2>2
<1>6. CASE exception
  <2>1. run \in Slots
    BY <1>6 DEF exception, At, TypeOK
  <2>2. ExceptionStatus \in 0 .. ExceptionStatus
    BY DEF ExceptionStatus
  <2>3. halt_detach(ExceptionStatus) /\ intr' \in BOOLEAN
    BY <1>6 DEF exception
  <2> QED
    BY <1>5, <2>1, <2>2, <2>3
<1>7. ASSUME NEW st \in Statuses, halt(st)
      PROVE  TypeInv'
  <2>1. run \in Slots /\ intr' \in BOOLEAN
    BY <1>7 DEF halt, UserMode, At, TypeOK
  <2>2. st \in 0 .. ExceptionStatus /\ halt_detach(st)
    BY <1>7, StatusesAssumption DEF halt, ExceptionStatus
  <2> QED
    BY <1>5, <2>1, <2>2
<1>8. CASE halt_free_page
  <2>1. TypeOK'
    BY <1>8 DEF halt_free_page, At, free_prog_page, TypeOK, pageVars, pcbVars,
                Points, HaltWindow
  <2>2. HaltFrames'
    BY <1>8 DEF halt_free_page, At, TypeOK, HaltFrames, HaltWindow, pcbVars
  <2> QED
    BY <2>1, <2>2
<1>9. CASE halt_map_parent
  <2>1. TypeOK'
    BY <1>9 DEF halt_map_parent, At, set_prog_page, TypeOK, pageVars, pcbVars,
                Points, HaltWindow
  <2>2. HaltFrames'
    BY <1>9 DEF halt_map_parent, At, TypeOK, HaltFrames, HaltWindow, pcbVars
  <2> QED
    BY <2>1, <2>2
<1>10. CASE halt_release
  <2>1. TypeOK'
    BY <1>10 DEF halt_release, At, TypeOK, pageVars, pcbVars, Points, HaltWindow
  <2>2. HaltFrames'
    BY <1>10 DEF halt_release, At, TypeOK, HaltFrames, HaltWindow, pcbVars
  <2> QED
    BY <2>1, <2>2
<1>11. CASE halt_set_return
  <2>a. run \in Slots /\ parent[run] \in Slots /\ status[run] \in Nat
    <3>1. run \in Slots /\ pc[run] = "set_return"
      BY <1>11 DEF halt_set_return, At, TypeOK
    <3>2. status[run] \in 0 .. ExceptionStatus /\ parent[run] \in Slots
      BY <3>1 DEF HaltFrames, HaltWindow
    <3> QED
      BY <3>1, <3>2 DEF ExceptionStatus
  <2>1. run \in Slots /\ parent[run] \in Slots /\ status[run] % 256 \in 0 .. 255
    BY <2>a
  <2>2. TypeOK'
    BY <1>11, <2>1 DEF halt_set_return, At, TypeOK, pageVars, pcbVars, Points,
                       HaltWindow
  <2>3. HaltFrames'
    BY <1>11, <2>1 DEF halt_set_return, At, TypeOK, HaltFrames, HaltWindow,
                       pcbVars
  <2> QED
    BY <2>2, <2>3
<1>12. CASE halt_jump
  <2>1. run \in Slots /\ parent[run] \in Slots
    BY <1>12 DEF halt_jump, At, TypeOK, HaltFrames
  <2>2. TypeOK'
    BY <1>12, <2>1 DEF halt_jump, At, TypeOK, pageVars, pcbVars, Points
  <2>3. HaltFrames'
    BY <1>12, <2>1 DEF halt_jump, At, TypeOK, HaltFrames, HaltWindow, pcbVars
  <2> QED
    BY <2>2, <2>3
<1>13. CASE halt_exec_shell
  <2>1. run \in Slots /\ active \in Terminals
    BY <1>13 DEF halt_exec_shell, At, TypeOK
  <2>2. CASE Launch(active, "respawned")
    BY <1>13, <2>1, <2>2, LaunchType DEF halt_exec_shell, TypeOK
  <2>3. CASE halt_returns /\ status[run] # ExceptionStatus
    <3> /\ LaunchFails
        /\ pc' = [pc EXCEPT ![run] = "user"]
        /\ status' = [status EXCEPT ![run] = NULL]
        /\ intr' = TRUE
        /\ run' = run
      BY <2>3 DEF halt_returns
    <3>1. TypeOK'
      BY <1>13, <2>1, <2>3, LaunchFailsType
         DEF halt_exec_shell, TypeOK, pcbVars, Points
    <3>2. HaltFrames'
      BY <1>13, <2>1, <2>3, LaunchFailsType
         DEF halt_exec_shell, TypeOK, HaltFrames, HaltWindow, pcbVars
    <3> QED
      BY <3>1, <3>2
  <2>4. CASE halt_returns /\ status[run] = ExceptionStatus
    <3>1. /\ LaunchFails /\ run' = Lost /\ intr' = FALSE
          /\ pc' = pc /\ status' = status
      BY <2>4 DEF halt_returns
    <3>2. TypeOK'
      BY <1>13, <3>1, LaunchFailsType DEF halt_exec_shell, TypeOK, pcbVars
    <3>3. HaltFrames'
      BY <1>13, <3>1, LaunchFailsType DEF halt_exec_shell, HaltFrames, pcbVars
    <3> QED
      BY <3>2, <3>3
  <2> QED
    BY <1>13, <2>2, <2>3, <2>4 DEF halt_exec_shell
<1>14. CASE do_handle_pit
  <2> DEFINE qindex == NextTerminal(CurrentIndex)
             next   == term_curr_pcb[qindex]
  <2>1. CurrentIndex \in 0 .. NumTerminals
    BY CurrentIndexRange
  <2>2. next \in Slots
    BY <1>14, <2>1, NextTerminalHasProcess DEF do_handle_pit, TypeOK
  <2> HIDE DEF qindex, next
  <2>3. /\ run # Lost
        /\ esp0' = next
        /\ set_prog_page(pt_idx[next])
        /\ video_page' = set_video_page(qindex = active)
        /\ run' = IF pc[next] \in {"gone", "boot"} THEN Lost ELSE next
        /\ pc' = IF pc[next] \in Waiting THEN [pc EXCEPT ![next] = "user"]
                                         ELSE pc
        /\ UNCHANGED <<pcb_used, term_curr_pcb, active, pcbVars, return_val,
                       status, intr>>
    BY <1>14 DEF do_handle_pit, qindex, next
  <2>4. TypeOK'
    BY <2>2, <2>3 DEF TypeOK, set_prog_page, set_video_page, pageVars, pcbVars,
                      Points
  <2>5. HaltFrames'
    BY <2>2, <2>3 DEF TypeOK, HaltFrames, HaltWindow, pcbVars
  <2> QED
    BY <2>4, <2>5
<1>15. ASSUME NEW new \in Terminals, change_video_mem(new)
       PROVE  TypeInv'
  <2>1. run \in Slots /\ video_page' \in {"none", "screen", "backup"}
    BY <1>15 DEF change_video_mem, set_video_page, TypeOK
  <2>2. CASE UNCHANGED <<pcb_used, pageVars, term_curr_pcb, esp0, pcbVars, run,
                         pc, status, intr>>
    BY <1>15, <2>1, <2>2 DEF change_video_mem, TypeOK, HaltFrames, pageVars,
                             pcbVars
  <2>3. CASE Launch(new, pc[run])
    BY <1>15, <2>1, <2>3, LaunchType DEF change_video_mem
  <2>4. CASE LaunchFails /\ UNCHANGED <<run, pc, status, intr>>
    BY <1>15, <2>1, <2>4, LaunchFailsType
       DEF change_video_mem, TypeOK, HaltFrames, pcbVars
  <2> QED
    BY <1>15, <2>2, <2>3, <2>4 DEF change_video_mem
<1>16. CASE debug
  BY <1>16 DEF debug, pageVars, pcbVars, TypeOK, HaltFrames
<1> QED
  BY <1>1, <1>2, <1>3, <1>4, <1>6, <1>7, <1>8, <1>9, <1>10, <1>11, <1>12,
     <1>13, <1>14, <1>15, <1>16
     DEF Next, Interrupt, HaltEntry, HaltStep

\* In every interleaving the state is well typed: slots, pages and terminals
\* stay in range whatever race happens, until the CPU runs on a dead stack.
THEOREM TypeCorrect == Spec => []TypeOK
<1>1. TypeInv => TypeOK
  BY DEF TypeInv
<1> QED
  BY <1>1, TypeInvInit, TypeInvStep, PTL DEF Spec

\* In every interleaving, races included, the page mapped for programs is
\* marked as taken: no later execute is given the page in use.
THEOREM MappedPageStaysReserved == Spec => []MappedPageReserved
<1>1. Init => MappedPageReserved
  BY DEF Init, MappedPageReserved
<1>2. MappedPageReserved /\ [Next]_vars => MappedPageReserved'
  <2> SUFFICES ASSUME MappedPageReserved, [Next]_vars
               PROVE  MappedPageReserved'
    OBVIOUS
  <2> USE DEF MappedPageReserved
  <2>1. ASSUME UNCHANGED pageVars
        PROVE  MappedPageReserved'
    BY <2>1 DEF pageVars
  <2>2. ASSUME NEW idx, add_prog_page(idx) \/ set_prog_page(idx)
                          \/ free_prog_page(idx)
        PROVE  MappedPageReserved'
    BY <2>1, <2>2 DEF add_prog_page, set_prog_page, free_prog_page
  <2>3. ASSUME LaunchFails
        PROVE  MappedPageReserved'
    BY <2>1, <2>2, <2>3 DEF LaunchFails
  <2>4. ASSUME NEW t, NEW after, Launch(t, after)
        PROVE  MappedPageReserved'
    BY <2>2, <2>4 DEF Launch
  <2>5. CASE Interrupt
    <3>1. CASE do_handle_pit
      BY <2>2, <3>1 DEF do_handle_pit
    <3>2. ASSUME NEW new \in Terminals, change_video_mem(new)
          PROVE  MappedPageReserved'
      BY <2>1, <2>3, <2>4, <3>2 DEF change_video_mem
    <3> QED
      BY <2>5, <3>1, <3>2 DEF Interrupt
  <2>6. CASE HaltStep
    BY <2>1, <2>2, <2>3, <2>4, <2>6
       DEF HaltStep, halt_free_page, halt_map_parent, halt_release,
           halt_set_return, halt_jump, halt_exec_shell, halt_returns
  <2>7. CASE execute \/ boot_shell
    BY <2>3, <2>4, <2>7 DEF execute, boot_shell
  <2>8. CASE vidmap \/ HaltEntry \/ debug
    BY <2>1, <2>8 DEF vidmap, HaltEntry, exception, halt, halt_detach, debug
  <2>9. CASE UNCHANGED vars
    BY <2>1, <2>9 DEF vars
  <2> QED
    BY <2>5, <2>6, <2>7, <2>8, <2>9 DEF Next
<1> QED
  BY <1>1, <1>2, PTL DEF Spec

-----------------------------------------------------------------------------
(* The system without the two races: CalmSpec *)

\* The restricted system only does what the kernel does.
LEMMA CalmNextIsNext == CalmNext => Next
  BY DEF CalmNext, ForegroundExecute, ForegroundHalt, Next

\* A slot is neither a null pointer nor a lost stack.
LEMMA SlotsAreReal == \A s \in Slots : s # Lost /\ s # NULL
  BY SentinelsAssumption, MaxNumProgAssumption DEF Slots

\* With no PCB taken add_pcb returns slot 0, the one the boot stack is in.
LEMMA FirstFreeOfNone == FirstFree({}) = 0
<1>1. 0 \in Slots /\ \A j \in Slots : ~ (j < 0)
  BY MaxNumProgAssumption DEF Slots
<1>2. \A i \in Slots : (\A j \in Slots : j < i => j \in {}) => i = 0
  BY MaxNumProgAssumption DEF Slots
<1> QED
  BY <1>1, <1>2 DEF FirstFree

\* The boot state satisfies the inductive invariant.
LEMMA CalmInvInit == Init => CalmInv
  BY NumTerminalsAssumption, MaxNumProgAssumption, SentinelsAssumption
     DEF Init, CalmInv, InvPoints, InvBoot, InvQueue, InvFamily, InvPages,
         InvMapped, InvHalt, At, InHalt, Alive, HaltWindow, Waiting,
         Slots

\* The scheduler only moves the CPU between current processes.
LEMMA PitStep ==
  ASSUME TypeInv, CalmInv, HaltUninterrupted, do_handle_pit
  PROVE  CalmInv' /\ pc' = pc
<1> DEFINE qindex == NextTerminal(CurrentIndex)
           next   == term_curr_pcb[qindex]
<1>1. /\ qindex \in Terminals
      /\ next # NULL
  BY CurrentIndexRange, NextTerminalHasProcess DEF do_handle_pit
<1>2. /\ esp0' = next
      /\ set_prog_page(pt_idx[next])
      /\ video_page' = set_video_page(qindex = active)
      /\ run' = IF pc[next] \in {"gone", "boot"} THEN Lost ELSE next
      /\ pc' = IF pc[next] \in Waiting THEN [pc EXCEPT ![next] = "user"]
                                       ELSE pc
      /\ UNCHANGED <<pcb_used, term_curr_pcb, active, pcbVars, return_val,
                     status, intr>>
  BY DEF do_handle_pit
<1>3. run \in Slots /\ pc[run] = "user" /\ ~ InHalt /\ Alive = pcb_used
  <2>1. ~ At("boot")
    BY <1>1 DEF CalmInv, InvBoot
  <2>2. run \in Slots /\ pc[run] = "user"
    BY <2>1 DEF CalmInv, InvPoints, HaltUninterrupted, At, TypeInv, TypeOK
  <2> QED
    BY <2>2 DEF InHalt, Alive, HaltWindow
<1>4. next \in pcb_used /\ terminal_number[next] = qindex /\ pc[next] = "user"
  BY <1>1, <1>3 DEF CalmInv, InvQueue
<1>5. pcb_used \subseteq Slots /\ next \in Slots /\ next # Lost
  BY <1>4, SlotsAreReal DEF TypeInv, TypeOK
<1> HIDE DEF next, qindex
<1>6. run' = next /\ pc' = pc /\ esp0' = next
  BY <1>2, <1>4 DEF Waiting
<1>7. page_dir' = pt_idx[next] /\ prog_used_page' = prog_used_page
  BY <1>2, <1>3, <1>4 DEF set_prog_page, CalmInv, InvPages
<1>8. ~ InHalt' /\ Alive' = pcb_used
  BY <1>2, <1>4, <1>6 DEF InHalt, Alive, HaltWindow
<1>9. pcb_used' = pcb_used /\ term_curr_pcb' = term_curr_pcb /\ active' = active
      /\ parent' = parent /\ pt_idx' = pt_idx
      /\ terminal_number' = terminal_number /\ old_tssESP' = old_tssESP
  BY <1>2 DEF pcbVars
<1>10. InvPoints'
  <2>1. run \in pcb_used
    BY <1>3, SlotsAreReal DEF CalmInv, InvQueue, At
  <2> QED
    BY <1>3, <1>4, <1>5, <1>6, <1>9, <2>1 DEF CalmInv, InvPoints
<1>11. InvBoot'
  BY <1>4, <1>6 DEF InvBoot, At
<1>12. InvQueue'
  BY <1>3, <1>4, <1>6, <1>8, <1>9 DEF CalmInv, InvQueue, At
<1>13. InvFamily'
  BY <1>3, <1>6, <1>8, <1>9 DEF CalmInv, InvFamily
<1>14. InvPages'
  BY <1>3, <1>6, <1>7, <1>8, <1>9 DEF CalmInv, InvPages
<1>15. InvMapped' /\ InvHalt'
  BY <1>6, <1>7, <1>8, <1>9 DEF InvMapped, InvHalt
<1> QED
  BY <1>6, <1>10, <1>11, <1>12, <1>13, <1>14, <1>15 DEF CalmInv

\* execute succeeds.  Either the caller is a program in user mode on the screen
\* and becomes the parent, or terminal t has no process and the child is a root;
\* the CPU is then at boot, in user mode, or at the end of a root's halt.
LEMMA LaunchStep ==
  ASSUME TypeInv, CalmInv, NEW t \in Terminals, active' = t, NEW after,
         Launch(t, after), return_val' = return_val,
         \/ /\ At("user") /\ t = active
            /\ terminal_number[run] = active
            /\ after = "execute"
         \/ /\ term_curr_pcb[t] = NULL
            /\ \/ At("boot") /\ after \in {"gone", "boot"}
               \/ At("user") /\ after = "user"
               \/ At("exec_shell") /\ after = "respawned"
  PROVE  CalmInv'
<1> DEFINE page  == FirstFree(prog_used_page)
           child == FirstFree(pcb_used)
           par   == IF term_curr_pcb[t] # NULL THEN run ELSE NULL
<1>1. page \in Slots \ prog_used_page /\ child \in Slots \ pcb_used
  BY FirstFreeIsFree DEF TypeInv, TypeOK, Launch
<1>2. At("boot") => child = 0 /\ run = 0
  BY FirstFreeOfNone DEF CalmInv, InvBoot
<1> HIDE DEF page, child
<1>a. run \in Slots /\ run # NULL
  BY SlotsAreReal DEF At, TypeInv, TypeOK
<1>3. /\ prog_used_page' = prog_used_page \cup {page}
      /\ page_dir' = page
      /\ pcb_used' = pcb_used \cup {child}
      /\ terminal_number' = [terminal_number EXCEPT ![child] = t]
      /\ pt_idx' = [pt_idx EXCEPT ![child] = page]
      /\ parent' = [parent EXCEPT ![child] = par]
      /\ par # NULL => old_tssESP' = [old_tssESP EXCEPT ![child] = esp0]
      /\ par = NULL => old_tssESP' = old_tssESP
      /\ esp0' = child
      /\ term_curr_pcb' = [term_curr_pcb EXCEPT ![t] = child]
      /\ pc' = [pc EXCEPT ![run] = after, ![child] = "user"]
      /\ run' = child
  BY <1>a DEF Launch, add_prog_page, page, child
<1>4. run \in Slots /\ run # Lost /\ child # Lost /\ child # NULL
  BY <1>1, <1>a, SlotsAreReal DEF At, TypeInv, TypeOK
<1>5. ~ InHalt' /\ Alive' = pcb_used \cup {child} /\ At("user")'
  BY <1>1, <1>3, <1>4 DEF InHalt, Alive, HaltWindow, At, TypeInv, TypeOK
<1>6. \A s \in Slots \ {child} :
        /\ terminal_number'[s] = terminal_number[s]
        /\ pt_idx'[s] = pt_idx[s]
        /\ parent'[s] = parent[s]
        /\ old_tssESP'[s] = old_tssESP[s]
        /\ pc'[s] = IF s = run THEN after ELSE pc[s]
  BY <1>1, <1>3, <1>4 DEF TypeInv, TypeOK
<1>7. /\ terminal_number'[child] = t
      /\ pt_idx'[child] = page
      /\ parent'[child] = par
      /\ pc'[child] = "user"
  BY <1>1, <1>3, <1>4 DEF TypeInv, TypeOK
<1>8. \A u \in Terminals : term_curr_pcb'[u] = IF u = t THEN child
                                               ELSE term_curr_pcb[u]
  BY <1>3 DEF TypeInv, TypeOK
<1>9. pcb_used \subseteq Slots /\ \A p \in pcb_used : p # child
  BY <1>1 DEF TypeInv, TypeOK
\* What the three kinds of caller have in common.
<1>b. /\ pc[run] \in {"boot", "user", "exec_shell"}
      /\ run \in pcb_used => pc[run] = "user"
      /\ InHalt => parent[run] = NULL
      /\ Alive \ {run} = pcb_used \ {run}
      /\ prog_used_page = {pt_idx[p] : p \in pcb_used}
  <2>1. pc[run] \in {"boot", "user", "exec_shell"}
    BY DEF At
  <2>2. InHalt <=> pc[run] = "exec_shell"
    BY <1>4, <2>1 DEF InHalt, HaltWindow
  <2>3. InHalt => parent[run] = NULL /\ run \notin pcb_used
    BY <2>2 DEF CalmInv, InvHalt
  <2>4. pc[run] = "boot" => pcb_used = {}
    BY <1>4 DEF CalmInv, InvBoot, At
  <2>5. prog_used_page = {pt_idx[p] : p \in pcb_used}
    <3>1. CASE InHalt
      <4>1. Alive \ {run} = pcb_used
        BY <2>3, <3>1 DEF Alive
      <4>2. prog_used_page = {pt_idx[p] : p \in Alive \ {run}}
        BY <2>2, <3>1 DEF CalmInv, InvPages
      <4> QED
        BY <4>1, <4>2
    <3>2. CASE ~ InHalt
      BY <3>2 DEF CalmInv, InvPages
    <3> QED
      BY <3>1, <3>2
  <2> QED
    BY <2>1, <2>2, <2>3, <2>4, <2>5 DEF Alive
<1>10. InvPoints'
  <2>1. \A s \in Slots \ pcb_used : s # child => pc'[s] \in {"gone", "respawned"}
    BY <1>2, <1>6 DEF CalmInv, InvPoints, InvQueue, At
  <2>2. \A p \in pcb_used : p # child => pc'[p] \in {"user", "execute"}
    BY <1>2, <1>6, <1>9 DEF CalmInv, InvPoints, InvBoot, InvHalt, InHalt, At,
                            HaltWindow
  <2> QED
    BY <1>3, <1>4, <1>7, <2>1, <2>2 DEF InvPoints
<1>11. InvBoot'
  BY <1>5 DEF InvBoot, At
<1>12. InvQueue'
  <2>1. \A p \in pcb_used \cup {child} : terminal_number'[p] \in Terminals
    BY <1>6, <1>7, <1>9 DEF CalmInv, InvQueue, Alive
  <2>2. \A u \in Terminals : term_curr_pcb'[u] # NULL =>
          term_curr_pcb'[u] \in pcb_used'
            /\ terminal_number'[term_curr_pcb'[u]] = u
    BY <1>3, <1>6, <1>7, <1>8, <1>9 DEF CalmInv, InvQueue
  <2>3. ASSUME NEW p \in pcb_used, p # child
        PROVE  pc'[p] = "user" <=> term_curr_pcb'[terminal_number'[p]] = p
    <3>1. /\ p \in Slots /\ p # NULL
          /\ terminal_number[p] \in Terminals
          /\ terminal_number'[p] = terminal_number[p]
      BY <1>6, <1>9, <2>3, SlotsAreReal DEF CalmInv, InvQueue, Alive
    <3>2. pc[p] = "user" <=> term_curr_pcb[terminal_number[p]] = p
      BY <1>b, <2>3, <3>1 DEF CalmInv, InvQueue
    <3>3. CASE p # run
      <4>1. pc'[p] = pc[p]
        BY <1>6, <2>3, <3>1, <3>3
      <4>2. CASE terminal_number[p] = t
        <5>1. term_curr_pcb[t] \in {run, NULL}
          BY <1>b, <1>4 DEF CalmInv, InvQueue, At
        <5> QED
          BY <1>8, <2>3, <3>1, <3>2, <3>3, <4>1, <4>2, <5>1
      <4>3. CASE terminal_number[p] # t
        BY <1>8, <3>1, <3>2, <4>1, <4>3
      <4> QED
        BY <4>2, <4>3
    <3>4. CASE p = run
      <4>1. pc[run] = "user" /\ pc'[p] = after
        BY <1>b, <1>6, <2>3, <3>1, <3>4
      <4> QED
        BY <1>8, <2>3, <3>1, <3>2, <3>4, <4>1 DEF At
    <3> QED
      BY <3>3, <3>4
  <2>4. term_curr_pcb'[terminal_number'[child]] = child
    BY <1>7, <1>8
  <2> QED
    BY <1>3, <1>5, <1>7, <1>9, <2>1, <2>2, <2>3, <2>4 DEF InvQueue
<1>13. InvFamily'
  <2>1. ASSUME NEW c \in pcb_used, parent[c] # NULL
        PROVE  /\ parent[c] \in pcb_used /\ parent[c] # run
               /\ parent'[c] = parent[c]
               /\ terminal_number'[parent[c]] = terminal_number'[c]
               /\ pc'[parent[c]] = "execute"
               /\ old_tssESP'[c] = parent[c]
    <3>1. /\ parent[c] \in pcb_used
          /\ terminal_number[parent[c]] = terminal_number[c]
          /\ pc[parent[c]] = "execute"
          /\ old_tssESP[c] = parent[c]
      BY <2>1 DEF CalmInv, InvFamily, Alive
    <3>2. parent[c] # run
      BY <1>b, <3>1
    <3> QED
      BY <1>6, <1>9, <3>1, <3>2
  <2>2. par # NULL =>
          /\ par = run /\ run \in pcb_used /\ run # child
          /\ terminal_number'[run] = t
          /\ pc'[run] = "execute"
          /\ old_tssESP'[child] = run
    <3> SUFFICES ASSUME par # NULL
                 PROVE  /\ par = run /\ run \in pcb_used /\ run # child
                        /\ terminal_number'[run] = t
                        /\ pc'[run] = "execute"
                        /\ old_tssESP'[child] = run
      OBVIOUS
    <3>1. /\ par = run /\ At("user") /\ terminal_number[run] = t
          /\ after = "execute"
      OBVIOUS
    <3>2. run \in pcb_used /\ esp0 = run
      BY <3>1 DEF CalmInv, InvQueue, InvMapped
    <3>3. old_tssESP'[child] = esp0
      BY <1>1, <1>3 DEF TypeInv, TypeOK
    <3> QED
      BY <1>6, <1>9, <3>1, <3>2, <3>3
  <2>3. \A c \in Alive' : parent'[c] # NULL =>
          /\ parent'[c] \in pcb_used'
          /\ terminal_number'[parent'[c]] = terminal_number'[c]
          /\ pc'[parent'[c]] = "execute"
          /\ old_tssESP'[c] = parent'[c]
    <3> SUFFICES ASSUME NEW c \in Alive', parent'[c] # NULL
                 PROVE  /\ parent'[c] \in pcb_used'
                        /\ terminal_number'[parent'[c]] = terminal_number'[c]
                        /\ pc'[parent'[c]] = "execute"
                        /\ old_tssESP'[c] = parent'[c]
      OBVIOUS
    <3>1. CASE c = child
      BY <1>3, <1>7, <2>2, <3>1
    <3>2. CASE c # child
      <4>1. c \in pcb_used /\ parent[c] # NULL
        BY <1>5, <1>6, <1>9, <3>2
      <4>2. /\ parent[c] \in pcb_used
            /\ parent'[c] = parent[c]
            /\ terminal_number'[parent[c]] = terminal_number'[c]
            /\ pc'[parent[c]] = "execute"
            /\ old_tssESP'[c] = parent[c]
        BY <2>1, <4>1
      <4> QED
        BY <1>3, <4>2
    <3> QED
      BY <3>1, <3>2
  <2>4. \A c, d \in Alive' : parent'[c] # NULL /\ parent'[c] = parent'[d] => c = d
    <3> SUFFICES ASSUME NEW c \in Alive', NEW d \in Alive',
                        parent'[c] # NULL, parent'[c] = parent'[d]
                 PROVE  c = d
      OBVIOUS
    <3>1. CASE c # child /\ d # child
      <4>1. /\ c \in pcb_used /\ d \in pcb_used
            /\ parent[c] = parent[d] /\ parent[c] # NULL
        BY <1>5, <1>6, <1>9, <3>1
      <4> QED
        BY <4>1 DEF CalmInv, InvFamily, Alive
    <3>2. CASE c = child /\ d # child
      BY <1>5, <1>6, <1>7, <1>9, <2>1, <2>2, <3>2
    <3>3. CASE c # child /\ d = child
      BY <1>5, <1>6, <1>7, <1>9, <2>1, <2>2, <3>3
    <3> QED
      BY <3>1, <3>2, <3>3
  <2>5. \A p \in pcb_used' : pc'[p] = "execute" =>
          \E c \in Alive' : parent'[c] = p
    <3> SUFFICES ASSUME NEW p \in pcb_used', pc'[p] = "execute"
                 PROVE  \E c \in Alive' : parent'[c] = p
      OBVIOUS
    <3>1. p \in pcb_used /\ p # child /\ p # NULL
      BY <1>3, <1>7, <1>9, SlotsAreReal
    <3>2. CASE p = run
      <4>1. after = "execute"
        BY <1>6, <1>9, <3>1, <3>2
      <4>a. pc[run] = "user" /\ terminal_number[run] = t
        BY <4>1 DEF At
      <4>b. term_curr_pcb[t] = run
        BY <1>b, <3>1, <3>2, <4>a DEF CalmInv, InvQueue
      <4>2. par = run
        BY <1>a, <4>b
      <4> QED
        BY <1>5, <1>7, <3>2, <4>2
    <3>3. CASE p # run
      <4>1. PICK c \in Alive : parent[c] = p
        BY <1>6, <1>9, <3>1, <3>3 DEF CalmInv, InvFamily
      <4>2. c \in pcb_used
        BY <1>b, <3>1, <4>1 DEF Alive
      <4> QED
        BY <1>5, <1>6, <1>9, <4>1, <4>2
    <3> QED
      BY <3>2, <3>3
  <2> QED
    BY <2>3, <2>4, <2>5 DEF InvFamily
<1>14. InvPages'
  <2>1. \A p \in pcb_used : /\ pt_idx'[p] = pt_idx[p]
                            /\ pt_idx[p] \in prog_used_page
                            /\ pt_idx[p] \in Slots
    BY <1>b, <1>6, <1>9 DEF CalmInv, InvPages, Alive
  <2>2. prog_used_page' = {pt_idx'[p] : p \in pcb_used'}
    BY <1>b, <1>3, <1>7, <1>9, <2>1
  <2>3. \A p, q \in Alive' : pt_idx'[p] = pt_idx'[q] => p = q
    BY <1>1, <1>5, <1>7, <2>1 DEF CalmInv, InvPages, Alive
  <2>4. \A p \in Alive' : pt_idx'[p] \in Slots
    BY <1>1, <1>5, <1>7, <2>1
  <2> QED
    BY <1>5, <2>2, <2>3, <2>4 DEF InvPages
<1>15. InvMapped' /\ InvHalt'
  BY <1>3, <1>5, <1>7 DEF InvMapped, InvHalt
<1> QED
  BY <1>10, <1>11, <1>12, <1>13, <1>14, <1>15 DEF CalmInv

\* halt's first critical section.
LEMMA DetachStep ==
  ASSUME TypeInv, CalmInv, At("user"),
         parent[run] # NULL \/ terminal_number[run] = active,
         NEW st, halt_detach(st)
  PROVE  CalmInv'
<1>1. /\ run \in Slots /\ run # Lost /\ run # NULL /\ run \in pcb_used
      /\ pc[run] = "user" /\ ~ InHalt /\ Alive = pcb_used
      /\ terminal_number[run] \in Terminals
      /\ term_curr_pcb[terminal_number[run]] = run
  <2>1. run \in Slots /\ pc[run] = "user" /\ run \in pcb_used
    BY DEF At, TypeInv, TypeOK, CalmInv, InvQueue
  <2>2. ~ InHalt /\ Alive = pcb_used
    BY <2>1 DEF InHalt, HaltWindow, Alive
  <2> QED
    BY <2>1, <2>2, SlotsAreReal DEF CalmInv, InvQueue
<1>2. /\ parent[run] # run
      /\ parent[run] # NULL => terminal_number[parent[run]] = terminal_number[run]
  BY <1>1 DEF CalmInv, InvFamily
<1>3. /\ \A u \in Terminals : term_curr_pcb'[u] = IF u = terminal_number[run]
                                                  THEN parent[run]
                                                  ELSE term_curr_pcb[u]
      /\ \A s \in Slots : pc'[s] = IF s = run THEN "free_page" ELSE pc[s]
      /\ UNCHANGED <<pcb_used, pageVars, video_page, active, esp0, pcbVars,
                     return_val, run>>
  BY <1>1 DEF halt_detach, TypeInv, TypeOK
<1>4. /\ pcb_used' = pcb_used /\ prog_used_page' = prog_used_page
      /\ video_page' = video_page /\ active' = active /\ parent' = parent
      /\ pt_idx' = pt_idx /\ terminal_number' = terminal_number
      /\ old_tssESP' = old_tssESP /\ run' = run
  BY <1>3 DEF pageVars, pcbVars
<1>5. InHalt' /\ pc'[run] = "free_page" /\ Alive' = pcb_used
  BY <1>1, <1>3, <1>4 DEF InHalt, HaltWindow, Alive
<1>6. pcb_used \subseteq Slots
  BY DEF TypeInv, TypeOK
<1>7. InvPoints'
  BY <1>1, <1>3, <1>4, <1>6 DEF CalmInv, InvPoints, HaltWindow
<1>8. InvBoot' /\ InvMapped'
  BY <1>1, <1>4, <1>5 DEF InvBoot, InvMapped, At, CalmInv
<1>9. InvQueue'
  <2>1. \A u \in Terminals : term_curr_pcb'[u] # NULL =>
          term_curr_pcb'[u] \in pcb_used
            /\ terminal_number[term_curr_pcb'[u]] = u
    BY <1>1, <1>2, <1>3 DEF CalmInv, InvQueue, InvFamily
  <2>2. ASSUME NEW p \in pcb_used
        PROVE  pc'[p] = "user" <=> /\ term_curr_pcb'[terminal_number[p]] = p
                                   /\ p # parent[run]
    <3>1. pc[p] = "user" <=> term_curr_pcb[terminal_number[p]] = p
      BY <1>1 DEF CalmInv, InvQueue
    <3>2. terminal_number[p] \in Terminals
      BY <1>1 DEF CalmInv, InvQueue
    <3>3. CASE p = run
      BY <1>1, <1>2, <1>3, <3>3
    <3>4. CASE p # run /\ terminal_number[p] = terminal_number[run]
      <4>1. pc'[p] = pc[p] /\ pc[p] # "user"
        BY <1>1, <1>3, <1>6, <3>1, <3>4
      <4>2. term_curr_pcb'[terminal_number[p]] = parent[run]
        BY <1>3, <3>2, <3>4
      <4> QED
        BY <4>1, <4>2
    <3>5. CASE p # run /\ terminal_number[p] # terminal_number[run]
      <4>1. pc'[p] = pc[p]
        BY <1>3, <1>6, <3>5
      <4>2. term_curr_pcb'[terminal_number[p]] = term_curr_pcb[terminal_number[p]]
        BY <1>3, <3>2, <3>5
      <4>3. p # parent[run]
        BY <1>2, <1>6, <3>5, SlotsAreReal
      <4> QED
        BY <3>1, <4>1, <4>2, <4>3
    <3> QED
      BY <3>3, <3>4, <3>5
  <2> QED
    BY <1>1, <1>4, <1>5, <2>1, <2>2 DEF InvQueue, At, CalmInv
<1>10. InvFamily'
  <2>1. \A p \in pcb_used : pc'[p] = "execute" <=> pc[p] = "execute"
    BY <1>1, <1>3, <1>6
  <2> QED
    BY <1>1, <1>4, <1>5, <2>1 DEF CalmInv, InvFamily
<1>11. InvPages'
  BY <1>1, <1>4, <1>5 DEF CalmInv, InvPages
<1>12. InvHalt'
  BY <1>1, <1>3, <1>4, <1>5 DEF InvHalt
<1> QED
  BY <1>7, <1>8, <1>9, <1>10, <1>11, <1>12 DEF CalmInv

\* What is true of the process inside halt at each of its later steps.
LEMMA InsideHalt ==
  ASSUME TypeInv, CalmInv, NEW point \in HaltWindow, At(point)
  PROVE  /\ run \in Slots /\ run # Lost /\ InHalt /\ pc[run] = point
         /\ Alive = pcb_used \cup {run} /\ pcb_used \subseteq Slots
         /\ parent[run] # run
         /\ \A u \in Terminals : term_curr_pcb[u] # run
         /\ \A c \in Alive : parent[c] # run
<1>1. /\ run \in Slots /\ run # Lost /\ InHalt /\ pc[run] = point
      /\ Alive = pcb_used \cup {run} /\ pcb_used \subseteq Slots
  BY DEF At, InHalt, Alive, TypeInv, TypeOK
<1>2. point # "execute"
  BY DEF HaltWindow
<1>3. \A c \in Alive : parent[c] # run
  BY <1>1, <1>2, SlotsAreReal DEF CalmInv, InvFamily
<1>4. \A u \in Terminals : term_curr_pcb[u] # run
  BY <1>1, <1>3, SlotsAreReal DEF CalmInv, InvHalt, InvQueue
<1> QED
  BY <1>1, <1>3, <1>4

\* A step of halt that only moves its own stack and the page tables.
LEMMA FreePageStep ==
  ASSUME TypeInv, CalmInv, halt_free_page
  PROVE  CalmInv'
<1>1. At("free_page") /\ "free_page" \in HaltWindow
  BY DEF halt_free_page, HaltWindow
<1>2. /\ run \in Slots /\ run # Lost /\ InHalt /\ pc[run] = "free_page"
      /\ Alive = pcb_used \cup {run} /\ pcb_used \subseteq Slots
  BY <1>1, InsideHalt
<1>3. run \in pcb_used /\ Alive = pcb_used /\ pt_idx[run] \in Slots
  BY <1>2 DEF CalmInv, InvHalt, InvPages
<1>4. /\ prog_used_page' = prog_used_page \ {pt_idx[run]}
      /\ pc' = [pc EXCEPT ![run] = IF parent[run] = NULL THEN "release"
                                                         ELSE "map_parent"]
      /\ UNCHANGED <<pcb_used, video_page, term_curr_pcb, active, esp0,
                     return_val, status, run>>
      /\ UNCHANGED <<parent, pt_idx, terminal_number, old_tssESP>>
  BY <1>3 DEF halt_free_page, free_prog_page, pcbVars
<1>5. /\ \A s \in Slots : s # run => pc'[s] = pc[s]
      /\ pc'[run] = IF parent[run] = NULL THEN "release" ELSE "map_parent"
  BY <1>2, <1>4 DEF TypeInv, TypeOK
<1>6. InHalt' /\ Alive' = pcb_used
  BY <1>2, <1>3, <1>4, <1>5 DEF InHalt, HaltWindow, Alive
<1>7. InvPoints'
  BY <1>2, <1>4, <1>5 DEF CalmInv, InvPoints, HaltWindow
<1>8. InvBoot'
  BY <1>2, <1>4, <1>5 DEF InvBoot, At, CalmInv
<1>9. \A p \in pcb_used : /\ pc'[p] = "user" <=> pc[p] = "user"
                          /\ pc'[p] = "execute" <=> pc[p] = "execute"
  BY <1>2, <1>5
<1>10. InvQueue' /\ InvFamily'
  BY <1>2, <1>3, <1>4, <1>5, <1>6, <1>9 DEF CalmInv, InvQueue, InvFamily, At
<1>11. InvPages'
  <2>1. prog_used_page = {pt_idx[p] : p \in pcb_used}
    BY <1>2 DEF CalmInv, InvPages
  <2>2. prog_used_page' = {pt_idx[p] : p \in pcb_used \ {run}}
    BY <1>3, <1>4, <2>1 DEF CalmInv, InvPages
  <2> QED
    BY <1>3, <1>4, <1>5, <1>6, <2>2 DEF CalmInv, InvPages
<1>12. InvMapped' /\ InvHalt'
  BY <1>2, <1>3, <1>4, <1>5, <1>6 DEF CalmInv, InvMapped, InvHalt, At
<1> QED
  BY <1>7, <1>8, <1>10, <1>11, <1>12 DEF CalmInv

\* halt maps the parent's page, which the parent has held all along.
LEMMA MapParentStep ==
  ASSUME TypeInv, CalmInv, halt_map_parent
  PROVE  CalmInv'
<1>1. At("map_parent") /\ "map_parent" \in HaltWindow
  BY DEF halt_map_parent, HaltWindow
<1>2. /\ run \in Slots /\ run # Lost /\ InHalt /\ pc[run] = "map_parent"
      /\ Alive = pcb_used \cup {run} /\ pcb_used \subseteq Slots
      /\ parent[run] # run
  BY <1>1, InsideHalt
<1>3. run \in pcb_used /\ Alive = pcb_used /\ parent[run] # NULL
  BY <1>2 DEF CalmInv, InvHalt
<1>4. parent[run] \in pcb_used \ {run}
  BY <1>2, <1>3 DEF CalmInv, InvFamily
<1>5. pt_idx[parent[run]] \in Slots /\ pt_idx[parent[run]] \in prog_used_page
  BY <1>2, <1>3, <1>4 DEF CalmInv, InvPages
<1>6. /\ prog_used_page' = prog_used_page /\ page_dir' = pt_idx[parent[run]]
      /\ pc' = [pc EXCEPT ![run] = "release"]
      /\ UNCHANGED <<pcb_used, video_page, term_curr_pcb, active, esp0,
                     return_val, status, run>>
      /\ UNCHANGED <<parent, pt_idx, terminal_number, old_tssESP>>
  BY <1>5 DEF halt_map_parent, set_prog_page, pcbVars
<1>7. /\ \A s \in Slots : s # run => pc'[s] = pc[s]
      /\ pc'[run] = "release"
  BY <1>2, <1>6 DEF TypeInv, TypeOK
<1>8. InHalt' /\ Alive' = pcb_used
  BY <1>2, <1>3, <1>6, <1>7 DEF InHalt, HaltWindow, Alive
<1>9. InvPoints'
  BY <1>2, <1>6, <1>7 DEF CalmInv, InvPoints, HaltWindow
<1>10. InvBoot'
  BY <1>2, <1>6, <1>7 DEF InvBoot, At, CalmInv
<1>11. \A p \in pcb_used : /\ pc'[p] = "user" <=> pc[p] = "user"
                           /\ pc'[p] = "execute" <=> pc[p] = "execute"
  BY <1>2, <1>7
<1>12. InvQueue' /\ InvFamily'
  BY <1>2, <1>3, <1>6, <1>7, <1>8, <1>11 DEF CalmInv, InvQueue, InvFamily, At
<1>13. InvPages'
  BY <1>2, <1>3, <1>6, <1>7, <1>8 DEF CalmInv, InvPages
<1>14. InvMapped' /\ InvHalt'
  BY <1>2, <1>3, <1>6, <1>7, <1>8 DEF CalmInv, InvMapped, InvHalt, At
<1> QED
  BY <1>9, <1>10, <1>12, <1>13, <1>14 DEF CalmInv

\* halt gives back its own PCB.
LEMMA ReleaseStep ==
  ASSUME TypeInv, CalmInv, halt_release
  PROVE  CalmInv'
<1>1. At("release") /\ "release" \in HaltWindow
  BY DEF halt_release, HaltWindow
<1>2. /\ run \in Slots /\ run # Lost /\ InHalt /\ pc[run] = "release"
      /\ Alive = pcb_used \cup {run} /\ pcb_used \subseteq Slots
      /\ parent[run] # run
      /\ \A u \in Terminals : term_curr_pcb[u] # run
      /\ \A c \in Alive : parent[c] # run
  BY <1>1, InsideHalt
<1>3. run \in pcb_used /\ Alive = pcb_used
  BY <1>2 DEF CalmInv, InvHalt
<1>4. /\ esp0' = old_tssESP[run] /\ pcb_used' = pcb_used \ {run}
      /\ pc' = [pc EXCEPT ![run] = IF parent[run] = NULL THEN "exec_shell"
                                                         ELSE "set_return"]
      /\ UNCHANGED <<prog_used_page, page_dir, video_page, term_curr_pcb, active,
                     return_val, status, run>>
      /\ UNCHANGED <<parent, pt_idx, terminal_number, old_tssESP>>
  BY DEF halt_release, pcbVars, pageVars
<1>5. /\ \A s \in Slots : s # run => pc'[s] = pc[s]
      /\ pc'[run] = IF parent[run] = NULL THEN "exec_shell" ELSE "set_return"
  BY <1>2, <1>4 DEF TypeInv, TypeOK
<1>6. InHalt' /\ Alive' = Alive
  BY <1>2, <1>3, <1>4, <1>5 DEF InHalt, HaltWindow, Alive
<1>7. InvPoints'
  BY <1>2, <1>4, <1>5 DEF CalmInv, InvPoints, HaltWindow
<1>8. InvBoot'
  BY <1>2, <1>4, <1>5 DEF InvBoot, At, CalmInv
<1>9. \A p \in pcb_used' : pc'[p] = pc[p] /\ p \in pcb_used /\ p # run
  BY <1>2, <1>4, <1>5
<1>10. InvQueue'
  BY <1>2, <1>3, <1>4, <1>5, <1>6, <1>9 DEF CalmInv, InvQueue, At
<1>11. InvFamily'
  <2>1. \A c \in Alive : parent[c] # NULL =>
          /\ parent[c] \in pcb_used'
          /\ terminal_number[parent[c]] = terminal_number[c]
          /\ pc'[parent[c]] = "execute"
          /\ old_tssESP[c] = parent[c]
    BY <1>2, <1>4, <1>5 DEF CalmInv, InvFamily
  <2> QED
    BY <1>4, <1>6, <1>9, <2>1 DEF CalmInv, InvFamily
<1>12. InvPages'
  BY <1>2, <1>3, <1>4, <1>5, <1>6 DEF CalmInv, InvPages
<1>13. InvMapped'
  BY <1>2, <1>3, <1>4, <1>5, <1>6 DEF CalmInv, InvMapped, InvFamily, At
<1>14. InvHalt'
  BY <1>2, <1>3, <1>4, <1>5, <1>6 DEF CalmInv, InvHalt
<1> QED
  BY <1>7, <1>8, <1>10, <1>11, <1>12, <1>13, <1>14 DEF CalmInv

\* halt stores the status in the parent's PCB.
LEMMA SetReturnStep ==
  ASSUME TypeInv, CalmInv, halt_set_return
  PROVE  CalmInv'
<1>1. At("set_return") /\ "set_return" \in HaltWindow
  BY DEF halt_set_return, HaltWindow
<1>2. /\ run \in Slots /\ run # Lost /\ InHalt /\ pc[run] = "set_return"
      /\ Alive = pcb_used \cup {run} /\ pcb_used \subseteq Slots
      /\ parent[run] # run
  BY <1>1, InsideHalt
<1>3. run \notin pcb_used /\ parent[run] \in Slots
  BY <1>2 DEF CalmInv, InvHalt, TypeInv, HaltFrames
<1>4. /\ return_val' = [return_val EXCEPT ![parent[run]] = status[run] % 256]
      /\ pc' = [pc EXCEPT ![run] = "jump"]
      /\ UNCHANGED <<pcb_used, prog_used_page, page_dir, video_page,
                     term_curr_pcb, active, esp0, status, run>>
      /\ UNCHANGED <<parent, pt_idx, terminal_number, old_tssESP>>
  BY DEF halt_set_return, pcbVars, pageVars
<1>5. /\ \A s \in Slots : s # run => pc'[s] = pc[s]
      /\ pc'[run] = "jump"
      /\ return_val'[parent[run]] = status[run] % 256
  BY <1>2, <1>3, <1>4 DEF TypeInv, TypeOK
<1>6. InHalt' /\ Alive' = Alive
  BY <1>2, <1>4, <1>5 DEF InHalt, HaltWindow, Alive
<1>7. InvPoints'
  BY <1>2, <1>4, <1>5 DEF CalmInv, InvPoints, HaltWindow
<1>8. InvBoot'
  BY <1>2, <1>4, <1>5 DEF InvBoot, At, CalmInv
<1>9. \A p \in pcb_used : pc'[p] = pc[p]
  BY <1>2, <1>3, <1>5
<1>10. InvQueue' /\ InvFamily'
  BY <1>2, <1>4, <1>5, <1>6, <1>9 DEF CalmInv, InvQueue, InvFamily, At
<1>11. InvPages'
  BY <1>2, <1>4, <1>5, <1>6 DEF CalmInv, InvPages
<1>12. InvMapped'
  BY <1>2, <1>4, <1>5, <1>6 DEF CalmInv, InvMapped, At
<1>13. InvHalt'
  BY <1>2, <1>3, <1>4, <1>5, <1>6, SlotsAreReal DEF CalmInv, InvHalt
<1> QED
  BY <1>7, <1>8, <1>10, <1>11, <1>12, <1>13 DEF CalmInv

\* halt jumps to ret_here: the parent, inside execute, goes on.
LEMMA JumpStep ==
  ASSUME TypeInv, CalmInv, halt_jump
  PROVE  /\ CalmInv'
         /\ run' = parent[run] /\ pc[parent[run]] = "execute"
         /\ pc' = [pc EXCEPT ![run] = "gone", ![parent[run]] = "user"]
<1>1. At("jump") /\ "jump" \in HaltWindow
  BY DEF halt_jump, HaltWindow
<1>2. /\ run \in Slots /\ run # Lost /\ InHalt /\ pc[run] = "jump"
      /\ Alive = pcb_used \cup {run} /\ pcb_used \subseteq Slots
      /\ parent[run] # run
  BY <1>1, InsideHalt
<1> DEFINE p == parent[run]
<1>3. run \notin pcb_used /\ p \in Slots /\ p # NULL
  BY <1>2, SlotsAreReal DEF CalmInv, InvHalt, TypeInv, HaltFrames
<1>4. /\ p \in pcb_used /\ pc[p] = "execute"
      /\ terminal_number[p] = terminal_number[run]
      /\ term_curr_pcb[terminal_number[p]] = p
      /\ terminal_number[p] \in Terminals
      /\ page_dir = pt_idx[p] /\ esp0 = p
  BY <1>2, <1>3 DEF CalmInv, InvFamily, InvHalt, InvMapped, InvQueue
<1> HIDE DEF p
<1>5. /\ run' = p
      /\ pc' = [pc EXCEPT ![run] = "gone", ![p] = "user"]
      /\ UNCHANGED <<pcb_used, prog_used_page, page_dir, video_page,
                     term_curr_pcb, active, esp0, return_val>>
      /\ UNCHANGED <<parent, pt_idx, terminal_number, old_tssESP>>
  BY <1>4 DEF halt_jump, pcbVars, pageVars, Waiting, p
<1>6. /\ \A s \in Slots : s # run /\ s # p => pc'[s] = pc[s]
      /\ pc'[run] = "gone" /\ pc'[p] = "user" /\ p # run /\ p # Lost
  BY <1>2, <1>3, <1>5, SlotsAreReal DEF TypeInv, TypeOK, p
<1>7. ~ InHalt' /\ Alive' = pcb_used
  BY <1>5, <1>6 DEF InHalt, HaltWindow, Alive
<1>8. InvPoints'
  BY <1>2, <1>3, <1>5, <1>6 DEF CalmInv, InvPoints, HaltWindow, Waiting
<1>9. InvBoot' /\ InvMapped' /\ InvHalt'
  BY <1>2, <1>4, <1>5, <1>6, <1>7
     DEF CalmInv, InvBoot, InvMapped, InvHalt, At
<1>10. InvQueue'
  <2>1. ASSUME NEW q \in pcb_used
        PROVE  pc'[q] = "user" <=> term_curr_pcb[terminal_number[q]] = q
    BY <1>2, <1>3, <1>4, <1>6 DEF CalmInv, InvQueue, p
  <2> QED
    BY <1>2, <1>4, <1>5, <1>7, <2>1 DEF CalmInv, InvQueue
<1>11. InvFamily'
  <2>1. \A c \in pcb_used : parent[c] # p
    BY <1>2, <1>3 DEF CalmInv, InvFamily, p
  <2>2. \A c \in pcb_used : parent[c] # NULL =>
          /\ parent[c] \in pcb_used
          /\ terminal_number[parent[c]] = terminal_number[c]
          /\ pc'[parent[c]] = "execute"
          /\ old_tssESP[c] = parent[c]
    BY <1>2, <1>3, <1>6, <2>1 DEF CalmInv, InvFamily
  <2>3. ASSUME NEW q \in pcb_used, pc'[q] = "execute"
        PROVE  \E c \in pcb_used : parent[c] = q
    <3>1. q # p /\ q # run /\ pc[q] = "execute"
      BY <1>2, <1>3, <1>6, <2>3
    <3>2. PICK c \in Alive : parent[c] = q
      BY <3>1 DEF CalmInv, InvFamily
    <3> QED
      BY <1>2, <3>1, <3>2 DEF p
  <2> QED
    BY <1>2, <1>5, <1>7, <2>2, <2>3 DEF CalmInv, InvFamily
<1>12. InvPages'
  <2>1. Alive \ {run} = pcb_used
    BY <1>2, <1>3
  <2> QED
    BY <1>2, <1>5, <1>7, <2>1 DEF CalmInv, InvPages
<1> QED
  BY <1>4, <1>5, <1>8, <1>9, <1>10, <1>11, <1>12 DEF CalmInv, p

\* Pages and PCBs run out together, so execute never finds a page without a PCB
\* or a PCB without a page.
LEMMA PagesAndPcbs ==
  ASSUME TypeInv, CalmInv, ~ InHalt
  PROVE  prog_used_page = Slots <=> pcb_used = Slots
<1>1. /\ pcb_used \subseteq Slots /\ prog_used_page \subseteq Slots
      /\ prog_used_page = {pt_idx[p] : p \in pcb_used}
      /\ \A p, q \in pcb_used : pt_idx[p] = pt_idx[q] => p = q
  BY DEF TypeInv, TypeOK, CalmInv, InvPages, Alive
<1> DEFINE f == [p \in pcb_used |-> pt_idx[p]]
<1>2. f \in Bijection(pcb_used, prog_used_page)
  BY <1>1 DEF Bijection, Injection, Surjection, IsInjective
<1>3. ExistsBijection(pcb_used, prog_used_page)
  BY <1>2 DEF ExistsBijection
<1>4. IsFiniteSet(Slots)
  BY FS_Interval, MaxNumProgAssumption DEF Slots
<1>5. IsFiniteSet(pcb_used) /\ IsFiniteSet(prog_used_page)
  BY <1>1, <1>4, FS_Subset
<1>6. Cardinality(pcb_used) = Cardinality(prog_used_page)
  BY <1>3, <1>5, FS_Bijection
<1> QED
  BY <1>1, <1>4, <1>6, FS_Subset

\* Every step keeps the inductive invariant, one case per action.
LEMMA CalmInvStep == TypeInv /\ CalmInv /\ [CalmNext]_vars => CalmInv'
<1> SUFFICES ASSUME TypeInv, CalmInv, [CalmNext]_vars
             PROVE  CalmInv'
  OBVIOUS
<1>1. ASSUME UNCHANGED vars
      PROVE  CalmInv'
  BY <1>1 DEF vars, pageVars, pcbVars, CalmInv, InvPoints, InvBoot, InvQueue,
              InvFamily, InvPages, InvMapped, InvHalt, At, InHalt,
              Alive
<1>2. active \in Terminals /\ run # Lost
  BY DEF TypeInv, TypeOK, CalmInv, InvPoints
<1>3. CASE HaltUninterrupted /\ do_handle_pit
  BY <1>3, PitStep
<1>4. ASSUME HaltUninterrupted, NEW new \in Terminals, change_video_mem(new)
      PROVE  CalmInv'
  <2>1. ~ InHalt /\ pc[run] \in {"boot", "user"}
    BY <1>2, <1>4 DEF HaltUninterrupted, InHalt, CalmInv, InvPoints
  <2>2. active' = new /\ video_page' = "backup" /\ return_val' = return_val
    BY <1>4 DEF change_video_mem, set_video_page
  <2>3. CASE term_curr_pcb[new] = NULL /\ Launch(new, pc[run])
    <3>1. At("boot") \/ At("user")
      BY <1>2, <2>1 DEF At
    <3> QED
      BY <2>2, <2>3, <3>1, LaunchStep DEF At
  <2>4. CASE UNCHANGED <<pcb_used, pageVars, term_curr_pcb, esp0, pcbVars, run,
                         pc, status, intr>>
    BY <2>1, <2>2, <2>4
       DEF pageVars, pcbVars, CalmInv, InvPoints, InvBoot, InvQueue, InvFamily,
           InvPages, InvMapped, InvHalt, At, InHalt, Alive
  <2>5. CASE term_curr_pcb[new] = NULL /\ LaunchFails
    <3>1. pcb_used # Slots
      BY <1>4, <2>5 DEF change_video_mem
    <3> QED
      BY <2>1, <2>5, <3>1, PagesAndPcbs DEF LaunchFails
  <2> QED
    BY <1>4, <2>3, <2>4, <2>5 DEF change_video_mem
<1>5. CASE ForegroundExecute
  <2>1. /\ At("user") /\ ~ InHalt /\ terminal_number[run] = active
        /\ active' = active /\ return_val' = return_val
    BY <1>2, <1>5
       DEF ForegroundExecute, execute, Foreground, UserMode, At, InHalt, HaltWindow
  <2>2. CASE Launch(active, "execute")
    BY <1>2, <2>1, <2>2, LaunchStep
  <2>3. CASE LaunchFails /\ UNCHANGED <<run, pc, status, intr>>
    <3>1. UNCHANGED vars
      BY <1>5, <2>1, <2>3, PagesAndPcbs
         DEF ForegroundExecute, LaunchFails, execute, vars
    <3> QED
      BY <3>1, <1>1
  <2> QED
    BY <1>5, <2>2, <2>3 DEF ForegroundExecute, execute
<1>6. CASE vidmap
  BY <1>2, <1>6
     DEF vidmap, pageVars, pcbVars, CalmInv, InvPoints, InvBoot,
         InvQueue, InvFamily, InvPages, InvMapped, InvHalt, At, InHalt,
         Alive
<1>7. CASE ForegroundHalt
  <2>1. At("user") /\ (parent[run] # NULL \/ terminal_number[run] = active)
    BY <1>2, <1>7
       DEF ForegroundHalt, HaltEntry, exception, halt, UserMode, Foreground
  <2>2. \E st \in Statuses \cup {ExceptionStatus} : halt_detach(st)
    BY <1>7 DEF ForegroundHalt, HaltEntry, exception, halt
  <2> QED
    BY <2>1, <2>2, DetachStep
<1>8. CASE halt_exec_shell
  <2>1. /\ At("exec_shell") /\ InHalt /\ "exec_shell" \in HaltWindow
        /\ active' = active /\ return_val' = return_val
    BY <1>8 DEF halt_exec_shell, At, InHalt, HaltWindow
  <2>2. /\ run \in Slots /\ pc[run] = "exec_shell" /\ run \notin pcb_used
        /\ parent[run] = NULL
        /\ terminal_number[run] = active /\ term_curr_pcb[active] = NULL
    BY <2>1, InsideHalt DEF CalmInv, InvHalt
  <2>3. CASE Launch(active, "respawned")
    BY <1>2, <2>1, <2>2, <2>3, LaunchStep
  <2>4. CASE LaunchFails
    <3>1. pcb_used # Slots
      BY <2>2
    <3>2. /\ prog_used_page = {pt_idx[p] : p \in Alive \ {run}}
          /\ run \in Alive /\ pt_idx[run] \in Slots
          /\ pt_idx[run] \notin prog_used_page
      BY <2>1, <2>2 DEF CalmInv, InvPages, Alive
    <3> QED
      BY <2>4, <3>1, <3>2 DEF LaunchFails
  <2> QED
    BY <1>8, <2>3, <2>4 DEF halt_exec_shell, halt_returns
<1>9. CASE boot_shell
  <2>1. /\ At("boot") /\ term_curr_pcb[active] = NULL
        /\ active' = active /\ return_val' = return_val
        /\ Launch(active, "gone")
    BY <1>2, <1>9 DEF boot_shell, CalmInv, InvBoot
  <2> QED
    BY <1>2, <2>1, LaunchStep
<1> QED
  BY <1>1, <1>3, <1>4, <1>5, <1>6, <1>7, <1>8, <1>9, FreePageStep,
     MapParentStep, ReleaseStep, SetReturnStep, JumpStep
     DEF CalmNext, Interrupt, HaltStep
-----------------------------------------------------------------------------
(* The theorems.                                                           *)

\* The inductive invariant holds throughout, for every choice of the constants.
THEOREM CalmInvariant == CalmSpec => [](TypeInv /\ CalmInv)
<1>1. Init => TypeInv /\ CalmInv
  BY TypeInvInit, CalmInvInit
<1>2. TypeInv /\ CalmInv /\ [CalmNext]_vars => (TypeInv /\ CalmInv)'
  BY TypeInvStep, CalmNextIsNext, CalmInvStep
<1> QED
  BY <1>1, <1>2, PTL DEF CalmSpec

\* User code always runs on its own page, and enters the kernel on its own
\* stack, after any sequence of execute, halt, ticks and terminal switches.
THEOREM AddressSpaceHolds == CalmSpec => []AddressSpace
<1>1. CalmInv => AddressSpace
  BY DEF CalmInv, InvMapped, AddressSpace
<1> QED
  BY <1>1, CalmInvariant, PTL

\* The run queue holds, for each terminal, a live process of that terminal that
\* can be resumed, and the program in user mode is in it.
THEOREM RunQueueHolds == CalmSpec => []RunQueue
<1>1. TypeInv /\ CalmInv => RunQueue
  <2> SUFFICES ASSUME TypeInv, CalmInv
               PROVE  RunQueue
    OBVIOUS
  <2>1. run # Lost /\ run \in Slots
    BY DEF CalmInv, InvPoints, TypeInv, TypeOK
  <2>2. ASSUME NEW t \in Terminals, term_curr_pcb[t] # NULL
        PROVE  LET p == term_curr_pcb[t] IN
               /\ p \in pcb_used
               /\ terminal_number[p] = t
               /\ \/ pc[p] \in HaltWindow \cup {"user"}
                  \/ InHalt /\ p = parent[run]
    BY <2>2 DEF CalmInv, InvQueue
  <2>3. At("user") => term_curr_pcb[terminal_number[run]] = run
    BY DEF CalmInv, InvQueue, At
  <2> QED
    BY <2>1, <2>2, <2>3 DEF RunQueue
<1> QED
  BY <1>1, CalmInvariant, PTL

\* No PCB and no page is ever lost: whatever is taken is in use.
THEOREM NoLeakHolds == CalmSpec => []NoLeak
<1>1. TypeInv /\ CalmInv => NoLeak
  <2> SUFFICES ASSUME TypeInv, CalmInv
               PROVE  NoLeak
    OBVIOUS
  <2>1. ASSUME NEW p \in pcb_used, p # run
        PROVE  \/ \E t \in Terminals : term_curr_pcb[t] = p
               \/ pc[p] = "execute" /\ \E c \in pcb_used : parent[c] = p
    <3>1. pc[p] \in {"user", "execute"} /\ terminal_number[p] \in Terminals
      BY <2>1 DEF CalmInv, InvPoints, InvQueue, Alive
    <3>2. CASE pc[p] = "user"
      BY <3>1, <3>2 DEF CalmInv, InvQueue
    <3>3. CASE pc[p] = "execute"
      <4>1. PICK c \in Alive : parent[c] = p
        BY <3>3 DEF CalmInv, InvFamily
      <4>2. CASE c \in pcb_used
        BY <3>3, <4>1, <4>2
      <4>3. CASE c \notin pcb_used
        <5>1. InHalt /\ c = run
          BY <4>3 DEF Alive
        <5>2. /\ terminal_number[p] = terminal_number[run]
              /\ term_curr_pcb[terminal_number[run]] = p
          <6>1. p # NULL
            BY SlotsAreReal DEF TypeInv, TypeOK
          <6> QED
            BY <4>1, <5>1, <6>1 DEF CalmInv, InvHalt, InvFamily, Alive
        <5> QED
          BY <3>1, <5>2
      <4> QED
        BY <4>2, <4>3
    <3> QED
      BY <3>1, <3>2, <3>3
  <2>2. \A p, q \in pcb_used : pt_idx[p] = pt_idx[q] => p = q
    BY DEF CalmInv, InvPages, Alive
  <2>3. At("user") => prog_used_page = {pt_idx[p] : p \in pcb_used}
    BY DEF At, CalmInv, InvPages, InHalt, HaltWindow
  <2> QED
    BY <2>1, <2>2, <2>3 DEF NoLeak
<1> QED
  BY <1>1, CalmInvariant, PTL

\* A program in the background has the screen mapped by its own call of vidmap
\* only, and until the next interrupt only: execute and the timer give the CPU
\* to a process with its terminal's video page, halt to one of the same terminal.
THEOREM BackgroundOffScreenHolds == CalmSpec => BackgroundOffScreen
<1>1. TypeInv /\ CalmInv /\ [CalmNext]_vars => [BackgroundOffScreenStep]_vars
  <2> SUFFICES ASSUME TypeInv, CalmInv, CalmNext
               PROVE  BackgroundOffScreenStep
    OBVIOUS
  <2>1. active \in Terminals /\ run \in Slots /\ pcb_used \subseteq Slots
        /\ terminal_number \in [Slots -> Terminals \cup {NULL}]
    BY DEF TypeInv, TypeOK, CalmInv, InvPoints
  <2>2. ASSUME Interrupt
        PROVE  ~ ScreenInBackground'
    <3>1. CASE do_handle_pit
      <4> DEFINE qindex == NextTerminal(CurrentIndex)
                 next   == term_curr_pcb[qindex]
      <4>1. qindex \in Terminals /\ next # NULL
        BY <3>1, CurrentIndexRange, NextTerminalHasProcess DEF do_handle_pit
      <4>2. terminal_number[next] = qindex
        BY <4>1 DEF CalmInv, InvQueue
      <4>3. /\ video_page' = set_video_page(qindex = active) /\ active' = active
            /\ terminal_number' = terminal_number /\ run' \in {Lost, next}
        BY <3>1 DEF do_handle_pit, pcbVars
      <4> HIDE DEF qindex, next
      <4> QED
        BY <4>2, <4>3 DEF ScreenInBackground, set_video_page
    <3>2. ASSUME NEW new \in Terminals, change_video_mem(new)
          PROVE  ~ ScreenInBackground'
      BY <3>2 DEF change_video_mem, set_video_page, ScreenInBackground
    <3> QED
      BY <2>2, <3>1, <3>2 DEF Interrupt
  <2>3. ASSUME NEW after, Launch(active, after), active' = active
        PROVE  ~ ScreenInBackground'
    <3>1. FirstFree(pcb_used) \in Slots
      BY <2>1, <2>3, FirstFreeIsFree DEF Launch
    <3>2. run' \in Slots /\ terminal_number'[run'] = active'
      BY <2>1, <2>3, <3>1 DEF Launch
    <3> QED
      BY <3>2 DEF ScreenInBackground
  <2>4. ASSUME UNCHANGED <<run, terminal_number, active, video_page>>
        PROVE  ScreenInBackground' = ScreenInBackground
    BY <2>4 DEF ScreenInBackground
  <2>5. ~ LaunchFails \/ ~ halt_exec_shell
    <3> SUFFICES ASSUME halt_exec_shell
                 PROVE  ~ LaunchFails
      OBVIOUS
    <3>1. run # Lost /\ pc[run] = "exec_shell" /\ InHalt
      BY DEF halt_exec_shell, At, InHalt, HaltWindow
    <3>2. /\ prog_used_page = {pt_idx[p] : p \in Alive \ {run}}
          /\ run \in Alive /\ pt_idx[run] \in Slots
          /\ pt_idx[run] \notin prog_used_page
      BY <3>1 DEF CalmInv, InvPages, Alive
    <3>3. run \notin pcb_used
      BY <3>1 DEF CalmInv, InvHalt
    <3> QED
      BY <2>1, <3>2, <3>3 DEF LaunchFails
  <2>6. ASSUME ~ ScreenInBackground, ScreenInBackground'
        PROVE  vidmap
    <3>1. CASE HaltUninterrupted /\ Interrupt
      BY <2>2, <2>6, <3>1
    <3>2. CASE ForegroundExecute
      BY <2>3, <2>4, <2>6, <3>2 DEF ForegroundExecute, execute, LaunchFails, pcbVars
    <3>3. CASE boot_shell
      BY <2>3, <2>6, <3>3 DEF boot_shell
    <3>4. CASE halt_exec_shell
      BY <2>3, <2>5, <2>6, <3>4 DEF halt_exec_shell, halt_returns
    <3>5. CASE ForegroundHalt
      BY <2>4, <2>6, <3>5 DEF ForegroundHalt, HaltEntry, exception, halt,
                              halt_detach, pcbVars
    <3>6. CASE halt_free_page \/ halt_map_parent \/ halt_release \/ halt_set_return
      BY <2>4, <2>6, <3>6 DEF halt_free_page, halt_map_parent, halt_release,
                              halt_set_return, pcbVars
    <3>7. CASE halt_jump
      <4>1. run # Lost /\ pc[run] = "jump" /\ InHalt
        BY <3>7 DEF halt_jump, At, InHalt, HaltWindow
      <4>2. parent[run] \in Slots
        BY <2>1, <4>1 DEF TypeInv, HaltFrames
      <4>3. terminal_number[parent[run]] = terminal_number[run]
        BY <4>1, <4>2, SlotsAreReal DEF CalmInv, InvFamily, Alive
      <4>4. /\ run' = parent[run]
            /\ UNCHANGED <<terminal_number, active, video_page>>
        BY <3>7, JumpStep DEF halt_jump, pcbVars
      <4> QED
        BY <2>6, <4>1, <4>3, <4>4 DEF ScreenInBackground
    <3> QED
      BY <3>1, <3>2, <3>3, <3>4, <3>5, <3>6, <3>7 DEF CalmNext, HaltStep
  <2> QED
    BY <2>2, <2>6 DEF BackgroundOffScreenStep
<1> QED
  BY <1>1, CalmInvariant, PTL DEF CalmSpec, BackgroundOffScreen

\* execute returns only when the child it started halts, with its status.
THEOREM ExecuteReturnsHolds == CalmSpec => ExecuteReturns
<1>1. TypeInv /\ CalmInv /\ [CalmNext]_vars => [ExecuteReturnStep]_vars
  <2> SUFFICES ASSUME TypeInv, CalmInv, CalmNext,
                      NEW p \in Slots, pc[p] = "execute", pc'[p] # "execute"
               PROVE  /\ At("jump")
                      /\ parent[run] = p
                      /\ return_val[p] = status[run] % 256
                      /\ run' = p
    BY DEF ExecuteReturnStep
  <2>1. run \in Slots /\ run # Lost /\ pc \in [Slots -> Points] /\ p # run
        /\ pcb_used \subseteq Slots
    BY DEF TypeInv, TypeOK, CalmInv, InvPoints, HaltWindow
  <2>2. p \in pcb_used
    BY <2>1 DEF CalmInv, InvPoints
  <2>3. ASSUME NEW t, NEW after, Launch(t, after)
        PROVE  FALSE
    <3>1. FirstFree(pcb_used) \in Slots \ pcb_used
      BY <2>1, <2>3, FirstFreeIsFree DEF Launch
    <3>2. pc'[p] = pc[p]
      BY <2>1, <2>2, <2>3, <3>1 DEF Launch
    <3> QED
      BY <3>2
  <2>4. ASSUME pc' = pc \/ \E x : pc' = [pc EXCEPT ![run] = x]
        PROVE  FALSE
    BY <2>1, <2>4
  <2>5. CASE halt_jump
    <3>1. /\ run' = parent[run] /\ parent[run] = p
      BY <2>1, <2>5, JumpStep
    <3>2. return_val[p] = status[run] % 256
      BY <2>5, <3>1 DEF halt_jump, At, InHalt, HaltWindow, CalmInv, InvHalt
    <3> QED
      BY <2>5, <3>1, <3>2 DEF halt_jump
  <2>6. CASE HaltUninterrupted /\ Interrupt
    BY <2>3, <2>4, <2>6, PitStep DEF Interrupt, change_video_mem
  <2>7. CASE execute \/ vidmap \/ HaltEntry \/ boot_shell
    BY <2>3, <2>4, <2>7 DEF execute, vidmap, HaltEntry, exception, halt,
                            halt_detach, boot_shell
  <2>8. CASE HaltStep /\ ~ halt_jump
    BY <2>3, <2>4, <2>8
       DEF HaltStep, halt_free_page, halt_map_parent, halt_release,
           halt_set_return, halt_exec_shell, halt_returns
  <2> QED
    BY <2>5, <2>6, <2>7, <2>8
       DEF CalmNext, ForegroundExecute, ForegroundHalt, HaltStep
<1> QED
  BY <1>1, CalmInvariant, PTL DEF CalmSpec, ExecuteReturns

\* No process ever waits, through a chain of execute calls, for itself: slots
\* are reused, but a new process is nobody's parent and has a live parent.
THEOREM NoWaitCycleHolds == CalmSpec => []NoWaitCycle
<1>1. Init => NoWaitCycle
  BY DEF Init, NoWaitCycle
<1>2. ASSUME TypeInv, CalmInv, NoWaitCycle, [CalmNext]_vars
      PROVE  NoWaitCycle'
  <2>1. ASSUME pcb_used' \subseteq pcb_used, parent' = parent
        PROVE  NoWaitCycle'
    BY <1>2, <2>1 DEF NoWaitCycle
  <2>2. ASSUME NEW t, NEW after, Launch(t, after),
               term_curr_pcb[t] # NULL => run \in pcb_used
        PROVE  NoWaitCycle'
    <3> DEFINE child == FirstFree(pcb_used)
    <3>1. child \in Slots \ pcb_used
      BY <1>2, <2>2, FirstFreeIsFree DEF Launch, TypeInv, TypeOK
    <3>2. pcb_used \subseteq Slots /\ parent \in [Slots -> Slots \cup {NULL}]
      BY <1>2 DEF TypeInv, TypeOK
    <3>3. /\ pcb_used' = pcb_used \cup {child}
          /\ \A p \in pcb_used : parent'[p] = parent[p]
          /\ parent'[child] \in pcb_used \cup {NULL}
      BY <2>2, <3>1, <3>2 DEF Launch
    <3>4. \A p \in pcb_used : parent[p] # child
      BY <1>2, <3>1, SlotsAreReal DEF CalmInv, InvFamily, Alive
    <3> HIDE DEF child
    <3>5. ASSUME NEW S \in SUBSET pcb_used', S # {}
          PROVE  \E p \in S : parent'[p] \notin S
      <4>1. CASE child \notin S
        <5>1. S \in SUBSET pcb_used
          BY <3>3, <3>5, <4>1
        <5>2. PICK p \in S : parent[p] \notin S
          BY <1>2, <3>5, <5>1 DEF NoWaitCycle
        <5> QED
          BY <3>3, <5>1, <5>2
      <4>2. CASE S = {child}
        BY <3>1, <3>3, <4>2, SlotsAreReal
      <4>3. CASE child \in S /\ S # {child}
        <5>1. S \ {child} \in SUBSET pcb_used /\ S \ {child} # {}
          BY <3>3, <3>5, <4>3
        <5>2. PICK p \in S \ {child} : parent[p] \notin S \ {child}
          BY <1>2, <5>1 DEF NoWaitCycle
        <5> QED
          BY <3>3, <3>4, <5>1, <5>2
      <4> QED
        BY <4>1, <4>2, <4>3
    <3> QED
      BY <3>5 DEF NoWaitCycle
  <2>3. At("user") => run \in pcb_used
    BY <1>2 DEF CalmInv, InvQueue
  <2>4. At("boot") \/ At("exec_shell") => term_curr_pcb[active] = NULL
    BY <1>2 DEF CalmInv, InvBoot, InvHalt, At, InHalt, HaltWindow, TypeInv, TypeOK
  <2>5. CASE execute
    BY <2>1, <2>2, <2>3, <2>5 DEF execute, UserMode, LaunchFails, pcbVars
  <2>6. CASE boot_shell \/ halt_exec_shell
    BY <2>1, <2>2, <2>4, <2>6 DEF boot_shell, halt_exec_shell, halt_returns,
                                  LaunchFails, pcbVars
  <2>7. ASSUME NEW new \in Terminals, change_video_mem(new)
        PROVE  NoWaitCycle'
    BY <2>1, <2>2, <2>7 DEF change_video_mem, LaunchFails, pcbVars
  <2>8. CASE do_handle_pit \/ vidmap \/ HaltEntry
    BY <2>1, <2>8 DEF do_handle_pit, vidmap, HaltEntry, exception, halt,
                      halt_detach, pcbVars
  <2>9. CASE HaltStep /\ ~ halt_exec_shell
    BY <2>1, <2>9 DEF HaltStep, halt_free_page, halt_map_parent, halt_release,
                      halt_set_return, halt_jump, pcbVars
  <2>10. CASE UNCHANGED vars
    BY <2>1, <2>10 DEF vars, pcbVars
  <2> QED
    BY <1>2, <2>5, <2>6, <2>7, <2>8, <2>9, <2>10
       DEF CalmNext, ForegroundExecute, ForegroundHalt, Interrupt, HaltStep
<1> QED
  BY <1>1, <1>2, CalmInvariant, PTL DEF CalmSpec

-----------------------------------------------------------------------------
(* The refinement of Sessions *)

\* The mapping outside halt, inside it, and after the status is stored.
LEMMA BarOutside ==
  ASSUME run \in Slots, ~ InHalt
  PROVE  /\ liveBar = pcb_used
         /\ frontBar = [t \in Terminals |-> term_curr_pcb[t]]
         /\ currentBar = IF pc[run] = "boot" THEN NULL ELSE run
<1>1. run # Lost
  BY SlotsAreReal
<1>2. ~ Halting /\ ~ At("jump")
  BY DEF Halting, InHalt, At, HaltWindow
<1> QED
  BY <1>1, <1>2 DEF liveBar, frontBar, currentBar, At

\* Inside halt, before the jump, the abstract program is still live and in front.
LEMMA BarInside ==
  ASSUME run \in Slots, InHalt, pc[run] # "jump"
  PROVE  /\ liveBar = pcb_used \cup {run}
         /\ frontBar = [t \in Terminals |-> IF terminal_number[run] = t
                                            THEN run ELSE term_curr_pcb[t]]
         /\ currentBar = run
<1>1. run # Lost /\ Halting /\ ~ At("jump") /\ ~ At("boot")
  BY SlotsAreReal DEF Halting, InHalt, At, HaltWindow
<1> QED
  BY <1>1 DEF liveBar, frontBar, currentBar

\* At the jump of halt the abstract program has ended and its caller runs.
LEMMA BarJump ==
  ASSUME run \in Slots, pc[run] = "jump"
  PROVE  /\ liveBar = pcb_used
         /\ frontBar = [t \in Terminals |-> term_curr_pcb[t]]
         /\ currentBar = parent[run]
<1>1. run # Lost /\ ~ Halting /\ At("jump") /\ ~ At("boot")
  BY SlotsAreReal DEF Halting, At
<1> QED
  BY <1>1 DEF liveBar, frontBar, currentBar

\* The state entry leaves for the first shell maps to the abstract initial state.
LEMMA SessionsInit == Init => Abstract!Init
<1> SUFFICES ASSUME Init
             PROVE  Abstract!Init
  OBVIOUS
<1>1. run \in Slots /\ pc[run] = "boot" /\ active \in Terminals
  BY NumTerminalsAssumption, MaxNumProgAssumption DEF Init, Slots, Terminals
<1>2. ~ InHalt
  BY <1>1 DEF InHalt, HaltWindow
<1>3. /\ liveBar = {}
      /\ frontBar = [t \in Terminals |-> NULL]
      /\ currentBar = NULL
  BY <1>1, <1>2, BarOutside DEF Init
<1>4. callerBar = [p \in Slots |-> NULL]
  BY <1>3 DEF callerBar
<1> QED
  BY <1>1, <1>3, <1>4 DEF Init, Abstract!Init

\* What a successful execute does to the mapped state.
LEMMA LaunchBar ==
  ASSUME TypeInv, run \in Slots, NEW t \in Terminals, NEW after, Launch(t, after)
  PROVE  \E c \in Slots \ pcb_used :
           /\ liveBar' = pcb_used \cup {c}
           /\ frontBar' = [term_curr_pcb EXCEPT ![t] = c]
           /\ currentBar' = c
           /\ callerBar' = [p \in Slots |->
                 IF p = c THEN (IF term_curr_pcb[t] # NULL THEN run ELSE NULL)
                 ELSE IF p \in pcb_used THEN parent[p] ELSE NULL]
<1> DEFINE c == FirstFree(pcb_used)
           par == IF term_curr_pcb[t] # NULL THEN run ELSE NULL
<1>1. c \in Slots \ pcb_used
  BY FirstFreeIsFree DEF Launch, TypeInv, TypeOK
<1>2. /\ pcb_used' = pcb_used \cup {c}
      /\ parent' = [parent EXCEPT ![c] = par]
      /\ term_curr_pcb' = [term_curr_pcb EXCEPT ![t] = c]
      /\ pc' = [pc EXCEPT ![run] = after, ![c] = "user"]
      /\ run' = c
  BY DEF Launch
<1> HIDE DEF c
<1>3. run' \in Slots /\ pc'[run'] = "user" /\ ~ InHalt'
  BY <1>1, <1>2 DEF InHalt, HaltWindow, TypeInv, TypeOK
<1>4. /\ liveBar' = pcb_used'
      /\ frontBar' = [u \in Terminals |-> term_curr_pcb'[u]]
      /\ currentBar' = c
  <2>1. ~ Halting' /\ ~ At("jump")' /\ ~ At("boot")'
    BY <1>3 DEF Halting, At, HaltWindow
  <2>2. currentBar' = run'
    BY <2>1 DEF currentBar
  <2>3. /\ liveBar' = pcb_used'
        /\ frontBar' = [u \in Terminals |-> term_curr_pcb'[u]]
    BY <2>1 DEF liveBar, frontBar
  <2> QED
    BY <1>2, <2>2, <2>3
<1>5. frontBar' = [term_curr_pcb EXCEPT ![t] = c]
  BY <1>2, <1>4 DEF TypeInv, TypeOK
<1>6. callerBar' = [p \in Slots |->
                      IF p = c THEN par
                      ELSE IF p \in pcb_used THEN parent[p] ELSE NULL]
  BY <1>1, <1>2, <1>4 DEF callerBar, TypeInv, TypeOK
<1> QED
  BY <1>1, <1>2, <1>4, <1>5, <1>6

\* execute is an abstract call, or changes nothing when it fails.
LEMMA SessionsExecute ==
  ASSUME TypeInv, CalmInv, Foreground, execute
  PROVE  Abstract!Next \/ UNCHANGED Abstract!vars
<1>1. /\ run \in Slots /\ run # Lost /\ pc[run] = "user" /\ ~ InHalt
      /\ run # NULL /\ active \in Terminals /\ terminal_number[run] = active
  BY SlotsAreReal
     DEF execute, UserMode, At, InHalt, HaltWindow, Foreground, TypeInv, TypeOK
<1>2. run \in pcb_used /\ term_curr_pcb[active] = run
  BY <1>1 DEF CalmInv, InvQueue, At
<1>3. /\ liveBar = pcb_used /\ currentBar = run
      /\ frontBar = [t \in Terminals |-> term_curr_pcb[t]]
  BY <1>1, BarOutside
<1>4. CASE Launch(active, "execute")
  <2>1. PICK c \in Slots \ pcb_used :
           /\ liveBar' = pcb_used \cup {c}
           /\ frontBar' = [term_curr_pcb EXCEPT ![active] = c]
           /\ currentBar' = c
           /\ callerBar' = [p \in Slots |->
                 IF p = c THEN run ELSE IF p \in pcb_used THEN parent[p] ELSE NULL]
    BY <1>1, <1>2, <1>4, LaunchBar
  <2>2. frontBar' = [frontBar EXCEPT ![active] = c]
    BY <1>3, <2>1 DEF TypeInv, TypeOK
  <2>3. callerBar' = [callerBar EXCEPT ![c] = run]
    BY <1>3, <2>1 DEF callerBar
  <2>4. Abstract!Call(c)
    BY <1>1, <1>2, <1>3, <2>1, <2>2, <2>3 DEF execute, Abstract!Call
  <2> QED
    BY <2>4 DEF Abstract!Next
<1>5. CASE LaunchFails /\ UNCHANGED <<run, pc, status, intr>>
  <2>1. UNCHANGED <<pcb_used, term_curr_pcb, terminal_number, parent, run, pc,
                    return_val, active>>
    BY <1>5 DEF LaunchFails, pcbVars, execute
  <2> QED
    BY <2>1 DEF Abstract!vars, liveBar, frontBar, callerBar, currentBar,
                Halting, At
<1> QED
  BY <1>4, <1>5 DEF execute

\* A root shell for a terminal without one, at boot and on a terminal switch.
LEMMA SessionsOpen ==
  ASSUME TypeInv, CalmInv, run \in Slots, ~ InHalt, NEW t \in Terminals,
         term_curr_pcb[t] = NULL, NEW after, Launch(t, after), active' = t,
         return_val' = return_val
  PROVE  Abstract!Next
<1>1. /\ liveBar = pcb_used
      /\ frontBar = [u \in Terminals |-> term_curr_pcb[u]]
  BY BarOutside
<1>2. PICK c \in Slots \ pcb_used :
         /\ liveBar' = pcb_used \cup {c}
         /\ frontBar' = [term_curr_pcb EXCEPT ![t] = c]
         /\ currentBar' = c
         /\ callerBar' = [p \in Slots |->
               IF p = c THEN NULL ELSE IF p \in pcb_used THEN parent[p] ELSE NULL]
  BY LaunchBar
<1>3. frontBar' = [frontBar EXCEPT ![t] = c]
  BY <1>1, <1>2 DEF TypeInv, TypeOK
<1>4. callerBar' = callerBar
  BY <1>1, <1>2 DEF callerBar
<1>5. Abstract!Open(t, c)
  BY <1>1, <1>2, <1>3, <1>4 DEF Abstract!Open
<1> QED
  BY <1>5 DEF Abstract!Next

\* The timer and the keyboard move the abstract processor or screen, or nothing.
LEMMA SessionsInterrupt ==
  ASSUME TypeInv, CalmInv, HaltUninterrupted, Interrupt
  PROVE  Abstract!Next \/ UNCHANGED Abstract!vars
<1>1. run \in Slots /\ run # Lost /\ ~ InHalt
  BY DEF HaltUninterrupted, InHalt, CalmInv, InvPoints, TypeInv, TypeOK
<1>2. /\ liveBar = pcb_used
      /\ frontBar = [u \in Terminals |-> term_curr_pcb[u]]
  BY <1>1, BarOutside
<1>3. CASE do_handle_pit
  <2> DEFINE qindex == NextTerminal(CurrentIndex)
             next   == term_curr_pcb[qindex]
  <2>1. qindex \in Terminals /\ next # NULL
    BY <1>3, CurrentIndexRange, NextTerminalHasProcess DEF do_handle_pit
  <2>2. /\ next \in Slots /\ next \in pcb_used /\ pc[next] = "user"
    BY <1>1, <2>1 DEF CalmInv, InvQueue, TypeInv, TypeOK
  <2>3. /\ run' = next /\ pc' = pc
        /\ UNCHANGED <<pcb_used, term_curr_pcb, active, parent, terminal_number,
                       return_val>>
    BY <1>3, <2>2 DEF do_handle_pit, Waiting, pcbVars
  <2> HIDE DEF qindex, next
  <2>4. ~ Halting /\ ~ Halting' /\ ~ At("jump")' /\ ~ At("boot")'
    BY <1>1, <2>2, <2>3 DEF Halting, InHalt, At, HaltWindow
  <2>5. /\ liveBar' = liveBar /\ frontBar' = frontBar /\ callerBar' = callerBar
        /\ currentBar' = next
    BY <2>3, <2>4 DEF liveBar, frontBar, callerBar, currentBar
  <2>6. Abstract!Dispatch(qindex)
    BY <1>2, <2>1, <2>3, <2>5 DEF Abstract!Dispatch, next
  <2> QED
    BY <2>1, <2>6 DEF Abstract!Next
<1>4. ASSUME NEW new \in Terminals, change_video_mem(new)
      PROVE  Abstract!Next
  <2>1. active' = new /\ return_val' = return_val
    BY <1>4 DEF change_video_mem
  <2>2. CASE term_curr_pcb[new] # NULL
    <3>1. UNCHANGED <<pcb_used, term_curr_pcb, terminal_number, parent, run, pc>>
      BY <1>4, <2>2 DEF change_video_mem, pcbVars
    <3>2. UNCHANGED <<liveBar, frontBar, callerBar, currentBar>>
      BY <3>1 DEF liveBar, frontBar, callerBar, currentBar, Halting, At
    <3>3. Abstract!Show(new)
      BY <1>2, <2>1, <2>2, <3>2 DEF Abstract!Show
    <3> QED
      BY <3>3 DEF Abstract!Next
  <2>3. CASE term_curr_pcb[new] = NULL
    <3>1. ~ LaunchFails
      BY <1>1, <1>4, <2>3, PagesAndPcbs DEF change_video_mem, LaunchFails
    <3>2. Launch(new, pc[run])
      BY <1>4, <2>3, <3>1 DEF change_video_mem
    <3> QED
      BY <1>1, <2>1, <2>3, <3>2, SessionsOpen
  <2> QED
    BY <2>2, <2>3
<1> QED
  BY <1>3, <1>4 DEF Interrupt

\* Steps inside halt up to the store of the status change nothing; the store
\* is the return; the jump changes nothing.
LEMMA SessionsHalt ==
  ASSUME TypeInv, CalmInv, HaltStep
  PROVE  Abstract!Next \/ UNCHANGED Abstract!vars
<1>1. run \in Slots /\ run # Lost /\ run # NULL /\ InHalt /\ pcb_used \subseteq Slots
  BY SlotsAreReal
     DEF HaltStep, halt_free_page, halt_map_parent, halt_release,
         halt_set_return, halt_jump, halt_exec_shell, At, InHalt, HaltWindow,
         TypeInv, TypeOK
<1>2. terminal_number[run] \in Terminals
  BY <1>1 DEF CalmInv, InvQueue, Alive
<1>3. CASE halt_free_page \/ halt_map_parent \/ halt_release
  <2>1. /\ pc[run] # "jump" /\ run \in pcb_used
        /\ UNCHANGED <<term_curr_pcb, active, parent, terminal_number,
                       return_val, run>>
    BY <1>1, <1>3 DEF halt_free_page, halt_map_parent, halt_release, At, pcbVars,
                      CalmInv, InvHalt
  <2>2. \E x \in {"release", "map_parent", "exec_shell", "set_return"} :
          pc' = [pc EXCEPT ![run] = x]
    BY <1>3 DEF halt_free_page, halt_map_parent, halt_release
  <2>3. pc'[run] \in {"release", "map_parent", "exec_shell", "set_return"}
    BY <1>1, <2>2 DEF TypeInv, TypeOK
  <2>4. pcb_used' \cup {run} = pcb_used \cup {run}
    BY <1>3 DEF halt_free_page, halt_map_parent, halt_release
  <2>5. Halting /\ ~ At("jump") /\ ~ At("boot")
    BY <1>1, <2>1 DEF Halting, InHalt, At, HaltWindow
  <2>6. Halting' /\ ~ At("jump")' /\ ~ At("boot")'
    BY <1>1, <2>1, <2>3 DEF Halting, At, HaltWindow
  <2>7. liveBar' = liveBar /\ frontBar' = frontBar /\ currentBar' = currentBar
    BY <2>1, <2>4, <2>5, <2>6 DEF liveBar, frontBar, currentBar
  <2>8. callerBar' = callerBar
    BY <2>1, <2>7 DEF callerBar
  <2> QED
    BY <2>1, <2>7, <2>8 DEF Abstract!vars
<1>4. CASE halt_set_return
  <2>1. /\ pc[run] = "set_return" /\ run \notin pcb_used /\ parent[run] # NULL
        /\ term_curr_pcb[terminal_number[run]] = parent[run]
        /\ parent[run] \in pcb_used /\ status[run] \in Nat
    <3>1. pc[run] = "set_return"
      BY <1>4 DEF halt_set_return, At
    <3> QED
      BY <1>1, <3>1 DEF CalmInv, InvHalt, InvFamily, Alive, TypeInv, HaltFrames,
                        HaltWindow, ExceptionStatus
  <2>2. /\ return_val' = [return_val EXCEPT ![parent[run]] = status[run] % 256]
        /\ pc' = [pc EXCEPT ![run] = "jump"]
        /\ UNCHANGED <<pcb_used, term_curr_pcb, active, parent, terminal_number,
                       run>>
    BY <1>4 DEF halt_set_return, pcbVars
  <2>3. /\ liveBar = pcb_used \cup {run} /\ currentBar = run
        /\ frontBar = [t \in Terminals |-> IF terminal_number[run] = t
                                           THEN run ELSE term_curr_pcb[t]]
    BY <1>1, <2>1, BarInside
  <2>4. ~ Halting' /\ At("jump")' /\ ~ At("boot")'
    BY <1>1, <2>2 DEF Halting, At, TypeInv, TypeOK
  <2>5. /\ liveBar' = pcb_used /\ currentBar' = parent[run]
        /\ frontBar' = [t \in Terminals |-> term_curr_pcb[t]]
    BY <2>2, <2>4 DEF liveBar, frontBar, currentBar
  <2>6. callerBar[run] = parent[run]
    BY <1>1, <2>3 DEF callerBar
  <2>7. callerBar' = [callerBar EXCEPT ![run] = NULL]
    BY <1>1, <2>1, <2>2, <2>3, <2>5 DEF callerBar
  <2>8. frontBar' = [frontBar EXCEPT ![terminal_number[run]] = parent[run]]
    BY <1>2, <2>1, <2>3, <2>5
  <2>9. status[run] % 256 \in 0 .. 255
    BY <2>1
  <2>10. Abstract!Return(terminal_number[run], status[run] % 256)
    <3>1. frontBar[terminal_number[run]] = run
      BY <1>2, <2>3
    <3>2. liveBar' = liveBar \ {run}
      BY <2>1, <2>3, <2>5
    <3> QED
      BY <1>1, <2>1, <2>2, <2>3, <2>5, <2>6, <2>7, <2>8, <3>1, <3>2
         DEF Abstract!Return
  <2> QED
    BY <1>2, <2>9, <2>10 DEF Abstract!Next
<1>5. CASE halt_jump
  <2>1. /\ pc[run] = "jump" /\ parent[run] \in Slots
        /\ run' = parent[run]
        /\ pc' = [pc EXCEPT ![run] = "gone", ![parent[run]] = "user"]
    <3>1. pc[run] = "jump"
      BY <1>5 DEF halt_jump, At
    <3>2. parent[run] \in Slots
      BY <1>1, <3>1 DEF TypeInv, HaltFrames
    <3> QED
      BY <1>5, <3>1, <3>2, JumpStep
  <2>2. UNCHANGED <<pcb_used, term_curr_pcb, active, parent, terminal_number,
                    return_val>>
    BY <1>5 DEF halt_jump, pcbVars
  <2>3. /\ liveBar = pcb_used /\ currentBar = parent[run]
        /\ frontBar = [t \in Terminals |-> term_curr_pcb[t]]
    BY <1>1, <2>1, BarJump
  <2>4. ~ Halting' /\ ~ At("jump")' /\ ~ At("boot")'
    BY <1>1, <2>1 DEF Halting, At, TypeInv, TypeOK, HaltWindow
  <2>a. currentBar' = run'
    BY <2>4 DEF currentBar
  <2>5. liveBar' = liveBar /\ currentBar' = currentBar /\ frontBar' = frontBar
    BY <2>1, <2>2, <2>3, <2>4, <2>a DEF liveBar, frontBar
  <2>6. callerBar' = callerBar
    BY <2>2, <2>5 DEF callerBar
  <2> QED
    BY <2>2, <2>5, <2>6 DEF Abstract!vars
<1>6. CASE halt_exec_shell
  <2>1. pc[run] = "exec_shell" /\ active' = active /\ return_val' = return_val
    BY <1>6 DEF halt_exec_shell, At
  <2>2. /\ run \notin pcb_used /\ parent[run] = NULL
        /\ terminal_number[run] = active /\ term_curr_pcb[active] = NULL
    BY <1>1, <2>1 DEF CalmInv, InvHalt
  <2>3. ~ LaunchFails
    <3>1. /\ prog_used_page = {pt_idx[p] : p \in Alive \ {run}}
          /\ run \in Alive /\ pt_idx[run] \in Slots
          /\ pt_idx[run] \notin prog_used_page
      BY <1>1, <2>1 DEF CalmInv, InvPages, Alive
    <3> QED
      BY <1>1, <2>2, <3>1 DEF LaunchFails
  <2>4. Launch(active, "respawned")
    BY <1>6, <2>3 DEF halt_exec_shell, halt_returns
  <2>5. /\ liveBar = pcb_used \cup {run} /\ currentBar = run
        /\ frontBar = [t \in Terminals |-> IF terminal_number[run] = t
                                           THEN run ELSE term_curr_pcb[t]]
    BY <1>1, <2>1, BarInside
  <2>6. PICK c \in Slots \ pcb_used :
           /\ liveBar' = pcb_used \cup {c}
           /\ frontBar' = [term_curr_pcb EXCEPT ![active] = c]
           /\ currentBar' = c
           /\ callerBar' = [p \in Slots |->
                 IF p = c THEN NULL ELSE IF p \in pcb_used THEN parent[p] ELSE NULL]
    BY <1>1, <1>2, <2>2, <2>4, LaunchBar
  <2>7. frontBar' = [frontBar EXCEPT ![active] = c]
    BY <2>2, <2>5, <2>6 DEF TypeInv, TypeOK
  <2>8. callerBar' = callerBar /\ callerBar[run] = NULL
    BY <1>1, <2>2, <2>5, <2>6 DEF callerBar
  <2>9. liveBar \ {run} = pcb_used
    BY <2>2, <2>5
  <2>10. frontBar[active] = run
    BY <1>2, <2>2, <2>5
  <2>11. Abstract!Restart(c)
    BY <1>1, <2>1, <2>5, <2>6, <2>7, <2>8, <2>9, <2>10 DEF Abstract!Restart
  <2> QED
    BY <2>11 DEF Abstract!Next
<1> QED
  BY <1>3, <1>4, <1>5, <1>6 DEF HaltStep

\* The first critical section of halt, vidmap and idle steps change nothing.
LEMMA SessionsDetach ==
  ASSUME TypeInv, CalmInv, HaltEntry
  PROVE  UNCHANGED Abstract!vars
<1>1. At("user") /\ run \in Slots /\ run # Lost /\ pc[run] = "user"
  BY SlotsAreReal DEF HaltEntry, exception, halt, UserMode, At, TypeInv, TypeOK
<1>2. PICK st \in Statuses \cup {ExceptionStatus} : halt_detach(st)
  BY DEF HaltEntry, exception, halt
<1>3. run \in pcb_used /\ ~ InHalt
  BY <1>1 DEF CalmInv, InvQueue, InHalt, HaltWindow
<1>4. terminal_number[run] \in Terminals
      /\ term_curr_pcb[terminal_number[run]] = run
  BY <1>1, <1>3 DEF CalmInv, InvQueue, Alive
<1>5. /\ liveBar = pcb_used /\ currentBar = run
      /\ frontBar = [t \in Terminals |-> term_curr_pcb[t]]
  BY <1>1, <1>3, BarOutside
<1>6. /\ term_curr_pcb' =
           [term_curr_pcb EXCEPT ![terminal_number[run]] = parent[run]]
      /\ pc' = [pc EXCEPT ![run] = "free_page"]
      /\ UNCHANGED <<pcb_used, active, parent, terminal_number, return_val, run>>
  BY <1>2 DEF halt_detach, pcbVars
<1>7. Halting' /\ ~ At("jump")' /\ ~ At("boot")'
  BY <1>1, <1>6 DEF Halting, At, HaltWindow, TypeInv, TypeOK
<1>8. /\ liveBar' = pcb_used \cup {run} /\ currentBar' = run
      /\ frontBar' = [t \in Terminals |-> IF terminal_number[run] = t
                                          THEN run ELSE term_curr_pcb'[t]]
  BY <1>6, <1>7 DEF liveBar, frontBar, currentBar
<1>9. liveBar' = liveBar
  BY <1>3, <1>5, <1>8
<1>10. frontBar' = frontBar
  BY <1>4, <1>5, <1>6, <1>8 DEF TypeInv, TypeOK
<1>11. callerBar' = callerBar
  BY <1>6, <1>9 DEF callerBar
<1> QED
  BY <1>5, <1>6, <1>8, <1>9, <1>10, <1>11 DEF Abstract!vars

\* execute, halt, the scheduler and terminal switching implement sessions of
\* nested calls: every kernel step is a step of Sessions or changes nothing in
\* it, for every number of terminals and PCBs.
THEOREM KernelImplementsSessions == CalmSpec => ImplementsSessions
<1>1. TypeInv /\ CalmInv /\ [CalmNext]_vars => [Abstract!Next]_(Abstract!vars)
  <2> SUFFICES ASSUME TypeInv, CalmInv, [CalmNext]_vars
               PROVE  Abstract!Next \/ UNCHANGED Abstract!vars
    OBVIOUS
  <2>1. CASE boot_shell
    <3>1. /\ run \in Slots /\ ~ InHalt /\ active \in Terminals
          /\ active' = active /\ return_val' = return_val
          /\ Launch(active, "gone")
      BY <2>1 DEF boot_shell, At, InHalt, HaltWindow, TypeInv, TypeOK
    <3>2. term_curr_pcb[active] = NULL
      BY <2>1, <3>1 DEF boot_shell, CalmInv, InvBoot
    <3> QED
      BY <3>1, <3>2, SessionsOpen
  <2>2. CASE vidmap \/ UNCHANGED vars
    <3>1. UNCHANGED <<pcb_used, term_curr_pcb, terminal_number, parent, run, pc,
                      return_val, active>>
      BY <2>2 DEF vidmap, vars, pcbVars
    <3> QED
      BY <3>1 DEF Abstract!vars, liveBar, frontBar, callerBar, currentBar,
                  Halting, At
  <2> QED
    BY <2>1, <2>2, SessionsExecute, SessionsInterrupt, SessionsHalt,
       SessionsDetach DEF CalmNext, ForegroundExecute, ForegroundHalt
<1> QED
  BY <1>1, SessionsInit, CalmInvariant, PTL
     DEF CalmSpec, ImplementsSessions, Abstract!Spec
=============================================================================
