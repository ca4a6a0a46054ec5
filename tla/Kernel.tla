------------------------------- MODULE Kernel -------------------------------
(***************************************************************************)
(* Processes, program pages, the timer scheduler and terminal switching of *)
(* the kernel: execute and halt (syscalls.c), add_prog_page, set_prog_page *)
(* and free_prog_page (page.c), do_handle_pit (sched.c), change_video_mem  *)
(* (lib.c), the exception handlers (x86_idt.S) and the first shell started *)
(* by entry (kernel.c).                                                    *)
(*                                                                         *)
(* There is one CPU.  An action is a piece of kernel code that no          *)
(* interrupt can split in a way that shows: execute runs under cli, an     *)
(* interrupt handler runs behind an interrupt gate, and halt is cut at     *)
(* every point where a timer tick between two of its statements makes a    *)
(* difference.  "user" stands for user code and for every system call      *)
(* that does not touch this state.                                         *)
(***************************************************************************)
EXTENDS Integers, FiniteSets

CONSTANTS
  NumTerminals,  \* NUM_TERMINALS
  MaxNumProg,    \* MAX_NUM_PROG: number of PCBs, and of 4MB program pages
  Statuses,      \* what programs pass to halt: a byte
  NULL,          \* null pointer, cleared entry, field never written
  Lost           \* the CPU runs on a stack that holds no valid frame

ASSUME NumTerminalsAssumption == NumTerminals \in Nat \ {0}
ASSUME MaxNumProgAssumption   == MaxNumProg \in Nat \ {0}
ASSUME StatusesAssumption     == Statuses \subseteq 0 .. 255

Terminals == 0 .. NumTerminals - 1
Slots     == 0 .. MaxNumProg - 1

ASSUME SentinelsAssumption ==
  NULL \notin Int /\ Lost \notin Int /\ NULL # Lost

ExceptionStatus == 256     \* what every exception handler passes to halt

VARIABLES
  pcb_used,        \* slots whose PCB is taken
  prog_used_page,  \* program pages that are taken
  page_dir,        \* page mapped at 128MB, NULL when the entry is cleared
  video_page,      \* what the user video page maps: nothing, screen, backup
  term_curr_pcb,   \* the run queue: current process of each terminal
  active,          \* current_active_terminal
  esp0,            \* slot whose kernel stack tss.esp0 points into
  parent, pt_idx, terminal_number, old_tssESP, return_val,  \* PCB fields
  status,          \* halt's argument, a local on the slot's kernel stack
  run,             \* get_pcb(): slot whose kernel stack the CPU is on
  pc,              \* where each kernel stack resumes
  intr             \* EFLAGS.IF

pcbVars  == <<parent, pt_idx, terminal_number, old_tssESP>>
pageVars == <<prog_used_page, page_dir>>
vars == <<pcb_used, pageVars, video_page, term_curr_pcb, active, esp0, pcbVars,
          return_val, status, run, pc, intr>>

(***************************************************************************)
(* The points a kernel stack can resume at.  "execute": at ret_here inside *)
(* an execute call.  "respawned": at ret_here inside the execute("shell")  *)
(* of a root's halt.  "gone": nothing there.                               *)
(***************************************************************************)
HaltWindow == {"free_page", "map_parent", "release", "set_return", "jump",
               "exec_shell"}
Waiting == {"execute", "respawned"}
Points  == {"boot", "user", "gone"} \cup Waiting \cup HaltWindow

TypeOK ==
  /\ pcb_used \subseteq Slots
  /\ prog_used_page \subseteq Slots
  /\ page_dir \in Slots \cup {NULL}
  /\ video_page \in {"none", "screen", "backup"}
  /\ term_curr_pcb \in [Terminals -> Slots \cup {NULL}]
  /\ active \in Terminals
  /\ esp0 \in Slots \cup {NULL}
  /\ parent \in [Slots -> Slots \cup {NULL}]
  /\ pt_idx \in [Slots -> Slots \cup {NULL}]
  /\ terminal_number \in [Slots -> Terminals \cup {NULL}]
  /\ old_tssESP \in [Slots -> Slots \cup {NULL}]
  /\ return_val \in [Slots -> 0 .. 255 \cup {NULL}]
  /\ status \in [Slots -> 0 .. ExceptionStatus \cup {NULL}]
  /\ run \in Slots \cup {Lost}
  /\ pc \in [Slots -> Points]
  /\ intr \in BOOLEAN

(***************************************************************************)
(* entry, up to its execute("shell"): no PCB, no page, interrupts on, the  *)
(* boot stack at the top of kernel memory, which is slot 0's.              *)
(***************************************************************************)
Init ==
  /\ pcb_used = {}
  /\ prog_used_page = {}
  /\ page_dir = NULL
  /\ video_page = "none"
  /\ term_curr_pcb = [t \in Terminals |-> NULL]
  /\ active = 0
  /\ esp0 = 0
  /\ parent = [s \in Slots |-> NULL]
  /\ pt_idx = [s \in Slots |-> NULL]
  /\ terminal_number = [s \in Slots |-> NULL]
  /\ old_tssESP = [s \in Slots |-> NULL]
  /\ return_val = [s \in Slots |-> NULL]
  /\ status = [s \in Slots |-> NULL]
  /\ run = 0
  /\ pc = [s \in Slots |-> IF s = 0 THEN "boot" ELSE "gone"]
  /\ intr = TRUE
-----------------------------------------------------------------------------
(* Allocation and the program page.                                        *)

\* Mutant: the scan does not look at the used flags.
FirstFree_ignoring_flags(used) == 0

\* Mutant: the scan is off by one.
FirstFree_from_one(used) ==
  CHOOSE i \in 1 .. MaxNumProg : /\ i \notin used
                                 /\ \A j \in 1 .. MaxNumProg : j < i => j \in used

\* add_prog_page and add_pcb scan upwards for the first free entry.
FirstFree(used) == CHOOSE i \in Slots : /\ i \notin used
                                        /\ \A j \in Slots : j < i => j \in used

add_prog_page(page) ==
  /\ page_dir' = page
  /\ prog_used_page' = prog_used_page \cup {page}

set_prog_page(idx) ==
  IF idx \in Slots
  THEN /\ page_dir' = idx
       /\ prog_used_page' = prog_used_page \cup {idx}
  ELSE UNCHANGED pageVars

\* Mutant: the page directory entry is not cleared.
free_prog_page_mapped(idx) ==
  /\ prog_used_page' = prog_used_page \ {idx}
  /\ UNCHANGED page_dir

\* Mutant: the page stays marked as taken.
free_prog_page_marked(idx) ==
  /\ page_dir' = NULL
  /\ UNCHANGED prog_used_page

free_prog_page(idx) ==
  IF idx \in Slots
  THEN /\ page_dir' = NULL
       /\ prog_used_page' = prog_used_page \ {idx}
  ELSE UNCHANGED pageVars

\* Mutant: the argument is ignored.
set_video_page_on(on) == "screen"

\* What the user video page maps after set_video_page(on).
set_video_page(on) == IF on THEN "screen" ELSE "backup"
-----------------------------------------------------------------------------
(* execute                                                                 *)

(***************************************************************************)
(* The successful path of execute, entered on the kernel stack of run.     *)
(* The child goes to terminal t, the one on the screen, whichever terminal *)
(* the caller belongs to.  `after' is where the caller's stack resumes.    *)
(* The child may get the caller's own slot (at boot, and when a dead root  *)
(* starts a new shell): the child's frame then replaces the caller's.      *)
(***************************************************************************)
Launch(t, after) ==
  LET page  == FirstFree(prog_used_page)
      child == FirstFree(pcb_used)
  IN  /\ prog_used_page # Slots
      /\ pcb_used # Slots
      /\ add_prog_page(page)
      /\ pcb_used' = pcb_used \cup {child}
      /\ terminal_number' = [terminal_number EXCEPT ![child] = t]
      /\ pt_idx' = [pt_idx EXCEPT ![child] = page]
      /\ IF term_curr_pcb[t] # NULL
         THEN /\ parent' = [parent EXCEPT ![child] = run]
              /\ old_tssESP' = [old_tssESP EXCEPT ![child] = esp0]
         ELSE /\ parent' = [parent EXCEPT ![child] = NULL]
              /\ UNCHANGED old_tssESP
      /\ esp0' = child
      /\ term_curr_pcb' = [term_curr_pcb EXCEPT ![t] = child]
      /\ pc' = [pc EXCEPT ![run] = after, ![child] = "user"]
      /\ status' = [status EXCEPT ![child] = NULL]
      /\ run' = child
      /\ intr' = TRUE

(***************************************************************************)
(* execute returns ERROR: every page is taken; or a page was found and     *)
(* mapped but every PCB is taken, and the page stays taken and mapped.     *)
(***************************************************************************)
LaunchFails ==
  /\ \/ prog_used_page = Slots /\ UNCHANGED pageVars
     \/ /\ prog_used_page # Slots
        /\ pcb_used = Slots
        /\ add_prog_page(FirstFree(prog_used_page))
  /\ UNCHANGED <<pcb_used, term_curr_pcb, esp0, pcbVars>>

At(point) == run # Lost /\ pc[run] = point

\* User code can run only when its program page is mapped.
UserMode == At("user") /\ page_dir # NULL

execute ==
  /\ UserMode
  /\ \/ Launch(active, "execute")
     \/ LaunchFails /\ UNCHANGED <<run, pc, status, intr>>
  /\ UNCHANGED <<video_page, active, return_val>>

\* The last statement of entry.
boot_shell ==
  /\ At("boot")
  /\ Launch(active, "gone")
  /\ UNCHANGED <<video_page, active, return_val>>

vidmap ==
  /\ UserMode
  /\ video_page' = "screen"
  /\ UNCHANGED <<pcb_used, pageVars, term_curr_pcb, active, esp0, pcbVars,
                 return_val, status, run, pc, intr>>
-----------------------------------------------------------------------------
(* halt, one action per stretch of code between two points at which an     *)
(* interrupt matters.                                                      *)

\* Mutant: the run queue keeps the halting process.
halt_detach_queued(st) ==
  /\ status' = [status EXCEPT ![run] = st]
  /\ pc' = [pc EXCEPT ![run] = "free_page"]
  /\ UNCHANGED <<pcb_used, pageVars, video_page, term_curr_pcb, active, esp0,
                 pcbVars, return_val, run>>

\* Up to the end of the first critical section: the terminal's current
\* process becomes the parent, NULL when the process is its terminal's root.
halt_detach(st) ==
  /\ term_curr_pcb' = [term_curr_pcb EXCEPT ![terminal_number[run]] = parent[run]]
  /\ status' = [status EXCEPT ![run] = st]
  /\ pc' = [pc EXCEPT ![run] = "free_page"]
  /\ UNCHANGED <<pcb_used, pageVars, video_page, active, esp0, pcbVars,
                 return_val, run>>

\* The halt system call, through a trap gate: interrupts stay on.
halt(st) == UserMode /\ halt_detach(st) /\ UNCHANGED intr

\* An exception handler: cli, then halt(256).
exception ==
  /\ At("user")
  /\ halt_detach(ExceptionStatus)
  /\ intr' = FALSE

halt_free_page ==
  /\ At("free_page")
  /\ free_prog_page(pt_idx[run])
  /\ pc' = [pc EXCEPT ![run] = IF parent[run] = NULL THEN "release"
                                                     ELSE "map_parent"]
  /\ UNCHANGED <<pcb_used, video_page, term_curr_pcb, active, esp0, pcbVars,
                 return_val, status, run, intr>>

halt_map_parent ==
  /\ At("map_parent")
  /\ set_prog_page(pt_idx[parent[run]])
  /\ pc' = [pc EXCEPT ![run] = "release"]
  /\ UNCHANGED <<pcb_used, video_page, term_curr_pcb, active, esp0, pcbVars,
                 return_val, status, run, intr>>

\* Mutant: tss.esp0 is not restored.
halt_release_keeping_esp0 ==
  /\ At("release")
  /\ pcb_used' = pcb_used \ {run}
  /\ pc' = [pc EXCEPT ![run] = IF parent[run] = NULL THEN "exec_shell"
                                                     ELSE "set_return"]
  /\ UNCHANGED <<pageVars, video_page, term_curr_pcb, active, esp0, pcbVars,
                 return_val, status, run, intr>>

\* Mutant: the PCB is not released.
halt_release_keeping_pcb ==
  /\ At("release")
  /\ esp0' = old_tssESP[run]
  /\ pc' = [pc EXCEPT ![run] = IF parent[run] = NULL THEN "exec_shell"
                                                     ELSE "set_return"]
  /\ UNCHANGED <<pcb_used, pageVars, video_page, term_curr_pcb, active,
                 pcbVars, return_val, status, run, intr>>

halt_release ==
  /\ At("release")
  /\ esp0' = old_tssESP[run]
  /\ pcb_used' = pcb_used \ {run}
  /\ pc' = [pc EXCEPT ![run] = IF parent[run] = NULL THEN "exec_shell"
                                                     ELSE "set_return"]
  /\ UNCHANGED <<pageVars, video_page, term_curr_pcb, active, pcbVars,
                 return_val, status, run, intr>>

\* Mutant: the status goes to the halting process's own PCB.
halt_set_own_return ==
  /\ At("set_return")
  /\ return_val' = [return_val EXCEPT ![run] = status[run] % 256]
  /\ pc' = [pc EXCEPT ![run] = "jump"]
  /\ UNCHANGED <<pcb_used, pageVars, video_page, term_curr_pcb, active, esp0,
                 pcbVars, status, run, intr>>

\* parent->return_val = status & EIGHT_BIT_MASK
halt_set_return ==
  /\ At("set_return")
  /\ return_val' = [return_val EXCEPT ![parent[run]] = status[run] % 256]
  /\ pc' = [pc EXCEPT ![run] = "jump"]
  /\ UNCHANGED <<pcb_used, pageVars, video_page, term_curr_pcb, active, esp0,
                 pcbVars, status, run, intr>>

(***************************************************************************)
(* The jump to ret_here on the stack pointer saved when the process was    *)
(* started.  If the parent is still inside that execute call its frame is  *)
(* there and execute returns; if not, the frame was overwritten since.     *)
(***************************************************************************)
halt_jump ==
  /\ At("jump")
  /\ LET p == parent[run] IN
     IF pc[p] \in Waiting
     THEN /\ run' = p
          /\ pc' = [pc EXCEPT ![run] = "gone", ![p] = "user"]
          /\ status' = [status EXCEPT ![run] = NULL]
          /\ intr' = TRUE
     ELSE /\ run' = Lost
          /\ UNCHANGED <<pc, status, intr>>
  /\ UNCHANGED <<pcb_used, pageVars, video_page, term_curr_pcb, active, esp0,
                 pcbVars, return_val>>

\* The execute of halt fails and halt returns: after a system call to the
\* program that made it, after an exception to the handler, which stops the
\* machine, with interrupts off since execute.
halt_returns ==
  /\ LaunchFails
  /\ \/ /\ status[run] # ExceptionStatus
        /\ pc' = [pc EXCEPT ![run] = "user"]
        /\ status' = [status EXCEPT ![run] = NULL]
        /\ intr' = TRUE
        /\ UNCHANGED run
     \/ /\ status[run] = ExceptionStatus
        /\ run' = Lost
        /\ intr' = FALSE
        /\ UNCHANGED <<pc, status>>

\* A root process ends by starting a new shell.
halt_exec_shell ==
  /\ At("exec_shell")
  /\ Launch(active, "respawned") \/ halt_returns
  /\ UNCHANGED <<video_page, active, return_val>>
-----------------------------------------------------------------------------
(* Interrupts                                                              *)

\* The terminals whose current process is the interrupted one; the search
\* stops at the first, and at NumTerminals when there is none.
CurrentIndex ==
  IF \E t \in Terminals : term_curr_pcb[t] = run
  THEN CHOOSE t \in Terminals :
         /\ term_curr_pcb[t] = run
         /\ \A u \in Terminals : u < t => term_curr_pcb[u] # run
  ELSE NumTerminals

\* Mutant: the search always starts at terminal 0.
NextTerminal_from_zero(from) ==
  CHOOSE t \in Terminals : /\ term_curr_pcb[t] # NULL
                           /\ \A u \in Terminals : u < t => term_curr_pcb[u] = NULL

\* The first terminal after `from', in circular order, that has a process.
NextTerminal(from) ==
  LET Nth(i) == (from + i) % NumTerminals
      Steps  == CHOOSE n \in 1 .. NumTerminals :
                  /\ term_curr_pcb[Nth(n)] # NULL
                  /\ \A m \in 1 .. NumTerminals :
                       m < n => term_curr_pcb[Nth(m)] = NULL
  IN  Nth(Steps)

(***************************************************************************)
(* do_handle_pit with a process to run: its kernel stack, page and video   *)
(* page are installed and its saved context is resumed.  A process inside  *)
(* execute resumes at ret_here, so its execute returns.                    *)
(***************************************************************************)
do_handle_pit ==
  /\ run # Lost /\ intr
  /\ \E t \in Terminals : term_curr_pcb[t] # NULL
  /\ LET qindex == NextTerminal(CurrentIndex)
         next   == term_curr_pcb[qindex]
     IN  /\ esp0' = next
         /\ set_prog_page(pt_idx[next])
         /\ video_page' = set_video_page(qindex = active)
         /\ run' = IF pc[next] \in {"gone", "boot"} THEN Lost ELSE next
         /\ pc' = IF pc[next] \in Waiting THEN [pc EXCEPT ![next] = "user"]
                                          ELSE pc
  /\ UNCHANGED <<pcb_used, term_curr_pcb, active, pcbVars, return_val, status,
                 intr>>

(***************************************************************************)
(* Alt+Fn on the keyboard: show another terminal, and start its shell on   *)
(* the interrupted kernel stack when it has none.  Refused when that shell *)
(* would need a PCB and none is free.                                      *)
(***************************************************************************)
change_video_mem(new) ==
  /\ run # Lost /\ intr
  /\ new # active
  /\ ~ (pcb_used = Slots /\ term_curr_pcb[new] = NULL)
  /\ video_page' = set_video_page(FALSE)
  /\ active' = new
  /\ IF term_curr_pcb[new] # NULL
     THEN UNCHANGED <<pcb_used, pageVars, term_curr_pcb, esp0, pcbVars, run,
                      pc, status, intr>>
     ELSE \/ Launch(new, pc[run])
          \/ LaunchFails /\ UNCHANGED <<run, pc, status, intr>>
  /\ UNCHANGED return_val

\* The handler of the debug exception stops the machine.
debug ==
  /\ At("user")
  /\ run' = Lost
  /\ intr' = FALSE
  /\ UNCHANGED <<pcb_used, pageVars, video_page, term_curr_pcb, active, esp0,
                 pcbVars, return_val, status, pc>>
-----------------------------------------------------------------------------
(* Specifications                                                          *)

Interrupt == do_handle_pit \/ \E new \in Terminals : change_video_mem(new)
HaltEntry == exception \/ \E st \in Statuses : halt(st)
HaltStep  == \/ halt_free_page \/ halt_map_parent \/ halt_release
             \/ halt_set_return \/ halt_jump \/ halt_exec_shell

Next == \/ Interrupt \/ execute \/ vidmap \/ HaltEntry \/ HaltStep
        \/ boot_shell \/ debug

Spec == Init /\ [][Next]_vars

(***************************************************************************)
(* Two conditions on the environment, each the exclusion of one race.      *)
(*   HaltUninterrupted: no interrupt is taken inside halt.                 *)
(*   Foreground: the program that calls execute is on the terminal that    *)
(*     is on the screen.  So is a terminal's first process when it ends,   *)
(*     by halt or by an exception, since halt then calls execute for it.   *)
(* With both, the process structure is sound; the runs that drop one of    *)
(* the two show what the code then does.                                   *)
(***************************************************************************)
HaltUninterrupted == run # Lost => pc[run] \notin HaltWindow
Foreground == run # Lost => terminal_number[run] = active
ForegroundExecute == Foreground /\ execute
ForegroundHalt == (run # Lost => Foreground \/ parent[run] # NULL) /\ HaltEntry

PreemptNext ==      \* interrupts anywhere, execute from the foreground only
  \/ Interrupt
  \/ ForegroundExecute \/ vidmap \/ ForegroundHalt \/ HaltStep \/ boot_shell

BackgroundNext ==   \* execute from any terminal, halt never interrupted
  \/ HaltUninterrupted /\ Interrupt
  \/ execute \/ vidmap \/ HaltEntry \/ HaltStep \/ boot_shell

CalmNext ==         \* both conditions
  \/ HaltUninterrupted /\ Interrupt
  \/ ForegroundExecute \/ vidmap \/ ForegroundHalt \/ HaltStep \/ boot_shell

PreemptSpec    == Init /\ [][PreemptNext]_vars
BackgroundSpec == Init /\ [][BackgroundNext]_vars
CalmSpec       == Init /\ [][CalmNext]_vars

(***************************************************************************)
(* Fairness: halt runs to its end, and the timer interrupt, which the PIC  *)
(* keeps pending while IF is clear, is taken again and again.              *)
(***************************************************************************)
FairCalmSpec ==
  /\ CalmSpec
  /\ WF_vars(HaltStep)
  /\ WF_vars(boot_shell)
  /\ SF_vars(HaltUninterrupted /\ do_handle_pit)
-----------------------------------------------------------------------------
(* Properties                                                              *)

\* The CPU is past halt's first critical section.
InHalt == run # Lost /\ pc[run] \in HaltWindow

\* Whatever the interleaving, the page that is mapped for programs is marked
\* as taken, so add_prog_page never hands out the page in use.
MappedPageReserved == page_dir # NULL => page_dir \in prog_used_page

\* A program in user mode has its own page mapped and enters the kernel on
\* its own stack, across execute, halt, timer switches and terminal switches.
AddressSpace == At("user") => page_dir = pt_idx[run] /\ esp0 = run

\* The run queue: the CPU is on a live stack; each terminal's current process
\* is live, belongs to that terminal and is not inside execute; a program in
\* user mode is the current process of its terminal.  The parent of a process
\* inside halt is the exception: it is queued before it may run.
RunQueue ==
  /\ run # Lost
  /\ \A t \in Terminals : term_curr_pcb[t] # NULL =>
       LET p == term_curr_pcb[t] IN
       /\ p \in pcb_used
       /\ terminal_number[p] = t
       /\ \/ pc[p] \in HaltWindow \cup {"user"}
          \/ InHalt /\ p = parent[run]
  /\ At("user") => term_curr_pcb[terminal_number[run]] = run

\* No PCB and no page leaks: a taken PCB is the CPU's, or a terminal's current
\* process, or waits in execute for another taken PCB; no two of them share a
\* page; and in user mode the taken pages are exactly those of taken PCBs.
NoLeak ==
  /\ \A p \in pcb_used :
       \/ p = run
       \/ \E t \in Terminals : term_curr_pcb[t] = p
       \/ pc[p] = "execute" /\ \E c \in pcb_used : parent[c] = p
  /\ \A p, q \in pcb_used : pt_idx[p] = pt_idx[q] => p = q
  /\ At("user") => prog_used_page = {pt_idx[p] : p \in pcb_used}

\* Processes never wait for each other in a circle: every set of live
\* processes has a member whose parent is outside it.
NoWaitCycle ==
  \A S \in SUBSET pcb_used : S # {} => \E p \in S : parent[p] \notin S

\* The screen is mapped while the CPU runs for a terminal that is not on it.
ScreenInBackground ==
  run # Lost /\ terminal_number[run] # active /\ video_page = "screen"

\* The user video page is one mapping for all programs.  No execute, halt,
\* timer tick or terminal switch leaves a program in the background with the
\* screen mapped, whatever the page mapped for the program before it: only the
\* program's own call of vidmap does, and the next interrupt ends it.
BackgroundOffScreenStep ==
  /\ ~ScreenInBackground /\ ScreenInBackground' => vidmap
  /\ ScreenInBackground /\ Interrupt => ~ScreenInBackground'
BackgroundOffScreen == [][BackgroundOffScreenStep]_vars

\* execute returns to its caller only through the halt of a process the caller
\* started, and with that process's status (mod 256).
ExecuteReturnStep ==
  \A p \in Slots : pc[p] = "execute" /\ pc'[p] # "execute" =>
    /\ At("jump")
    /\ parent[run] = p
    /\ return_val[p] = status[run] % 256
    /\ run' = p
ExecuteReturns == [][ExecuteReturnStep]_vars

\* The timer reaches every terminal that has a process: it runs again and
\* again, whatever the programs on the other terminals do.
EveryTerminalRuns ==
  \A t \in Terminals : []<>(term_curr_pcb[t] = NULL \/ run = term_curr_pcb[t])

(***************************************************************************)
(* The inductive invariant of CalmSpec, in parts.  Alive: the taken PCBs,  *)
(* and the process inside halt even after it gave back its own.            *)
(***************************************************************************)
Alive  == pcb_used \cup (IF InHalt THEN {run} ELSE {})

\* Only the CPU's stack is at boot or inside halt; a process that does not
\* run is in user mode or inside execute; other stacks hold nothing of use.
InvPoints ==
  /\ run # Lost
  /\ pc[run] \in {"boot", "user"} \cup HaltWindow
  /\ \A s \in Slots \ pcb_used : s # run => pc[s] \in {"gone", "respawned"}
  /\ \A p \in pcb_used : p # run => pc[p] \in {"user", "execute"}

\* Before the first shell there is nothing.
InvBoot ==
  At("boot") => /\ run = 0 /\ pcb_used = {} /\ prog_used_page = {}
                /\ \A t \in Terminals : term_curr_pcb[t] = NULL

\* Every process has a terminal; a terminal's current process is its own; the
\* processes in user mode are exactly the current ones.
InvQueue ==
  /\ \A p \in Alive : terminal_number[p] \in Terminals
  /\ \A t \in Terminals : term_curr_pcb[t] # NULL =>
       term_curr_pcb[t] \in pcb_used /\ terminal_number[term_curr_pcb[t]] = t
  /\ At("user") => run \in pcb_used
  /\ \A p \in pcb_used : pc[p] = "user" <=> /\ term_curr_pcb[terminal_number[p]] = p
                                            /\ ~ (InHalt /\ p = parent[run])

\* A parent is live, on the same terminal, inside execute, and has one child;
\* a process inside execute has a child.
InvFamily ==
  /\ \A c \in Alive : parent[c] # NULL =>
       /\ parent[c] \in pcb_used
       /\ terminal_number[parent[c]] = terminal_number[c]
       /\ pc[parent[c]] = "execute"
       /\ old_tssESP[c] = parent[c]
  /\ \A c, d \in Alive : parent[c] # NULL /\ parent[c] = parent[d] => c = d
  /\ \A p \in pcb_used : pc[p] = "execute" => \E c \in Alive : parent[c] = p

\* Pages: one each, and no others taken; the one inside halt gave its own back
\* once past free_prog_page.
InvPages ==
  /\ \A p \in Alive : pt_idx[p] \in Slots
  /\ \A p, q \in Alive : pt_idx[p] = pt_idx[q] => p = q
  /\ prog_used_page =
       {pt_idx[p] : p \in IF InHalt /\ pc[run] # "free_page"
                          THEN Alive \ {run} ELSE pcb_used}

\* What the CPU has installed.
InvMapped ==
  /\ At("user") => page_dir = pt_idx[run] /\ esp0 = run
  /\ InHalt /\ parent[run] # NULL =>
       /\ pc[run] \in {"release", "set_return", "jump"} =>
            page_dir = pt_idx[parent[run]]
       /\ pc[run] \in {"set_return", "jump"} => esp0 = parent[run]

\* The process inside halt: its terminal's entry is its parent, its PCB is
\* taken until halt_release, and a root is on the screen.
InvHalt ==
  InHalt =>
    /\ term_curr_pcb[terminal_number[run]] = parent[run]
    /\ run \in pcb_used <=> pc[run] \in {"free_page", "map_parent", "release"}
    /\ parent[run] = NULL => /\ terminal_number[run] = active
                             /\ pc[run] \in {"free_page", "release", "exec_shell"}
    /\ parent[run] # NULL => pc[run] # "exec_shell"
    /\ pc[run] = "jump" => return_val[parent[run]] = status[run] % 256

CalmInv ==
  /\ InvPoints /\ InvBoot /\ InvQueue /\ InvFamily /\ InvPages /\ InvMapped
  /\ InvHalt

(***************************************************************************)
(* The process system implements Sessions.  A process inside halt is still *)
(* in front of its session until its status is in the parent's PCB.        *)
(***************************************************************************)
Halting == run # Lost /\ pc[run] \in HaltWindow \ {"jump"}
liveBar == pcb_used \cup (IF Halting THEN {run} ELSE {})
frontBar == [t \in Terminals |-> IF Halting /\ terminal_number[run] = t
                                 THEN run ELSE term_curr_pcb[t]]
callerBar == [p \in Slots |-> IF p \in liveBar THEN parent[p] ELSE NULL]
currentBar == CASE At("boot") -> NULL
                [] At("jump") -> parent[run]
                [] OTHER      -> run

Abstract == INSTANCE Sessions WITH
              Screens <- Terminals, Programs <- Slots, Values <- 0 .. 255,
              Nobody <- NULL, live <- liveBar, front <- frontBar,
              caller <- callerBar, result <- return_val,
              current <- currentBar, shown <- active

\* The kernel keeps the promise stated in Sessions.
ImplementsSessions == Abstract!Spec
=============================================================================
