-------------------------------- MODULE Rtc --------------------------------
(***************************************************************************)
(* The real-time clock driver, rtc.c, with its line of the interrupt       *)
(* controller (module Pic) and the chip the driver programs.               *)
(*                                                                         *)
(* The chip's registers are reached in two accesses, an outb that selects  *)
(* a register and an inb or outb of its contents.  The system calls run    *)
(* with interrupts on, so every port access is a step, and so is every     *)
(* access to the variable slave_mask, which the handlers change too; an    *)
(* interrupt handler runs with interrupts off and is one step.             *)
(***************************************************************************)
EXTENDS Pic

CONSTANTS
    Procs,        \* processes with an RTC descriptor
    Frequencies   \* the values processes ask rtc_write for

RTC_IRQ_LINE == 8
MOUSE_IRQ == 12
LOG_FREQ_OFFSET == 16

VARIABLES
    regs,             \* registers A and B of the chip, as bytes
    selected,         \* the register the next data access goes to
    periodic,         \* register C: an interrupt that has not been read
    pic,              \* the interrupt controllers and their mask variables
    RTC_INT_OCCURED,  \* 0 once the interrupt has occurred
    pc,               \* [p]: where the system call of p is
    freq,             \* [p]: what its rtc_write was given
    tmp,              \* [p]: its copy of a register
    sending,          \* [p]: its copy of the masks
    asked,            \* history: the frequency last asked for
    rejected          \* history: a rejected rtc_write has masked the line

chip == <<regs, selected, periodic>>
history == <<asked, rejected>>
locals == <<freq, tmp, sending>>
vars == <<chip, pic, RTC_INT_OCCURED, pc, locals, history>>

(***************************************************************************)
(* Bit operations of the driver, on bytes.                                 *)
(***************************************************************************)
LowFour(b) == b % 16

\* MUTANT of SetPIE: the bit is added, not or-ed.
SetPIE_added(b) == b + 64

SetPIE(b) == IF (b \div 64) % 2 = 1 THEN b ELSE b + 64
SetLowFour(b) == b - LowFour(b) + 15                  \* b | 0x0F
WithRate(b, r) == b - LowFour(b) + r                  \* (b & 0xF0) | r
PIE(b) == (b \div 64) % 2 = 1

PowersOfTwo == {2, 4, 8, 16, 32, 64, 128, 256, 512, 1024}
Log2(f) == CHOOSE i \in 1 .. 10 : 2 ^ i = f

\* MUTANT of Rate: one off.
Rate_off_by_one(f) == LOG_FREQ_OFFSET - Log2(f) + 1

Rate(f) == LOG_FREQ_OFFSET - Log2(f)

\* The frequency register A stands for, as the chip reads it.
ProgrammedFrequency == IF LowFour(regs.A) = 0 THEN 0 ELSE 2 ^ (LOG_FREQ_OFFSET - LowFour(regs.A))

\* rtc_write looks at one byte of what it is given.
FirstByte(f) == f % 256
Accepted(f) == FirstByte(f) \in PowersOfTwo

\* What is asked for when f is refused: a legal frequency still is.
AskedInVain(f) == IF f \in PowersOfTwo THEN f ELSE asked

(***************************************************************************)
(* The accesses of rtc_open and rtc_write after the one that marks the     *)
(* line in slave_mask, in program order.  Only the first is disable_irq's, *)
(* and only the last two, e1 and e2, are enable_irq's; r1 and r2 end a     *)
(* rejected call.                                                          *)
(***************************************************************************)
Code ==
    [do |-> [op |-> "fetch",               next |-> "po"],
     po |-> [op |-> "send",                next |-> "o1"],
     o1 |-> [op |-> "select", reg |-> "B", next |-> "o2"],
     o2 |-> [op |-> "load",                next |-> "o3"],
     o3 |-> [op |-> "select", reg |-> "B", next |-> "o4"],
     o4 |-> [op |-> "store",               next |-> "o5"],
     o5 |-> [op |-> "select", reg |-> "A", next |-> "o6"],
     o6 |-> [op |-> "load",                next |-> "o7"],
     o7 |-> [op |-> "select", reg |-> "A", next |-> "o8"],
     o8 |-> [op |-> "store",               next |-> "end"],
     dw |-> [op |-> "fetch",               next |-> "pw"],
     pw |-> [op |-> "send",                next |-> "w1"],
     w1 |-> [op |-> "select", reg |-> "A", next |-> "w2"],
     w2 |-> [op |-> "load",                next |-> "w3"],
     w3 |-> [op |-> "select", reg |-> "A", next |-> "w4"],
     w4 |-> [op |-> "store",               next |-> "end"],
     e1 |-> [op |-> "fetch",               next |-> "e2"],
     e2 |-> [op |-> "send",                next |-> "idle"],
     r1 |-> [op |-> "fetch",               next |-> "r2"],
     r2 |-> [op |-> "send",                next |-> "idle"]]

\* What a store sends: rtc_open sets PIE, then the 2 Hz rate; rtc_write its rate.
Sent(p) ==
    CASE pc[p] = "o4" -> SetPIE(tmp[p])
      [] pc[p] = "o8" -> SetLowFour(tmp[p])
      [] pc[p] = "w4" -> WithRate(tmp[p], Rate(FirstByte(freq[p])))

\* The register each store is meant for.
Meant(p) == IF pc[p] = "o4" THEN "B" ELSE "A"

Bytes == 0 .. 255
Labels == DOMAIN Code \cup {"idle", "closed", "spin", "end"}

TypeOK ==
    /\ regs \in [{"A", "B"} -> Bytes]
    /\ selected \in {"A", "B", "C"}
    /\ periodic \in BOOLEAN
    /\ pic \in Pairs
    /\ RTC_INT_OCCURED \in {0, 1}
    /\ pc \in [Procs -> Labels]
    /\ freq \in [Procs -> Nat]
    /\ tmp \in [Procs -> Bytes]
    /\ sending \in [Procs -> SUBSET Lines]
    /\ asked \in Nat
    /\ rejected \in BOOLEAN

\* entry: init_rtc turns the periodic interrupt on, rtc_open(NULL) does nothing,
\* the lines are unmasked.  The chip starts at its default rate of 1024 Hz.
Init ==
    /\ regs = [A |-> 38, B |-> 66]
    /\ selected = "B"
    /\ periodic = FALSE
    /\ pic = entry_enables(i8259_init)
    /\ RTC_INT_OCCURED = 1
    /\ pc = [p \in Procs |-> "closed"]
    /\ freq = [p \in Procs |-> 0]
    /\ tmp = [p \in Procs |-> 0]
    /\ sending = [p \in Procs |-> {}]
    /\ asked = 1024
    /\ rejected = FALSE

-----------------------------------------------------------------------------
\* The chip: with PIE on it raises its line, and not again before C is read.
\* The controller latches the edge, masked or not.
tick ==
    /\ PIE(regs.B)
    /\ ~periodic
    /\ periodic' = TRUE
    /\ pic' = Raise(pic, RTC_IRQ_LINE)
    /\ UNCHANGED <<regs, selected, RTC_INT_OCCURED, pc, locals, history>>

\* What a handler between its acknowledgement and its return does to the lines.
Handled(c, n) == enable_irq(send_eoi(c, n), n)

\* MUTANT of do_handle_rtc: register C is selected and not read.
do_handle_rtc_unread ==
    /\ CanDeliver(pic, RTC_IRQ_LINE)
    /\ pic' = Handled(disable_irq(Acknowledge(pic, RTC_IRQ_LINE), RTC_IRQ_LINE), RTC_IRQ_LINE)
    /\ selected' = "C"
    /\ RTC_INT_OCCURED' = 0
    /\ UNCHANGED <<regs, periodic, pc, locals, history>>

\* The interrupt handler: masks, selects and reads C, signals, unmasks.
do_handle_rtc ==
    /\ CanDeliver(pic, RTC_IRQ_LINE)
    /\ pic' = Handled(disable_irq(Acknowledge(pic, RTC_IRQ_LINE), RTC_IRQ_LINE), RTC_IRQ_LINE)
    /\ selected' = "C"
    /\ periodic' = FALSE
    /\ RTC_INT_OCCURED' = 0
    /\ UNCHANGED <<regs, pc, locals, history>>

\* The mouse's handler sends the mask of the same chip.
do_handle_mouse ==
    /\ pic' = Handled(Acknowledge(Raise(pic, MOUSE_IRQ), MOUSE_IRQ), MOUSE_IRQ)
    /\ UNCHANGED <<chip, RTC_INT_OCCURED, pc, locals, history>>

-----------------------------------------------------------------------------
Goto(p, l) == pc' = [pc EXCEPT ![p] = l]

\* rtc_open: the descriptor, then disable_irq as far as the variable.
rtc_open(p) ==
    /\ pc[p] \in {"closed", "idle"}
    /\ pic' = Mark(pic, RTC_IRQ_LINE)
    /\ Goto(p, "do")
    /\ UNCHANGED <<chip, RTC_INT_OCCURED, locals, history>>

\* MUTANT of rtc_write: the line is not masked.
rtc_write_unmasked(p, f) ==
    /\ pc[p] = "idle"
    /\ Accepted(f)
    /\ freq' = [freq EXCEPT ![p] = f]
    /\ Goto(p, "w1")
    /\ UNCHANGED <<chip, pic, RTC_INT_OCCURED, tmp, sending, history>>

\* rtc_write: the line is masked before the frequency is looked at.
rtc_write(p, f) ==
    /\ pc[p] = "idle"
    /\ Accepted(f)
    /\ pic' = Mark(pic, RTC_IRQ_LINE)
    /\ freq' = [freq EXCEPT ![p] = f]
    /\ Goto(p, "dw")
    /\ UNCHANGED <<chip, RTC_INT_OCCURED, tmp, sending, history>>

\* The early returns leave it masked.
rtc_write_rejected(p, f) ==
    /\ pc[p] = "idle"
    /\ ~Accepted(f)
    /\ pic' = Mark(pic, RTC_IRQ_LINE)
    /\ asked' = AskedInVain(f)
    /\ rejected' = TRUE
    /\ Goto(p, "r1")
    /\ UNCHANGED <<chip, RTC_INT_OCCURED, locals>>

At(p, op) == pc[p] \in DOMAIN Code /\ Code[pc[p]].op = op
Proceed(p) == Goto(p, Code[pc[p]].next)

\* disable_irq and enable_irq: slave_mask into a register,
fetch(p) ==
    /\ At(p, "fetch")
    /\ sending' = [sending EXCEPT ![p] = pic.mask]
    /\ Proceed(p)
    /\ UNCHANGED <<chip, pic, RTC_INT_OCCURED, freq, tmp, history>>

\* and from there to the chip.
send(p) ==
    /\ At(p, "send")
    /\ pic' = Out(pic, RTC_IRQ_LINE, sending[p])
    /\ sending' = [sending EXCEPT ![p] = {}]
    /\ Proceed(p)
    /\ UNCHANGED <<chip, RTC_INT_OCCURED, freq, tmp, history>>

select(p) ==
    /\ At(p, "select")
    /\ selected' = Code[pc[p]].reg
    /\ Proceed(p)
    /\ UNCHANGED <<regs, periodic, pic, RTC_INT_OCCURED, locals, history>>

\* A read of the data port; reading C acknowledges the interrupt.
load(p) ==
    /\ At(p, "load")
    /\ tmp' = [tmp EXCEPT ![p] = IF selected = "C" THEN (IF periodic THEN 192 ELSE 0)
                                                  ELSE regs[selected]]
    /\ periodic' = (periodic /\ selected # "C")
    /\ Proceed(p)
    /\ UNCHANGED <<regs, selected, pic, RTC_INT_OCCURED, freq, sending, history>>

\* A write of the data port; C is read-only.
store(p) ==
    /\ At(p, "store")
    /\ regs' = IF selected \in {"A", "B"} THEN [regs EXCEPT ![selected] = Sent(p)] ELSE regs
    /\ asked' = CASE pc[p] = "o4" -> asked
                  [] pc[p] = "o8" -> 2
                  [] pc[p] = "w4" -> freq[p]
    /\ Proceed(p)
    /\ UNCHANGED <<selected, periodic, pic, RTC_INT_OCCURED, locals, rejected>>

\* MUTANT of rtc_return: no enable_irq.
rtc_return_masked(p) ==
    /\ pc[p] = "end"
    /\ freq' = [freq EXCEPT ![p] = 0]
    /\ tmp' = [tmp EXCEPT ![p] = 0]
    /\ rejected' = FALSE
    /\ Goto(p, "idle")
    /\ UNCHANGED <<chip, pic, RTC_INT_OCCURED, sending, asked>>

\* enable_irq as far as the variable; it ends the call.
rtc_return(p) ==
    /\ pc[p] = "end"
    /\ pic' = Unmark(pic, RTC_IRQ_LINE)
    /\ freq' = [freq EXCEPT ![p] = 0]
    /\ tmp' = [tmp EXCEPT ![p] = 0]
    /\ rejected' = FALSE
    /\ Goto(p, "e1")
    /\ UNCHANGED <<chip, RTC_INT_OCCURED, sending, asked>>

rtc_read(p) ==
    /\ pc[p] = "idle"
    /\ RTC_INT_OCCURED' = 1
    /\ Goto(p, "spin")
    /\ UNCHANGED <<chip, pic, locals, history>>

rtc_read_return(p) ==
    /\ pc[p] = "spin"
    /\ RTC_INT_OCCURED = 0
    /\ Goto(p, "idle")
    /\ UNCHANGED <<chip, pic, RTC_INT_OCCURED, locals, history>>

rtc_close(p) ==
    /\ pc[p] = "idle"
    /\ Goto(p, "closed")
    /\ UNCHANGED <<chip, pic, RTC_INT_OCCURED, locals, history>>

-----------------------------------------------------------------------------
Enters(p) == \E f \in Frequencies : rtc_write(p, f) \/ rtc_write_rejected(p, f)

Continues(p) == fetch(p) \/ send(p) \/ select(p) \/ load(p) \/ store(p)
                    \/ rtc_return(p) \/ rtc_read_return(p)

Process(p) == rtc_open(p) \/ Enters(p) \/ Continues(p) \/ rtc_read(p) \/ rtc_close(p)

\* Any number of processes use the clock, interleaved in any way.
Spec == Init /\ [][tick \/ do_handle_rtc \/ do_handle_mouse \/ \E p \in Procs : Process(p)]_vars

(***************************************************************************)
(* One process at a time is inside rtc_open or rtc_write, and one at a     *)
(* time waits in rtc_read.  Two inside select each other's registers; two  *)
(* waiting take each other's ticks.                                        *)
(***************************************************************************)
Inside(p) == pc[p] \in DOMAIN Code \cup {"end"}
NobodyInside == \A q \in Procs : ~Inside(q)
NobodyWaits == \A q \in Procs : pc[q] # "spin"

SerialProcess(p) ==
    \/ NobodyInside /\ (rtc_open(p) \/ Enters(p))
    \/ NobodyWaits /\ rtc_read(p)
    \/ Continues(p)
    \/ rtc_close(p)

SerialSpec ==
    Init /\ [][tick \/ do_handle_rtc \/ do_handle_mouse \/ \E p \in Procs : SerialProcess(p)]_vars

\* Moreover, no clock interrupt is delivered while disable_irq has marked the
\* line and not yet told the chip: the handler would take the mark away.
Disabling(p) == pc[p] \in {"do", "po", "dw", "pw", "r1", "r2"}
handle_rtc_in_time == (\A p \in Procs : ~Disabling(p)) /\ do_handle_rtc

TimelyNext ==
    tick \/ handle_rtc_in_time \/ do_handle_mouse \/ \E p \in Procs : SerialProcess(p)

\* The chip ticks; a latched request is delivered once the line is unmasked
\* often enough; the scheduler lets every process go on.
Fairness ==
    /\ WF_vars(tick)
    /\ SF_vars(handle_rtc_in_time)
    /\ \A p \in Procs : WF_vars(Continues(p))

TimelySpec == Init /\ [][TimelyNext]_vars /\ Fairness

-----------------------------------------------------------------------------
\* While no process is in rtc_open or rtc_write the chip has the mask the driver
\* thinks it has and the line is unmasked, so the next interrupt reaches whoever
\* waits for it.  The early returns of rtc_write are the one exception: they
\* leave it masked until the next success.
LineOpen ==
    NobodyInside => /\ (RTC_IRQ_LINE \in pic.imr) = rejected
                    /\ pic.imr = pic.mask

\* Then, too, the chip's periodic interrupt is on, and it runs at the frequency
\* last asked for, by rtc_open or rtc_write, if that fits the one byte rtc_write
\* looks at.  Of others it sets another rate (260 counts as 4), or refuses them
\* although they are legal (256, 512, 1024).
RateHonoured ==
    NobodyInside => /\ PIE(regs.B)
                    /\ asked < 256 => ProgrammedFrequency = asked

\* The byte rtc_open or rtc_write sends reaches the register it was made for,
\* although the handler selects a register too.
StoreHitsRegister == \A p \in Procs : At(p, "store") => selected = Meant(p)

\* rtc_read comes back, however often another process reprograms the clock,
\* unless a rejected rtc_write masks the line.
ReadReturns == \A p \in Procs : pc[p] = "spin" ~> (pc[p] = "idle" \/ rejected)
=============================================================================
