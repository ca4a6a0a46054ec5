----------------------------- MODULE MCDevices -----------------------------
(* Instances of Mouse and of Rtc for TLC.  The two drivers share only the    *)
(* slave controller's mask, of which each module has what the other does to  *)
(* it, so a behaviour is one of either: part says of which.                  *)
EXTENDS Mouse

CONSTANTS Procs, Frequencies

ASSUME FrequenciesAssumption == Frequencies \subseteq Nat

VARIABLES
    part,
    regs, selected_reg, periodic, clock_pic, RTC_INT_OCCURED, at, freq, tmp, sending,
    asked, rejected

clock == <<regs, selected_reg, periodic, clock_pic, RTC_INT_OCCURED, at, freq, tmp, sending,
           asked, rejected>>

Clock == INSTANCE Rtc WITH selected <- selected_reg, pic <- clock_pic, pc <- at

DevicesInit == part \in {"mouse", "clock"} /\ Init /\ Clock!Init

MouseStep == part = "mouse" /\ Next /\ UNCHANGED <<part, clock>>
ClockStep == part = "clock" /\ Clock!TimelyNext /\ UNCHANGED <<part, vars>>

DevicesNext == MouseStep \/ ClockStep
all == <<part, vars, clock>>

\* Mouse!Fairness for a behaviour of the mouse and Rtc!Fairness for one of the
\* clock: the actions of the other are not enabled in it.
MouseFairness ==
    /\ WF_vars(part = "mouse" /\ Boots)
    /\ WF_vars(part = "mouse" /\ Delivers)
    /\ WF_vars(part = "mouse" /\ Handlers)
    /\ WF_vars(part = "mouse" /\ acknowledge("keyboard"))
    /\ WF_vars(part = "mouse" /\ acknowledge("mouse"))

ClockFairness ==
    /\ WF_clock(part = "clock" /\ Clock!tick)
    /\ SF_clock(part = "clock" /\ Clock!handle_rtc_in_time)
    /\ \A p \in Procs : WF_clock(part = "clock" /\ Clock!Continues(p))

DevicesSpec == DevicesInit /\ [][DevicesNext]_all /\ MouseFairness /\ ClockFairness

\* Right and down, left and up, too little to move, and one movement too large,
\* in one direction for eight bits and in the other for nine.
MCMovements == {<<4, -7>>, <<-5, 4>>, <<-3, 0>>, <<160, 300>>}

-----------------------------------------------------------------------------
\* The types of both drivers' states: the pointer stays on the screen.
TypesOK == TypeOK /\ Clock!TypeOK

\* See Rtc: the line is open unless a write was rejected; the rate is the one
\* last asked for, if below 256 Hz; a store reaches its register; rtc_read
\* comes back.
LineOpen == Clock!LineOpen
RateHonoured == Clock!RateHonoured
StoreHitsRegister == Clock!StoreHitsRegister
ReadReturns == Clock!ReadReturns
=============================================================================
