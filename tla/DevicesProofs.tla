--------------------------- MODULE DevicesProofs ---------------------------
(***************************************************************************)
(* The mouse and the clock together, for every screen that fits a signed   *)
(* byte, every movement and every number of terminals, processes and       *)
(* frequencies: bytes from the mouse never get out of step, the pointer    *)
(* goes where the movements lead, and while one process at a time          *)
(* reprograms the clock, a rate asked for that fits a byte is the rate set.*)
(***************************************************************************)
EXTENDS MCDevices, TLAPS, SequenceTheorems

-----------------------------------------------------------------------------
(* The interrupt controllers and the real-time clock: while one process at a *)
(* time reprograms the clock, and no interrupt falls between its marking of  *)
(* the line and the byte that masks it, the line is open and a rate that     *)
(* fits the byte rtc_write looks at is set.                                  *)

\* Labels of a call that has masked the clock's line on the chip, and of one
\* that has only changed the mask variable.
Held == {"o1", "o2", "o3", "o4", "o5", "o6", "o7", "o8", "w1", "w2", "w3", "w4", "end"}
Marked == {"do", "po", "dw", "pw", "r1", "r2"}

\* Variables and chips differ in the clock's line only, and only in a call; between
\* calls it is masked exactly if the last write was rejected.
MaskOK ==
  /\ 12 \notin clock_pic.mask
  /\ clock_pic.imr \ {8} = clock_pic.mask \ {8}
  /\ Clock!NobodyInside => clock_pic.imr = clock_pic.mask /\ (8 \in clock_pic.mask <=> rejected)

\* One process at a time reprograms the clock.
OneInside == \A p, q \in Procs : Clock!Inside(p) /\ Clock!Inside(q) => p = q

\* What the process inside knows of the line, the byte it sends and the last write.
LineOK(p) ==
  /\ at[p] \in Marked \cup Held => 8 \in clock_pic.mask
  /\ at[p] \in Held => 8 \in clock_pic.imr
  /\ at[p] \in {"po", "pw", "r2", "e2"} => sending[p] = clock_pic.mask
  /\ at[p] \in {"r1", "r2"} => rejected
  /\ at[p] \in {"e1", "e2"} => 8 \notin clock_pic.mask /\ ~rejected

\* It is at the register it means, with the byte it has read there.
RegisterOK(p) ==
  /\ at[p] \in {"o2", "o4"} => selected_reg = "B"
  /\ at[p] \in {"o6", "o8", "w2", "w4"} => selected_reg = "A"
  /\ at[p] \in {"o3", "o4"} => tmp[p] = regs.B
  /\ at[p] \in {"o7", "o8", "w3", "w4"} => tmp[p] = regs.A
  /\ at[p] \in {"dw", "pw", "w1", "w2", "w3", "w4"} =>
       Clock!FirstByte(freq[p]) \in {2, 4, 8, 16, 32, 64, 128}

\* The clock does interrupt, at the rate last asked for if that fits a byte.
ChipOK == Clock!PIE(regs.B) /\ (asked < 256 => Clock!ProgrammedFrequency = asked)

ClockInv ==
  /\ Clock!TypeOK
  /\ MaskOK
  /\ OneInside
  /\ ChipOK
  /\ \A p \in Procs : LineOK(p) /\ RegisterOK(p)

\* The labels the code table of the clock's driver has.
LEMMA CodeLabels ==
  DOMAIN Clock!Code = {"do", "po", "o1", "o2", "o3", "o4", "o5", "o6", "o7", "o8",
                       "dw", "pw", "w1", "w2", "w3", "w4", "e1", "e2", "r1", "r2"}
BY DEF Clock!Code

\* Between its first disable_irq and its last port access a process is inside.
LEMMA InsideIs ==
  ASSUME NEW p
  PROVE  Clock!Inside(p) <=> at[p] \in Marked \cup Held \cup {"e1", "e2"}
BY CodeLabels DEF Clock!Inside, Marked, Held

\* All labels of a process.
LEMMA LabelsAre == Clock!Labels = Marked \cup Held \cup {"e1", "e2", "idle", "closed", "spin"}
BY CodeLabels DEF Clock!Labels, Marked, Held

\* Where disable_irq and enable_irq read the mask variable.
LEMMA FetchAt ==
  ASSUME NEW p, Clock!At(p, "fetch")
  PROVE  \/ at[p] = "do" /\ Clock!Code[at[p]].next = "po"
         \/ at[p] = "dw" /\ Clock!Code[at[p]].next = "pw"
         \/ at[p] = "e1" /\ Clock!Code[at[p]].next = "e2"
         \/ at[p] = "r1" /\ Clock!Code[at[p]].next = "r2"
BY CodeLabels DEF Clock!At, Clock!Code

\* Where disable_irq and enable_irq write to the controller.
LEMMA SendAt ==
  ASSUME NEW p, Clock!At(p, "send")
  PROVE  \/ at[p] = "po" /\ Clock!Code[at[p]].next = "o1"
         \/ at[p] = "pw" /\ Clock!Code[at[p]].next = "w1"
         \/ at[p] = "e2" /\ Clock!Code[at[p]].next = "idle"
         \/ at[p] = "r2" /\ Clock!Code[at[p]].next = "idle"
BY CodeLabels DEF Clock!At, Clock!Code

\* Where the drivers select a register of the clock.
LEMMA SelectAt ==
  ASSUME NEW p, Clock!At(p, "select")
  PROVE  \/ at[p] = "o1" /\ Clock!Code[at[p]].next = "o2" /\ Clock!Code[at[p]].reg = "B"
         \/ at[p] = "o3" /\ Clock!Code[at[p]].next = "o4" /\ Clock!Code[at[p]].reg = "B"
         \/ at[p] = "o5" /\ Clock!Code[at[p]].next = "o6" /\ Clock!Code[at[p]].reg = "A"
         \/ at[p] = "o7" /\ Clock!Code[at[p]].next = "o8" /\ Clock!Code[at[p]].reg = "A"
         \/ at[p] = "w1" /\ Clock!Code[at[p]].next = "w2" /\ Clock!Code[at[p]].reg = "A"
         \/ at[p] = "w3" /\ Clock!Code[at[p]].next = "w4" /\ Clock!Code[at[p]].reg = "A"
BY CodeLabels DEF Clock!At, Clock!Code

\* Where they read it.
LEMMA LoadAt ==
  ASSUME NEW p, Clock!At(p, "load")
  PROVE  \/ at[p] = "o2" /\ Clock!Code[at[p]].next = "o3"
         \/ at[p] = "o6" /\ Clock!Code[at[p]].next = "o7"
         \/ at[p] = "w2" /\ Clock!Code[at[p]].next = "w3"
BY CodeLabels DEF Clock!At, Clock!Code

\* Where they write it.
LEMMA StoreAt ==
  ASSUME NEW p, Clock!At(p, "store")
  PROVE  \/ at[p] = "o4" /\ Clock!Code[at[p]].next = "o5"
         \/ at[p] = "o8" /\ Clock!Code[at[p]].next = "end"
         \/ at[p] = "w4" /\ Clock!Code[at[p]].next = "end"
BY CodeLabels DEF Clock!At, Clock!Code

\* Bytes of the registers
LEMMA RateBytes ==
  ASSUME NEW b \in 0 .. 255
  PROVE  /\ Clock!SetPIE(b) \in 0 .. 255 /\ Clock!PIE(Clock!SetPIE(b))
         /\ Clock!SetLowFour(b) \in 0 .. 255 /\ Clock!LowFour(Clock!SetLowFour(b)) = 15
         /\ \A r \in 0 .. 15 : /\ Clock!WithRate(b, r) \in 0 .. 255
                               /\ Clock!LowFour(Clock!WithRate(b, r)) = r
<1>1. Clock!SetPIE(b) \in 0 .. 255 /\ Clock!PIE(Clock!SetPIE(b))
  BY DEF Clock!SetPIE, Clock!PIE
<1>2. b % 16 \in 0 .. 15 /\ (b - (b % 16)) % 16 = 0 /\ b - (b % 16) \in 0 .. 240
  OBVIOUS
<1>3. \A r \in 0 .. 15 : (b - (b % 16) + r) \in 0 .. 255 /\ (b - (b % 16) + r) % 16 = r
  BY <1>2
<1>4. QED
  BY <1>1, <1>3 DEF Clock!SetLowFour, Clock!LowFour, Clock!WithRate

\* Every frequency rtc_write accepts is the one its rate stands for.
LEMMA RateOfFrequency ==
  ASSUME NEW f \in {2, 4, 8, 16, 32, 64, 128}
  PROVE  Clock!Rate(f) \in 9 .. 15 /\ 2 ^ (16 - Clock!Rate(f)) = f
<1>1. \E i \in 1 .. 10 : 2 ^ i = f
  <2>1. 2 ^ 1 = 2 /\ 2 ^ 2 = 4 /\ 2 ^ 3 = 8 /\ 2 ^ 4 = 16 /\ 2 ^ 5 = 32 /\ 2 ^ 6 = 64 /\ 2 ^ 7 = 128
    OBVIOUS
  <2>2. QED
    BY <2>1
<1>2. Clock!Log2(f) \in 1 .. 10 /\ 2 ^ Clock!Log2(f) = f
  BY <1>1 DEF Clock!Log2
<1>3. 2 ^ 8 = 256 /\ 2 ^ 9 = 512 /\ 2 ^ 10 = 1024
  OBVIOUS
<1>4. Clock!Log2(f) # 8 /\ Clock!Log2(f) # 9 /\ Clock!Log2(f) # 10
  <2>1. ASSUME Clock!Log2(f) = 8 PROVE FALSE
    <3>1. 2 ^ 8 = f
      BY <1>2, <2>1
    <3>2. QED
      BY <1>3, <3>1
  <2>2. ASSUME Clock!Log2(f) = 9 PROVE FALSE
    <3>1. 2 ^ 9 = f
      BY <1>2, <2>2
    <3>2. QED
      BY <1>3, <3>1
  <2>3. ASSUME Clock!Log2(f) = 10 PROVE FALSE
    <3>1. 2 ^ 10 = f
      BY <1>2, <2>3
    <3>2. QED
      BY <1>3, <3>1
  <2>4. QED
    BY <2>1, <2>2, <2>3
<1>5. Clock!Log2(f) \in 1 .. 7
  BY <1>2, <1>4
<1>6. Clock!Rate(f) = 16 - Clock!Log2(f)
  BY DEF Clock!Rate, Clock!LOG_FREQ_OFFSET
<1>7. 16 - Clock!Rate(f) = Clock!Log2(f)
  BY <1>5, <1>6
<1>8. QED
  BY <1>2, <1>5, <1>6, <1>7

\* The clock's instance of module Pic is the one the mouse uses.
LEMMA SamePic ==
  /\ Clock!Pairs = Pairs /\ Clock!Lines = Lines /\ Clock!i8259_init = i8259_init
  /\ \A c, n : /\ Clock!Mark(c, n) = Mark(c, n)
               /\ Clock!Unmark(c, n) = Unmark(c, n)
               /\ Clock!Raise(c, n) = Raise(c, n)
               /\ Clock!Acknowledge(c, n) = Acknowledge(c, n)
               /\ Clock!enable_irq(c, n) = enable_irq(c, n)
               /\ Clock!disable_irq(c, n) = disable_irq(c, n)
               /\ Clock!send_eoi(c, n) = send_eoi(c, n)
               /\ \A v : Clock!Out(c, n, v) = Out(c, n, v)
  /\ \A c : Clock!entry_enables(c) = entry_enables(c)
<1>1. /\ Clock!Pairs = Pairs /\ Clock!Lines = Lines /\ Clock!Slave = Slave
      /\ Clock!SLAVE_IRQ = SLAVE_IRQ /\ Clock!i8259_init = i8259_init
  BY DEF Clock!Pairs, Pairs, Clock!Lines, Lines, Clock!Slave, Slave, Clock!SLAVE_IRQ, SLAVE_IRQ,
         Clock!i8259_init, i8259_init
<1>2. \A c, n : /\ Clock!Mark(c, n) = Mark(c, n) /\ Clock!Unmark(c, n) = Unmark(c, n)
               /\ Clock!Raise(c, n) = Raise(c, n) /\ Clock!Acknowledge(c, n) = Acknowledge(c, n)
  BY <1>1
     DEF Clock!Mark, Mark, Clock!Unmark, Unmark, Clock!Raise, Raise, Clock!Acknowledge, Acknowledge
<1>3. \A c, n, v : Clock!Out(c, n, v) = Out(c, n, v)
  BY <1>1 DEF Clock!Out, Out, Clock!Half, Half
<1>4. \A c, n : /\ Clock!enable_irq(c, n) = enable_irq(c, n)
               /\ Clock!disable_irq(c, n) = disable_irq(c, n)
  BY <1>2, <1>3 DEF Clock!enable_irq, enable_irq, Clock!disable_irq, disable_irq
<1>5. \A c, n : Clock!send_eoi(c, n) = send_eoi(c, n)
  BY <1>1, <1>4 DEF Clock!send_eoi, send_eoi
<1>6. \A c : Clock!entry_enables(c) = entry_enables(c)
  BY <1>1, <1>4 DEF Clock!entry_enables, entry_enables
<1>7. QED
  BY <1>1, <1>2, <1>3, <1>4, <1>5, <1>6

\* The chips' fields after each operation on line n.
LEMMA PicFields ==
  ASSUME NEW c \in Pairs, NEW n \in Lines
  PROVE  /\ Mark(c, n) \in Pairs /\ Mark(c, n).mask = c.mask \cup {n} /\ Mark(c, n).imr = c.imr
         /\ Unmark(c, n) \in Pairs /\ Unmark(c, n).mask = c.mask \ {n} /\ Unmark(c, n).imr = c.imr
         /\ Mark(c, n).irr = c.irr /\ Mark(c, n).in_service = c.in_service
         /\ Unmark(c, n).irr = c.irr /\ Unmark(c, n).in_service = c.in_service
         /\ Raise(c, n) \in Pairs /\ Raise(c, n).mask = c.mask /\ Raise(c, n).imr = c.imr
         /\ Raise(c, n).irr = c.irr \cup {n} /\ Raise(c, n).in_service = c.in_service
BY DEF Mark, Unmark, Raise, Pairs, Lines

\* The byte an outb sends sets the masks of one of the two chips.
LEMMA OutFields ==
  ASSUME NEW c \in Pairs, NEW n \in Lines, NEW v \in SUBSET Lines
  PROVE  /\ Out(c, n, v) \in Pairs
         /\ Out(c, n, v).mask = c.mask
         /\ Out(c, n, v).imr = (c.imr \ Half(n)) \cup (v \cap Half(n))
         /\ Out(c, n, v).irr = c.irr
         /\ Out(c, n, v).in_service = c.in_service
BY DEF Out, Pairs

\* enable_irq opens line n and leaves requests alone.
LEMMA EnableFields ==
  ASSUME NEW c \in Pairs, NEW n \in Lines, NEW d, d = enable_irq(c, n)
  PROVE  /\ d \in Pairs
         /\ d.mask = c.mask \ {n}
         /\ d.imr = (c.imr \ Half(n)) \cup (d.mask \cap Half(n))
         /\ d.irr = c.irr
         /\ d.in_service = c.in_service
<1>1. Unmark(c, n) \in Pairs /\ Unmark(c, n).mask \in SUBSET Lines
  BY PicFields DEF Pairs
<1>2. d = Out(Unmark(c, n), n, Unmark(c, n).mask)
  BY DEF enable_irq
<1> DEFINE e == Unmark(c, n)
<1>3. /\ e \in Pairs /\ e.mask = c.mask \ {n} /\ e.imr = c.imr
      /\ e.irr = c.irr /\ e.in_service = c.in_service
  BY PicFields
<1> HIDE DEF e
<1>4. d = Out(e, n, e.mask) /\ e.mask \in SUBSET Lines
  BY <1>1, <1>2 DEF e
<1>5. QED
  BY <1>3, <1>4, OutFields

\* disable_irq masks line n and leaves requests alone.
LEMMA DisableFields ==
  ASSUME NEW c \in Pairs, NEW n \in Lines, NEW d, d = disable_irq(c, n)
  PROVE  /\ d \in Pairs
         /\ d.mask = c.mask \cup {n}
         /\ d.imr = (c.imr \ Half(n)) \cup (d.mask \cap Half(n))
         /\ d.irr = c.irr
         /\ d.in_service = c.in_service
<1>1. Mark(c, n) \in Pairs /\ Mark(c, n).mask \in SUBSET Lines
  BY PicFields DEF Pairs
<1>2. d = Out(Mark(c, n), n, Mark(c, n).mask)
  BY DEF disable_irq
<1> DEFINE e == Mark(c, n)
<1>3. /\ e \in Pairs /\ e.mask = c.mask \cup {n} /\ e.imr = c.imr
      /\ e.irr = c.irr /\ e.in_service = c.in_service
  BY PicFields
<1> HIDE DEF e
<1>4. d = Out(e, n, e.mask) /\ e.mask \in SUBSET Lines
  BY <1>1, <1>2 DEF e
<1>5. QED
  BY <1>3, <1>4, OutFields

\* The lines an end of interrupt for line n ends.
Ended(n) == IF n \in Slave THEN {n, SLAVE_IRQ} ELSE {n}

\* send_eoi ends line n, and line 2 for a line of the second chip, and masks n.
LEMMA EoiFields ==
  ASSUME NEW c \in Pairs, NEW n \in Lines, NEW d, d = send_eoi(c, n)
  PROVE  /\ d \in Pairs
         /\ d.mask = c.mask \cup {n}
         /\ d.imr = (c.imr \ Half(n)) \cup (d.mask \cap Half(n))
         /\ d.irr = c.irr
         /\ d.in_service = c.in_service \ Ended(n)
<1> DEFINE e == disable_irq(c, n)
<1>1. /\ e \in Pairs /\ e.mask = c.mask \cup {n} /\ e.irr = c.irr /\ e.in_service = c.in_service
      /\ e.imr = (c.imr \ Half(n)) \cup (e.mask \cap Half(n))
  BY DisableFields
<1>2. d = [e EXCEPT !.in_service = @ \ Ended(n)]
  BY DEF send_eoi, Ended
<1> HIDE DEF e
<1>3. QED
  BY <1>1, <1>2 DEF Pairs

\* An acknowledgement moves a request into service.
LEMMA AckFields ==
  ASSUME NEW c \in Pairs, NEW n \in Lines, NEW d, d = Acknowledge(c, n)
  PROVE  /\ d \in Pairs
         /\ d.mask = c.mask
         /\ d.imr = c.imr
         /\ d.irr = c.irr \ {n}
         /\ d.in_service = c.in_service \cup Ended(n)
<1>1. Ended(n) \subseteq Lines
  BY DEF Ended, Lines, SLAVE_IRQ
<1>2. d = [c EXCEPT !.irr = @ \ {n}, !.in_service = @ \cup Ended(n)]
  BY DEF Acknowledge, Ended
<1>3. QED
  BY <1>1, <1>2 DEF Pairs

\* What a handler between its acknowledgement and its return does to the lines.
LEMMA HandledFields ==
  ASSUME NEW c \in Pairs, NEW n \in Lines, NEW d, d = enable_irq(send_eoi(c, n), n)
  PROVE  /\ d \in Pairs
         /\ d.mask = c.mask \ {n}
         /\ d.imr = (c.imr \ Half(n)) \cup (d.mask \cap Half(n))
         /\ d.irr = c.irr
         /\ d.in_service = c.in_service \ Ended(n)
<1> DEFINE e == send_eoi(c, n)
<1>1. /\ e \in Pairs /\ e.mask = c.mask \cup {n} /\ e.irr = c.irr
      /\ e.in_service = c.in_service \ Ended(n)
      /\ e.imr = (c.imr \ Half(n)) \cup (e.mask \cap Half(n))
  BY EoiFields
<1> HIDE DEF e
<1>2. d = enable_irq(e, n)
  BY DEF e
<1>3. QED
  BY <1>1, <1>2, EnableFields

\* The lines whose mask goes out with that of line 8, 12 or 1.
LEMMA Halves == Half(8) = 8 .. 15 /\ Half(12) = 8 .. 15 /\ Half(1) = 0 .. 7
BY DEF Half, Lines, Slave

\* entry() opens five lines, and after it the chips have the masks of the variables.
LEMMA EntryFields ==
  ASSUME NEW c \in Pairs, NEW d, d = entry_enables(c), c.mask = c.imr
  PROVE  /\ d \in Pairs
         /\ d.mask = c.mask \ {0, 1, 2, 8, 12} /\ d.imr = d.mask
         /\ d.irr = c.irr
         /\ d.in_service = c.in_service
<1> DEFINE Like(e, S) == /\ e \in Pairs /\ e.mask = c.mask \ S /\ e.imr = e.mask
                         /\ e.irr = c.irr /\ e.in_service = c.in_service
<1>1. ASSUME NEW e, NEW S, NEW n \in Lines, Like(e, S)
      PROVE  Like(enable_irq(e, n), S \cup {n})
  <2> DEFINE d1 == enable_irq(e, n)
  <2>1. /\ d1 \in Pairs /\ d1.mask = e.mask \ {n} /\ d1.irr = e.irr /\ d1.in_service = e.in_service
        /\ d1.imr = (e.imr \ Half(n)) \cup (d1.mask \cap Half(n))
    BY <1>1, EnableFields
  <2> HIDE DEF d1
  <2>2. n \in Half(n)
    BY DEF Half, Lines
  <2>3. Like(d1, S \cup {n})
    BY <1>1, <2>1, <2>2
  <2>4. QED
    BY <2>3 DEF d1
<1>2. Like(c, {})
  OBVIOUS
<1> HIDE DEF Like
<1>3. 1 \in Lines /\ 2 \in Lines /\ 8 \in Lines /\ 12 \in Lines /\ 0 \in Lines
  BY DEF Lines
<1>4. Like(enable_irq(c, 1), {} \cup {1})
  BY <1>1, <1>2, <1>3
<1>5. Like(enable_irq(enable_irq(c, 1), 2), {} \cup {1} \cup {2})
  BY <1>1, <1>3, <1>4
<1>6. Like(enable_irq(enable_irq(enable_irq(c, 1), 2), 8), {} \cup {1} \cup {2} \cup {8})
  BY <1>1, <1>3, <1>5
<1>7. Like(enable_irq(enable_irq(enable_irq(enable_irq(c, 1), 2), 8), 12),
           {} \cup {1} \cup {2} \cup {8} \cup {12})
  BY <1>1, <1>3, <1>6
<1>8. Like(d, {} \cup {1} \cup {2} \cup {8} \cup {12} \cup {0})
  BY <1>1, <1>3, <1>7 DEF entry_enables, SLAVE_IRQ
<1>9. QED
  BY <1>8 DEF Like

\* The same for the clock's handler and for the mouse's as module Rtc has them.
LEMMA ClockHandled ==
  ASSUME NEW c \in Pairs, NEW d,
         d = Clock!Handled(Clock!disable_irq(Clock!Acknowledge(c, 8), 8), 8)
  PROVE  /\ d \in Pairs
         /\ d.mask = c.mask \ {8}
         /\ d.imr = (c.imr \ (8 .. 15)) \cup (d.mask \cap (8 .. 15))
<1> DEFINE a == Acknowledge(c, 8)
           e == disable_irq(a, 8)
<1>1. 8 \in Lines
  BY DEF Lines
<1>2. a \in Pairs /\ a.mask = c.mask /\ a.imr = c.imr
  BY <1>1, AckFields
<1> HIDE DEF a
<1>3. e \in Pairs /\ e.mask = c.mask \cup {8} /\ e.imr = (c.imr \ Half(8)) \cup (e.mask \cap Half(8))
  BY <1>1, <1>2, DisableFields
<1> HIDE DEF e
<1>4. d = enable_irq(send_eoi(e, 8), 8)
  BY SamePic DEF Clock!Handled, a, e
<1>5. QED
  BY <1>1, <1>3, <1>4, HandledFields, Halves

\* The mouse's handler, from the latch of its request to its return.
LEMMA MouseHandled ==
  ASSUME NEW c \in Pairs, NEW d,
         d = Clock!Handled(Clock!Acknowledge(Clock!Raise(c, 12), 12), 12)
  PROVE  /\ d \in Pairs
         /\ d.mask = c.mask \ {12}
         /\ d.imr = (c.imr \ (8 .. 15)) \cup (d.mask \cap (8 .. 15))
<1> DEFINE a == Raise(c, 12)
           e == Acknowledge(a, 12)
<1>1. 12 \in Lines
  BY DEF Lines
<1>2. a \in Pairs /\ a.mask = c.mask /\ a.imr = c.imr
  BY <1>1, PicFields
<1> HIDE DEF a
<1>3. e \in Pairs /\ e.mask = c.mask /\ e.imr = c.imr
  BY <1>1, <1>2, AckFields
<1> HIDE DEF e
<1>4. d = enable_irq(send_eoi(e, 12), 12)
  BY SamePic DEF Clock!Handled, a, e
<1>5. QED
  BY <1>1, <1>3, <1>4, HandledFields, Halves

\* After entry() the clock is as init_rtc has left it and its line is open.
LEMMA ClockBegins == Clock!Init => ClockInv
<1> SUFFICES ASSUME Clock!Init PROVE ClockInv
  OBVIOUS
<1>1. /\ clock_pic \in Clock!Pairs /\ 12 \notin clock_pic.mask /\ 8 \notin clock_pic.mask
      /\ clock_pic.imr = clock_pic.mask
  <2>1. i8259_init \in Pairs /\ i8259_init.mask = i8259_init.imr
    BY DEF i8259_init, Pairs
  <2>2. QED
    BY <2>1, SamePic, EntryFields DEF Clock!Init
<1>2. \A p \in Procs : at[p] = "closed"
  BY DEF Clock!Init
<1>3. Clock!TypeOK
  <2>1. regs \in [{"A", "B"} -> 0 .. 255]
    BY DEF Clock!Init
  <2>2. at \in [Procs -> Clock!Labels]
    BY LabelsAre DEF Clock!Init
  <2>3. /\ freq \in [Procs -> Nat] /\ tmp \in [Procs -> 0 .. 255]
        /\ sending \in [Procs -> SUBSET Clock!Lines]
    BY DEF Clock!Init
  <2>4. /\ selected_reg = "B" /\ periodic = FALSE /\ RTC_INT_OCCURED = 1
        /\ asked = 1024 /\ rejected = FALSE
    BY DEF Clock!Init
  <2>5. /\ selected_reg \in {"A", "B", "C"} /\ periodic \in BOOLEAN /\ RTC_INT_OCCURED \in {0, 1}
        /\ asked \in Nat /\ rejected \in BOOLEAN
    <3>1. periodic \in BOOLEAN /\ rejected \in BOOLEAN
      BY <2>4, Zenon
    <3>2. selected_reg \in {"A", "B", "C"} /\ RTC_INT_OCCURED \in {0, 1} /\ asked \in Nat
      BY <2>4
    <3>3. QED
      BY <3>1, <3>2
  <2>6. QED
    BY Zenon, <1>1, <2>1, <2>2, <2>3, <2>5 DEF Clock!TypeOK, Clock!Bytes
<1>4. ChipOK
  <2>1. 2 ^ 10 = 1024
    OBVIOUS
  <2>2. QED
    BY <2>1 DEF Clock!Init, ChipOK, Clock!ProgrammedFrequency, Clock!PIE, Clock!LowFour,
                Clock!LOG_FREQ_OFFSET
<1>5. rejected = FALSE
  BY DEF Clock!Init
<1>6. \A p \in Procs : ~Clock!Inside(p) /\ LineOK(p) /\ RegisterOK(p)
  BY <1>2, InsideIs DEF LineOK, RegisterOK, Marked, Held
<1>7. MaskOK
  BY <1>1, <1>5 DEF MaskOK
<1>8. QED
  BY <1>3, <1>4, <1>6, <1>7 DEF ClockInv, OneInside

\* No clock interrupt while a call is between its marking and its unmarking:
\* the line is masked on the chip, or the call has just marked it.
LEMMA InTime ==
  ASSUME ClockInv, Clock!handle_rtc_in_time
  PROVE  8 \notin clock_pic.imr /\ \A p \in Procs : at[p] \notin Marked \cup Held
BY DEF ClockInv, LineOK, Clock!handle_rtc_in_time, Clock!do_handle_rtc, Clock!CanDeliver,
   Clock!Waiting,
       Clock!RTC_IRQ_LINE, Clock!Disabling, Marked, Held

\* A tick of the clock latches a request and changes no mask.
LEMMA ClockTicks ==
  ASSUME ClockInv, Clock!tick
  PROVE  ClockInv'
<1>1. clock_pic' \in Clock!Pairs /\ clock_pic'.mask = clock_pic.mask /\ clock_pic'.imr = clock_pic.imr
  BY SamePic, PicFields DEF Lines, ClockInv, Clock!TypeOK, Clock!tick, Clock!RTC_IRQ_LINE
<1>2. QED
  BY <1>1 DEF ClockInv, Clock!tick, Clock!TypeOK, MaskOK, OneInside, ChipOK, LineOK, RegisterOK,
     Clock!ProgrammedFrequency, Clock!NobodyInside, Clock!Inside, Clock!locals, Clock!history

\* An interrupt of the clock comes only while the line is open, and leaves it open.
LEMMA ClockInterrupts ==
  ASSUME ClockInv, Clock!handle_rtc_in_time
  PROVE  ClockInv'
<1>1. clock_pic \in Pairs
  BY SamePic DEF ClockInv, Clock!TypeOK
<1>2. /\ clock_pic' \in Pairs /\ clock_pic'.mask = clock_pic.mask \ {8}
      /\ clock_pic'.imr = (clock_pic.imr \ (8 .. 15)) \cup (clock_pic'.mask \cap (8 .. 15))
  BY <1>1, ClockHandled DEF Clock!handle_rtc_in_time, Clock!do_handle_rtc, Clock!RTC_IRQ_LINE
<1> DEFINE unmoved == <<regs, at, freq, tmp, sending, asked, rejected>>
<1>3. unmoved' = unmoved /\ RTC_INT_OCCURED' = 0 /\ selected_reg' = "C" /\ periodic' = FALSE
  BY DEF Clock!handle_rtc_in_time, Clock!do_handle_rtc, Clock!locals, Clock!history
<1>4. Clock!TypeOK'
  BY <1>2, <1>3, SamePic DEF ClockInv, Clock!TypeOK
<1>5. clock_pic.imr \subseteq 0 .. 15 /\ clock_pic.mask \subseteq 0 .. 15
  BY <1>1 DEF Pairs, Lines
<1>6. 8 \notin clock_pic.mask => clock_pic'.mask = clock_pic.mask /\ clock_pic'.imr = clock_pic.imr
  BY <1>2, <1>5, InTime DEF ClockInv, MaskOK
<1>7. 8 \in clock_pic.mask => ~Clock!NobodyInside
  BY InTime DEF ClockInv, MaskOK
<1>8. \A p \in Procs : at[p] \in {"e1", "e2"} => 8 \notin clock_pic.mask
  BY DEF ClockInv, LineOK
<1>9. 8 \notin clock_pic.mask
  BY <1>7, <1>8, InsideIs, InTime DEF Clock!NobodyInside
<1>10. QED
  BY <1>3, <1>4, <1>6, <1>9
     DEF ClockInv, MaskOK, OneInside, ChipOK, LineOK, RegisterOK, Marked, Held,
     Clock!ProgrammedFrequency, Clock!NobodyInside, Clock!Inside

\* The mouse's handler sends its mask with the bit of the clock's line in it.
LEMMA MouseInterrupts ==
  ASSUME ClockInv, Clock!do_handle_mouse
  PROVE  ClockInv'
<1>1. clock_pic \in Pairs /\ clock_pic.imr \subseteq 0 .. 15 /\ clock_pic.mask \subseteq 0 .. 15
  BY SamePic DEF ClockInv, Clock!TypeOK, Pairs, Lines
<1>2. /\ clock_pic' \in Pairs /\ clock_pic'.mask = clock_pic.mask \ {12}
      /\ clock_pic'.imr = (clock_pic.imr \ (8 .. 15)) \cup (clock_pic'.mask \cap (8 .. 15))
  BY <1>1, MouseHandled DEF Clock!do_handle_mouse, Clock!MOUSE_IRQ
<1> DEFINE unmoved == <<regs, selected_reg, periodic, RTC_INT_OCCURED, at, freq, tmp, sending,
                        asked, rejected>>
<1>3. unmoved' = unmoved
  BY DEF Clock!do_handle_mouse, Clock!locals, Clock!history, Clock!chip
<1>4. Clock!TypeOK'
  BY <1>2, <1>3, SamePic DEF ClockInv, Clock!TypeOK
<1>5. clock_pic'.mask = clock_pic.mask /\ clock_pic'.imr \ {8} = clock_pic.imr \ {8}
  BY <1>1, <1>2 DEF ClockInv, MaskOK
<1>6. 8 \in clock_pic.mask => 8 \in clock_pic'.imr
  BY <1>1, <1>2, <1>5
<1>7. Clock!NobodyInside => clock_pic'.imr = clock_pic.imr
  BY <1>1, <1>2, <1>5, <1>6 DEF ClockInv, MaskOK
<1>8. QED
  BY <1>3, <1>4, <1>5, <1>6, <1>7
     DEF ClockInv, MaskOK, OneInside, ChipOK, LineOK, RegisterOK, Marked, Held,
     Clock!ProgrammedFrequency, Clock!NobodyInside, Clock!Inside

\* A step of the one process that is inside, or of one that enters, leaves
\* nothing to prove about the others.
LEMMA ClockMoves ==
  ASSUME ClockInv, NEW p \in Procs, NEW l, at' = [at EXCEPT ![p] = l],
         Clock!Inside(p) \/ Clock!NobodyInside,
         Clock!TypeOK', MaskOK', ChipOK', LineOK(p)', RegisterOK(p)'
  PROVE  ClockInv'
<1>1. at \in [Procs -> Clock!Labels]
  BY DEF ClockInv, Clock!TypeOK
<1>2. ASSUME NEW q \in Procs, q # p
      PROVE  at'[q] = at[q] /\ ~Clock!Inside(q)
  BY <1>1, <1>2 DEF ClockInv, OneInside, Clock!NobodyInside
<1>3. ASSUME NEW q \in Procs, q # p
      PROVE  ~Clock!Inside(q)' /\ LineOK(q)' /\ RegisterOK(q)'
  <2>1. at'[q] \notin Marked \cup Held \cup {"e1", "e2"}
    BY <1>2, <1>3, InsideIs
  <2>2. ~Clock!Inside(q)'
    BY <1>2, <1>3 DEF Clock!Inside
  <2>3. QED
    BY <2>1, <2>2 DEF LineOK, RegisterOK, Marked, Held
<1>4. OneInside'
  BY <1>3 DEF OneInside
<1>5. QED
  BY <1>3, <1>4 DEF ClockInv

\* Inside or not, as a matter of the new label.
LEMMA InsideNext ==
  ASSUME ClockInv, NEW p \in Procs, NEW l, at' = [at EXCEPT ![p] = l]
  PROVE  /\ at'[p] = l
         /\ l \in Marked \cup Held \cup {"e1", "e2"} => ~Clock!NobodyInside'
         /\ l \in Clock!Labels => at' \in [Procs -> Clock!Labels]
<1>1. at \in [Procs -> Clock!Labels]
  BY DEF ClockInv, Clock!TypeOK
<1>2. at'[p] = l
  BY <1>1
<1>3. Clock!Inside(p)' <=> at'[p] \in Marked \cup Held \cup {"e1", "e2"}
  BY CodeLabels DEF Clock!Inside, Clock!Code, Marked, Held
<1>4. QED
  BY <1>1, <1>2, <1>3 DEF Clock!NobodyInside

\* What ClockInv says of the states of one process, for use in its steps.
LEMMA Before ==
  ASSUME ClockInv, NEW p \in Procs
  PROVE  /\ clock_pic \in Pairs /\ clock_pic.mask \subseteq 0 .. 15 /\ clock_pic.imr \subseteq 0 .. 15
         /\ LineOK(p) /\ RegisterOK(p) /\ MaskOK /\ ChipOK
         /\ regs.A \in 0 .. 255 /\ regs.B \in 0 .. 255 /\ regs["A"] = regs.A /\ regs["B"] = regs.B
         /\ tmp[p] \in 0 .. 255
<1>1. /\ clock_pic \in Pairs /\ LineOK(p) /\ RegisterOK(p) /\ MaskOK /\ ChipOK
      /\ regs \in [{"A", "B"} -> 0 .. 255] /\ tmp \in [Procs -> 0 .. 255]
  BY SamePic DEF ClockInv, Clock!TypeOK, Clock!Bytes
<1>2. QED
  BY <1>1 DEF Pairs, Lines

\* rtc_open: the bit of line 8 is set.
LEMMA ClockOpens ==
  ASSUME ClockInv, NEW p \in Procs, Clock!NobodyInside, Clock!rtc_open(p)
  PROVE  ClockInv'
<1>1. at' = [at EXCEPT ![p] = "do"]
  BY DEF Clock!rtc_open, Clock!Goto
<1>2. /\ clock_pic' \in Pairs /\ clock_pic'.mask = clock_pic.mask \cup {8}
      /\ clock_pic'.imr = clock_pic.imr
  BY Before, SamePic, PicFields DEF Clock!rtc_open, Lines, Clock!RTC_IRQ_LINE
<1> DEFINE unmoved == <<regs, selected_reg, periodic, RTC_INT_OCCURED, freq, tmp, sending, asked,
                        rejected>>
<1>3. unmoved' = unmoved
  BY DEF Clock!rtc_open, Clock!locals, Clock!history, Clock!chip
<1>4. "do" \in Marked /\ "do" \in Clock!Labels
  BY LabelsAre DEF Marked
<1>5. at'[p] = "do" /\ ~Clock!NobodyInside' /\ at' \in [Procs -> Clock!Labels]
  BY <1>1, <1>4, InsideNext
<1>6. Clock!TypeOK'
  BY <1>2, <1>3, <1>5, SamePic DEF ClockInv, Clock!TypeOK
<1>7. MaskOK'
  BY <1>2, <1>5 DEF ClockInv, MaskOK
<1>8. LineOK(p)' /\ RegisterOK(p)'
  BY <1>2, <1>5 DEF LineOK, RegisterOK, Held
<1>9. ChipOK'
  BY <1>3 DEF ClockInv, ChipOK, Clock!ProgrammedFrequency
<1>10. QED
  BY <1>1, <1>6, <1>7, <1>8, <1>9, ClockMoves

\* A frequency is accepted by its first byte.
LEMMA FirstBytes ==
  ASSUME NEW f \in Nat, Clock!Accepted(f)
  PROVE  Clock!FirstByte(f) \in {2, 4, 8, 16, 32, 64, 128}
BY DEF Clock!Accepted, Clock!FirstByte, Clock!PowersOfTwo

\* A legal frequency is refused only if its first byte is not one.
LEMMA RefusedIsLegal ==
  ASSUME NEW f \in Nat, ~Clock!Accepted(f), asked \in Nat
  PROVE  Clock!AskedInVain(f) \in Nat /\ (Clock!AskedInVain(f) < 256 => Clock!AskedInVain(f) = asked)
<1>1. ASSUME f \in Clock!PowersOfTwo PROVE f >= 256
  BY <1>1 DEF Clock!Accepted, Clock!FirstByte, Clock!PowersOfTwo
<1>2. QED
  BY <1>1 DEF Clock!AskedInVain

\* rtc_write of a good frequency.
LEMMA ClockWrites ==
  ASSUME ClockInv, NEW p \in Procs, NEW f \in Nat, Clock!NobodyInside, Clock!rtc_write(p, f)
  PROVE  ClockInv'
<1>1. at' = [at EXCEPT ![p] = "dw"]
  BY DEF Clock!rtc_write, Clock!Goto
<1>2. /\ clock_pic' \in Pairs /\ clock_pic'.mask = clock_pic.mask \cup {8}
      /\ clock_pic'.imr = clock_pic.imr
  BY Before, SamePic, PicFields DEF Clock!rtc_write, Lines, Clock!RTC_IRQ_LINE
<1> DEFINE unmoved == <<regs, selected_reg, periodic, RTC_INT_OCCURED, tmp, sending, asked,
                        rejected>>
<1>3. unmoved' = unmoved
  BY DEF Clock!rtc_write, Clock!history, Clock!chip
<1>4. "dw" \in Marked /\ "dw" \in Clock!Labels
  BY LabelsAre DEF Marked
<1>5. at'[p] = "dw" /\ ~Clock!NobodyInside' /\ at' \in [Procs -> Clock!Labels]
  BY <1>1, <1>4, InsideNext
<1>6. freq' \in [Procs -> Nat] /\ Clock!FirstByte(freq'[p]) \in {2, 4, 8, 16, 32, 64, 128}
  <2>1. freq' = [freq EXCEPT ![p] = f] /\ freq \in [Procs -> Nat]
    BY DEF Clock!rtc_write, ClockInv, Clock!TypeOK
  <2>2. freq' \in [Procs -> Nat] /\ freq'[p] = f
    BY <2>1
  <2>3. QED
    BY <2>2, FirstBytes DEF Clock!rtc_write
<1>7. Clock!TypeOK'
  BY <1>2, <1>3, <1>5, <1>6, SamePic DEF ClockInv, Clock!TypeOK
<1>8. MaskOK'
  BY <1>2, <1>5 DEF ClockInv, MaskOK
<1>9. LineOK(p)' /\ RegisterOK(p)'
  BY <1>2, <1>5, <1>6 DEF LineOK, RegisterOK, Held
<1>10. ChipOK'
  BY <1>3 DEF ClockInv, ChipOK, Clock!ProgrammedFrequency
<1>11. QED
  BY <1>1, <1>7, <1>8, <1>9, <1>10, ClockMoves

\* rtc_write of a bad one returns without enable_irq.
LEMMA ClockRejects ==
  ASSUME ClockInv, NEW p \in Procs, NEW f \in Nat, Clock!NobodyInside,
         Clock!rtc_write_rejected(p, f)
  PROVE  ClockInv'
<1>1. at' = [at EXCEPT ![p] = "r1"]
  BY DEF Clock!rtc_write_rejected, Clock!Goto
<1>2. /\ clock_pic' \in Pairs /\ clock_pic'.mask = clock_pic.mask \cup {8}
      /\ clock_pic'.imr = clock_pic.imr
  BY Before, SamePic, PicFields DEF Clock!rtc_write_rejected, Lines, Clock!RTC_IRQ_LINE
<1> DEFINE unmoved == <<regs, selected_reg, periodic, RTC_INT_OCCURED, freq, tmp, sending>>
<1>3. unmoved' = unmoved /\ rejected'
  BY DEF Clock!rtc_write_rejected, Clock!locals, Clock!chip
<1>4. "r1" \in Marked /\ "r1" \in Clock!Labels
  BY LabelsAre DEF Marked
<1>5. at'[p] = "r1" /\ ~Clock!NobodyInside' /\ at' \in [Procs -> Clock!Labels]
  BY <1>1, <1>4, InsideNext
<1>6. rejected' \in BOOLEAN
  BY Zenon DEF Clock!rtc_write_rejected
<1>7. asked' \in Nat /\ (asked' < 256 => asked' = asked)
  BY RefusedIsLegal DEF Clock!rtc_write_rejected, ClockInv, Clock!TypeOK
<1>8. Clock!TypeOK'
  BY <1>2, <1>3, <1>5, <1>6, <1>7, SamePic DEF ClockInv, Clock!TypeOK
<1>9. MaskOK'
  BY <1>2, <1>5 DEF ClockInv, MaskOK
<1>10. LineOK(p)' /\ RegisterOK(p)'
  BY <1>2, <1>3, <1>5 DEF LineOK, RegisterOK, Held
<1>11. ChipOK'
  BY <1>3, <1>7 DEF ClockInv, ChipOK, Clock!ProgrammedFrequency
<1>12. QED
  BY <1>1, <1>8, <1>9, <1>10, <1>11, ClockMoves

\* The mask read is the one the process has just changed.
LEMMA ClockFetches ==
  ASSUME ClockInv, NEW p \in Procs, Clock!fetch(p)
  PROVE  ClockInv'
<1> DEFINE l == Clock!Code[at[p]].next
           unmoved == <<regs, selected_reg, periodic, clock_pic, RTC_INT_OCCURED, freq, tmp, asked,
                        rejected>>
<1>1. \/ at[p] = "do" /\ l = "po"
      \/ at[p] = "dw" /\ l = "pw"
      \/ at[p] = "e1" /\ l = "e2"
      \/ at[p] = "r1" /\ l = "r2"
  BY FetchAt DEF Clock!fetch
<1>2. at' = [at EXCEPT ![p] = l] /\ unmoved' = unmoved
  BY DEF Clock!fetch, Clock!Proceed, Clock!Goto, Clock!chip, Clock!history
<1> HIDE DEF l
<1>3. l \in Clock!Labels /\ l \in Marked \cup {"e2"}
  BY <1>1, LabelsAre DEF Marked
<1>4. at'[p] = l /\ ~Clock!NobodyInside' /\ at' \in [Procs -> Clock!Labels]
  BY <1>2, <1>3, InsideNext
<1>5. sending'[p] = clock_pic.mask /\ sending' \in [Procs -> SUBSET Clock!Lines]
  BY SamePic, Before DEF Clock!fetch, ClockInv, Clock!TypeOK, Pairs
<1>6. Clock!TypeOK'
  BY <1>2, <1>4, <1>5 DEF ClockInv, Clock!TypeOK
<1>7. MaskOK'
  BY <1>2, <1>4 DEF ClockInv, MaskOK
<1>8. LineOK(p)' /\ RegisterOK(p)'
  BY <1>1, <1>2, <1>4, <1>5, Before DEF LineOK, RegisterOK, Held, Marked
<1>9. ChipOK'
  BY <1>2 DEF ClockInv, ChipOK, Clock!ProgrammedFrequency
<1>10. Clock!Inside(p)
  BY <1>1, InsideIs DEF Marked
<1>11. QED
  BY <1>2, <1>6, <1>7, <1>8, <1>9, <1>10, ClockMoves

\* What is sent is the mask, so afterwards the chip has it.
LEMMA ClockSends ==
  ASSUME ClockInv, NEW p \in Procs, Clock!send(p)
  PROVE  ClockInv'
<1> DEFINE l == Clock!Code[at[p]].next
           unmoved == <<regs, selected_reg, periodic, RTC_INT_OCCURED, freq, tmp, asked, rejected>>
<1>1. \/ at[p] = "po" /\ l = "o1"
      \/ at[p] = "pw" /\ l = "w1"
      \/ at[p] = "e2" /\ l = "idle"
      \/ at[p] = "r2" /\ l = "idle"
  BY SendAt DEF Clock!send
<1>2. at' = [at EXCEPT ![p] = l] /\ unmoved' = unmoved
  BY DEF Clock!send, Clock!Proceed, Clock!Goto, Clock!chip, Clock!history
<1> HIDE DEF l
<1>3. l \in Clock!Labels /\ (l \in Held \/ l = "idle")
  BY <1>1, LabelsAre DEF Held
<1>4. /\ at'[p] = l /\ at' \in [Procs -> Clock!Labels]
      /\ l \in Held => ~Clock!NobodyInside'
  BY <1>2, <1>3, InsideNext
<1>5. sending[p] = clock_pic.mask
  BY <1>1, Before DEF LineOK
<1>6. /\ clock_pic' \in Pairs /\ clock_pic'.mask = clock_pic.mask
      /\ clock_pic'.imr = (clock_pic.imr \ (8 .. 15)) \cup (clock_pic.mask \cap (8 .. 15))
  <2>1. clock_pic.mask \in SUBSET Lines /\ clock_pic' = Out(clock_pic, 8, clock_pic.mask)
    BY <1>5, Before, SamePic DEF Clock!send, Lines, Clock!RTC_IRQ_LINE
  <2>2. 8 \in Lines
    BY DEF Lines
  <2>3. QED
    BY <2>1, <2>2, Before, OutFields, Halves
<1>7. clock_pic'.imr = clock_pic.mask
  BY <1>6, Before DEF MaskOK
<1>8. sending' \in [Procs -> SUBSET Clock!Lines]
  BY DEF Clock!send, ClockInv, Clock!TypeOK
<1>9. Clock!TypeOK'
  BY <1>2, <1>4, <1>6, <1>8, SamePic DEF ClockInv, Clock!TypeOK
<1>10. l = "idle" => (8 \in clock_pic.mask <=> rejected)
  BY <1>1, Before DEF LineOK, Marked
<1>11. MaskOK'
  BY <1>2, <1>3, <1>4, <1>6, <1>7, <1>10 DEF ClockInv, MaskOK
<1>12. LineOK(p)' /\ RegisterOK(p)'
  BY <1>1, <1>2, <1>4, <1>6, <1>7, Before DEF LineOK, RegisterOK, Held, Marked
<1>13. ChipOK'
  BY <1>2 DEF ClockInv, ChipOK, Clock!ProgrammedFrequency
<1>14. Clock!Inside(p)
  BY <1>1, InsideIs DEF Marked
<1>15. QED
  BY <1>2, <1>9, <1>11, <1>12, <1>13, <1>14, ClockMoves

\* The register selected is the one the next access means.
LEMMA ClockSelects ==
  ASSUME ClockInv, NEW p \in Procs, Clock!select(p)
  PROVE  ClockInv'
<1> DEFINE l == Clock!Code[at[p]].next
           r == Clock!Code[at[p]].reg
           unmoved == <<regs, periodic, clock_pic, RTC_INT_OCCURED, freq, tmp, sending, asked,
                        rejected>>
<1>1. \/ at[p] = "o1" /\ l = "o2" /\ r = "B"
      \/ at[p] = "o3" /\ l = "o4" /\ r = "B"
      \/ at[p] = "o5" /\ l = "o6" /\ r = "A"
      \/ at[p] = "o7" /\ l = "o8" /\ r = "A"
      \/ at[p] = "w1" /\ l = "w2" /\ r = "A"
      \/ at[p] = "w3" /\ l = "w4" /\ r = "A"
  BY SelectAt DEF Clock!select
<1>2. at' = [at EXCEPT ![p] = l] /\ unmoved' = unmoved /\ selected_reg' = r
  BY DEF Clock!select, Clock!Proceed, Clock!Goto, Clock!locals, Clock!history
<1> HIDE DEF l, r
<1>3. l \in Clock!Labels /\ l \in Held /\ r \in {"A", "B", "C"}
  BY <1>1, LabelsAre DEF Held
<1>4. at'[p] = l /\ ~Clock!NobodyInside' /\ at' \in [Procs -> Clock!Labels]
  BY <1>2, <1>3, InsideNext
<1>5. Clock!TypeOK'
  BY <1>2, <1>3, <1>4 DEF ClockInv, Clock!TypeOK
<1>6. MaskOK'
  BY <1>2, <1>4 DEF ClockInv, MaskOK
<1>7. LineOK(p)' /\ RegisterOK(p)'
  BY <1>1, <1>2, <1>4, Before DEF LineOK, RegisterOK, Held, Marked
<1>8. ChipOK'
  BY <1>2 DEF ClockInv, ChipOK, Clock!ProgrammedFrequency
<1>9. Clock!Inside(p)
  BY <1>1, InsideIs DEF Held
<1>10. QED
  BY <1>2, <1>5, <1>6, <1>7, <1>8, <1>9, ClockMoves

\* A load reads the register it is meant for.
LEMMA ClockLoads ==
  ASSUME ClockInv, NEW p \in Procs, Clock!load(p)
  PROVE  ClockInv'
<1> DEFINE l == Clock!Code[at[p]].next
           unmoved == <<regs, selected_reg, clock_pic, RTC_INT_OCCURED, freq, sending, asked,
                        rejected>>
<1>1. \/ at[p] = "o2" /\ l = "o3" /\ selected_reg = "B"
      \/ at[p] = "o6" /\ l = "o7" /\ selected_reg = "A"
      \/ at[p] = "w2" /\ l = "w3" /\ selected_reg = "A"
  BY LoadAt, Before DEF Clock!load, RegisterOK
<1>2. at' = [at EXCEPT ![p] = l] /\ unmoved' = unmoved
  BY DEF Clock!load, Clock!Proceed, Clock!Goto, Clock!history
<1> HIDE DEF l
<1>3. l \in Clock!Labels /\ l \in Held
  BY <1>1, LabelsAre DEF Held
<1>4. at'[p] = l /\ ~Clock!NobodyInside' /\ at' \in [Procs -> Clock!Labels]
  BY <1>2, <1>3, InsideNext
<1>5. /\ tmp' = [tmp EXCEPT ![p] = regs[selected_reg]]
      /\ periodic' = (periodic /\ selected_reg # "C")
  <2>1. selected_reg # "C"
    BY <1>1
  <2>2. QED
    BY <2>1 DEF Clock!load
<1>6. periodic' \in BOOLEAN
  BY <1>5, Zenon
<1>7. tmp' \in [Procs -> 0 .. 255] /\ tmp'[p] = regs[selected_reg]
  BY <1>1, <1>5, Before DEF ClockInv, Clock!TypeOK, Clock!Bytes
<1>8. Clock!TypeOK'
  BY <1>2, <1>4, <1>6, <1>7 DEF ClockInv, Clock!TypeOK, Clock!Bytes
<1>9. MaskOK'
  BY <1>2, <1>4 DEF ClockInv, MaskOK
<1>10. LineOK(p)' /\ RegisterOK(p)'
  BY <1>1, <1>2, <1>4, <1>7, Before DEF LineOK, RegisterOK, Held, Marked
<1>11. ChipOK'
  BY <1>2 DEF ClockInv, ChipOK, Clock!ProgrammedFrequency
<1>12. Clock!Inside(p)
  BY <1>1, InsideIs DEF Held
<1>13. QED
  BY <1>2, <1>8, <1>9, <1>10, <1>11, <1>12, ClockMoves

\* A store reaches the register it was made for, with the byte it was made of.
LEMMA ClockStores ==
  ASSUME ClockInv, NEW p \in Procs, Clock!store(p)
  PROVE  ClockInv'
<1> DEFINE l == Clock!Code[at[p]].next
           unmoved == <<selected_reg, periodic, clock_pic, RTC_INT_OCCURED, freq, tmp, sending,
                        rejected>>
           Stored == regs' \in [{"A", "B"} -> 0 .. 255] /\ asked' \in Nat /\ ChipOK'
<1>1. \/ at[p] = "o4" /\ l = "o5" /\ selected_reg = "B" /\ tmp[p] = regs.B
      \/ at[p] = "o8" /\ l = "end" /\ selected_reg = "A" /\ tmp[p] = regs.A
      \/ at[p] = "w4" /\ l = "end" /\ selected_reg = "A" /\ tmp[p] = regs.A
  BY StoreAt, Before DEF Clock!store, RegisterOK
<1>2. at' = [at EXCEPT ![p] = l] /\ unmoved' = unmoved
  BY DEF Clock!store, Clock!Proceed, Clock!Goto, Clock!locals
<1> HIDE DEF l
<1>3. l \in Clock!Labels /\ l \in Held
  BY <1>1, LabelsAre DEF Held
<1>4. at'[p] = l /\ ~Clock!NobodyInside' /\ at' \in [Procs -> Clock!Labels]
  BY <1>2, <1>3, InsideNext
<1>5. regs' = [regs EXCEPT ![selected_reg] = Clock!Sent(p)]
  BY <1>1 DEF Clock!store
<1>6. regs \in [{"A", "B"} -> 0 .. 255]
  BY DEF ClockInv, Clock!TypeOK, Clock!Bytes
<1>7. regs.A \in 0 .. 255 /\ regs.B \in 0 .. 255 /\ regs["A"] = regs.A /\ regs["B"] = regs.B
  BY Before
<1>8. ASSUME at[p] = "o4" PROVE Stored
  <2>1. Clock!Sent(p) = Clock!SetPIE(regs.B) /\ asked' = asked
    BY <1>1, <1>8, Zenon DEF Clock!Sent, Clock!store
  <2>2. Clock!SetPIE(regs.B) \in 0 .. 255 /\ Clock!PIE(Clock!SetPIE(regs.B))
    BY <1>7, RateBytes
  <2>3. regs' = [regs EXCEPT !["B"] = Clock!SetPIE(regs.B)]
    BY <1>1, <1>5, <1>8, <2>1
  <2>4. regs' \in [{"A", "B"} -> 0 .. 255] /\ regs'.A = regs.A /\ regs'.B = Clock!SetPIE(regs.B)
    BY <1>6, <2>2, <2>3
  <2>5. Clock!ProgrammedFrequency' = Clock!ProgrammedFrequency
    BY <2>4 DEF Clock!ProgrammedFrequency
  <2>6. asked \in Nat
    BY DEF ClockInv, Clock!TypeOK
  <2>7. ChipOK'
    BY <2>1, <2>2, <2>4, <2>5, Before DEF ChipOK
  <2>8. QED
    BY <2>1, <2>4, <2>6, <2>7
<1>9. ASSUME at[p] = "o8" PROVE Stored
  <2>1. Clock!Sent(p) = Clock!SetLowFour(regs.A) /\ asked' = 2
    BY <1>1, <1>9, Zenon DEF Clock!Sent, Clock!store
  <2>2. Clock!SetLowFour(regs.A) \in 0 .. 255 /\ Clock!LowFour(Clock!SetLowFour(regs.A)) = 15
    BY <1>7, RateBytes
  <2>3. regs' = [regs EXCEPT !["A"] = Clock!SetLowFour(regs.A)]
    BY <1>1, <1>5, <1>9, <2>1
  <2>4. regs' \in [{"A", "B"} -> 0 .. 255] /\ regs'.B = regs.B /\ regs'.A = Clock!SetLowFour(regs.A)
    BY <1>6, <2>2, <2>3
  <2>5. Clock!ProgrammedFrequency' = 2
    <3>1. 2 ^ 1 = 2 /\ 16 - 15 = 1
      OBVIOUS
    <3>2. Clock!LowFour(regs'.A) = 15
      BY <2>2, <2>4
    <3>3. QED
      BY <3>1, <3>2 DEF Clock!ProgrammedFrequency, Clock!LOG_FREQ_OFFSET
  <2>6. QED
    BY <2>1, <2>4, <2>5, Before DEF ChipOK
<1>10. ASSUME at[p] = "w4" PROVE Stored
  <2> DEFINE f == Clock!FirstByte(freq[p])
             r == Clock!Rate(f)
  <2>1. Clock!Sent(p) = Clock!WithRate(regs.A, r) /\ asked' = freq[p]
    BY <1>1, <1>10, Zenon DEF Clock!Sent, Clock!store
  <2>2. f \in {2, 4, 8, 16, 32, 64, 128}
    BY <1>10, Before DEF RegisterOK
  <2>3. r \in 9 .. 15 /\ 2 ^ (16 - r) = f
    BY <2>2, RateOfFrequency
  <2> HIDE DEF r
  <2> DEFINE a == regs.A
  <2>4. a \in 0 .. 255
    BY <1>7
  <2> HIDE DEF a
  <2>5. Clock!WithRate(a, r) \in 0 .. 255 /\ Clock!LowFour(Clock!WithRate(a, r)) = r
    <3>1. r \in 0 .. 15
      BY <2>3
    <3>2. QED
      BY <2>4, <3>1, RateBytes
  <2>6. Clock!WithRate(regs.A, r) \in 0 .. 255 /\ Clock!LowFour(Clock!WithRate(regs.A, r)) = r
    BY <2>5 DEF a
  <2>7. regs' = [regs EXCEPT !["A"] = Clock!WithRate(regs.A, r)]
    BY <1>1, <1>5, <1>10, <2>1
  <2>8. regs' \in [{"A", "B"} -> 0 .. 255] /\ regs'.B = regs.B /\ regs'.A = Clock!WithRate(regs.A, r)
    BY <1>6, <2>6, <2>7
  <2>9. Clock!ProgrammedFrequency' = f
    BY <2>3, <2>6, <2>8 DEF Clock!ProgrammedFrequency, Clock!LOG_FREQ_OFFSET
  <2>10. freq[p] \in Nat /\ (freq[p] < 256 => f = freq[p])
    BY DEF ClockInv, Clock!TypeOK, Clock!FirstByte
  <2>11. QED
    BY <2>1, <2>8, <2>9, <2>10, Before DEF ChipOK
<1>11. Stored
  BY <1>1, <1>8, <1>9, <1>10
<1>12. Clock!TypeOK'
  BY <1>2, <1>4, <1>11 DEF ClockInv, Clock!TypeOK, Clock!Bytes
<1>13. MaskOK'
  BY <1>2, <1>4 DEF ClockInv, MaskOK
<1>14. LineOK(p)' /\ RegisterOK(p)'
  BY <1>1, <1>2, <1>4, Before DEF LineOK, RegisterOK, Held, Marked
<1>15. Clock!Inside(p)
  BY <1>1, InsideIs DEF Held
<1>16. QED
  BY <1>2, <1>11, <1>12, <1>13, <1>14, <1>15, ClockMoves

\* enable_irq at the end of a call.
LEMMA ClockReturns ==
  ASSUME ClockInv, NEW p \in Procs, Clock!rtc_return(p)
  PROVE  ClockInv'
<1>1. at' = [at EXCEPT ![p] = "e1"] /\ at[p] = "end"
  BY DEF Clock!rtc_return, Clock!Goto
<1>2. /\ clock_pic' \in Pairs /\ clock_pic'.mask = clock_pic.mask \ {8}
      /\ clock_pic'.imr = clock_pic.imr
  BY Before, SamePic, PicFields DEF Clock!rtc_return, Lines, Clock!RTC_IRQ_LINE
<1> DEFINE unmoved == <<regs, selected_reg, periodic, RTC_INT_OCCURED, sending, asked>>
<1>3. unmoved' = unmoved
  BY DEF Clock!rtc_return, Clock!chip
<1>4. "e1" \in Clock!Labels
  BY LabelsAre
<1>5. at'[p] = "e1" /\ ~Clock!NobodyInside' /\ at' \in [Procs -> Clock!Labels]
  BY <1>1, <1>4, InsideNext
<1>6. rejected' \in BOOLEAN /\ ~rejected'
  BY Zenon DEF Clock!rtc_return
<1>7. freq' \in [Procs -> Nat] /\ tmp' \in [Procs -> 0 .. 255]
  BY DEF Clock!rtc_return, ClockInv, Clock!TypeOK, Clock!Bytes
<1>8. Clock!TypeOK'
  BY <1>2, <1>3, <1>5, <1>6, <1>7, SamePic DEF ClockInv, Clock!TypeOK, Clock!Bytes
<1>9. MaskOK'
  BY <1>2, <1>5 DEF ClockInv, MaskOK
<1>10. LineOK(p)' /\ RegisterOK(p)'
  BY <1>2, <1>5, <1>6 DEF LineOK, RegisterOK, Held, Marked
<1>11. ChipOK'
  BY <1>3 DEF ClockInv, ChipOK, Clock!ProgrammedFrequency
<1>12. Clock!Inside(p)
  BY <1>1, InsideIs DEF Held
<1>13. QED
  BY <1>1, <1>8, <1>9, <1>10, <1>11, <1>12, ClockMoves

\* rtc_read and rtc_close leave the chips alone, whoever is inside.
LEMMA ClockWaits ==
  ASSUME ClockInv, NEW p \in Procs,
         Clock!rtc_read(p) \/ Clock!rtc_read_return(p) \/ Clock!rtc_close(p)
  PROVE  ClockInv'
<1> DEFINE unmoved == <<regs, selected_reg, periodic, clock_pic, freq, tmp, sending, asked,
                        rejected>>
<1>1. unmoved' = unmoved /\ RTC_INT_OCCURED' \in {0, 1}
  BY DEF Clock!rtc_read, Clock!rtc_read_return, Clock!rtc_close, Clock!chip, Clock!locals,
     Clock!history,
         ClockInv, Clock!TypeOK
<1>2. PICK l \in {"spin", "idle", "closed"} : at' = [at EXCEPT ![p] = l]
  BY DEF Clock!rtc_read, Clock!rtc_read_return, Clock!rtc_close, Clock!Goto
<1>3. at[p] \in {"idle", "spin"}
  BY DEF Clock!rtc_read, Clock!rtc_read_return, Clock!rtc_close
<1>4. l \in Clock!Labels
  BY LabelsAre
<1>5. at'[p] = l /\ at' \in [Procs -> Clock!Labels]
  BY <1>2, <1>4, InsideNext
<1>6. ~Clock!Inside(p) /\ ~Clock!Inside(p)'
  <2>1. ~Clock!Inside(p)
    BY <1>3, InsideIs DEF Marked, Held
  <2>2. Clock!Inside(p)' <=> at'[p] \in Marked \cup Held \cup {"e1", "e2"}
    BY CodeLabels DEF Clock!Inside, Clock!Code, Marked, Held
  <2>3. QED
    BY <1>5, <2>1, <2>2 DEF Marked, Held
<1>7. \A q \in Procs : q # p => at'[q] = at[q] /\ (Clock!Inside(q)' <=> Clock!Inside(q))
  BY <1>2 DEF ClockInv, Clock!TypeOK, Clock!Inside
<1>8. Clock!NobodyInside' <=> Clock!NobodyInside
  BY <1>6, <1>7 DEF Clock!NobodyInside
<1>9. Clock!TypeOK'
  BY <1>1, <1>5 DEF ClockInv, Clock!TypeOK
<1>10. MaskOK'
  BY <1>1, <1>8 DEF ClockInv, MaskOK
<1>11. OneInside'
  BY <1>6, <1>7 DEF ClockInv, OneInside
<1>12. \A q \in Procs : LineOK(q)' /\ RegisterOK(q)'
  BY <1>1, <1>5, <1>7 DEF ClockInv, LineOK, RegisterOK, Marked, Held
<1>13. ChipOK'
  BY <1>1 DEF ClockInv, ChipOK, Clock!ProgrammedFrequency
<1>14. QED
  BY <1>9, <1>10, <1>11, <1>12, <1>13 DEF ClockInv

\* Every step of the clock and of its processes keeps the invariant.
LEMMA ClockSteps == ClockInv /\ Clock!TimelyNext => ClockInv'
<1> SUFFICES ASSUME ClockInv, Clock!TimelyNext PROVE ClockInv'
  OBVIOUS
<1>1. ASSUME NEW p \in Procs, Clock!SerialProcess(p) PROVE ClockInv'
  BY <1>1, ClockOpens, ClockWrites, ClockRejects, ClockFetches, ClockSends, ClockSelects,
     ClockLoads,
     ClockStores, ClockReturns, ClockWaits, FrequenciesAssumption
     DEF Clock!SerialProcess, Clock!Enters, Clock!Continues
<1>2. QED
  BY <1>1, ClockTicks, ClockInterrupts, MouseInterrupts DEF Clock!TimelyNext

\* The invariant gives what is promised of the clock.
LEMMA ClockInvImplies == ClockInv => LineOpen /\ RateHonoured /\ StoreHitsRegister
<1> SUFFICES ASSUME ClockInv PROVE LineOpen /\ RateHonoured /\ StoreHitsRegister
  OBVIOUS
<1>1. LineOpen
  BY DEF ClockInv, MaskOK, LineOpen, Clock!LineOpen, Clock!TypeOK, Clock!RTC_IRQ_LINE
<1>2. RateHonoured
  BY DEF ClockInv, ChipOK, RateHonoured, Clock!RateHonoured
<1>3. StoreHitsRegister
  BY StoreAt DEF ClockInv, RegisterOK, StoreHitsRegister, Clock!StoreHitsRegister, Clock!Meant
<1>4. QED
  BY <1>1, <1>2, <1>3

-----------------------------------------------------------------------------
(* The mouse, and both together *)

\* Where mouse_init may be.
BootLabels == {"enable_aux", "read_aux", "get_config", "read_config", "set_defaults",
               "read_defaults", "enable_mouse", "read_enabled", "sti"}

\* No byte on its way.
Quiet == output = << >> /\ \A s \in Sources : queue[s] = << >>

\* One byte on its way, from source s.
OneByte(s) ==
  /\ \A u \in Sources : u # s => queue[u] = << >>
  /\ \/ output = << >> /\ \E b \in 0 .. 255 : queue[s] = <<b>>
     \/ output # << >> /\ output[1].from = s /\ queue[s] = << >>

\* Boot after a regular start: every command is answered, and the answer read,
\* before the next; the mouse's first answer latches its line.
BootOK ==
  pc # "run" =>
    \/ pc \in {"enable_aux", "read_aux", "get_config"} /\ Quiet
    \/ pc = "read_config" /\ OneByte("controller")
    \/ pc = "set_defaults" /\ Quiet /\ HasBit(config, 2)
    \/ /\ pc = "read_defaults" /\ OneByte("mouse") /\ HasBit(config, 2)
       /\ output # << >> => 12 \in pic.irr
    \/ pc = "enable_mouse" /\ Quiet /\ 12 \in pic.irr
    \/ pc = "read_enabled" /\ OneByte("mouse") /\ 12 \in pic.irr
    \/ pc = "sti" /\ Quiet /\ 12 \in pic.irr

\* Until the mouse's handler has run, nothing is on its way and its line is
\* latched; by then the keyboard's, which comes first, is not.
FirstOK ==
  pc = "run" /\ mouse_cycle = 0 =>
    /\ Quiet
    /\ cpu = "mouse" => 1 \notin pic.irr /\ 12 \notin pic.irr
    /\ cpu # "mouse" => 12 \in pic.irr

\* From then on a line is latched, or its handler about to run, only for a byte
\* of its own device in the output buffer.
LinesOK ==
  mouse_cycle # 0 =>
    /\ queue["controller"] = << >>
    /\ 12 \in pic.irr \/ cpu = "mouse" => FromMouse
    /\ 1 \in pic.irr \/ cpu = "keyboard" => output # << >> /\ output[1].from = "keyboard"
    /\ cpu = "mouse" => 12 \notin pic.irr
    /\ cpu = "keyboard" => 1 \notin pic.irr

\* The bytes of a packet that are still to be handled, b, x and y at first.
UnderWay(b, x, y) ==
  \/ mouse_cycle = 3 /\ ~FromMouse /\ queue["mouse"] = <<b, x, y>>
  \/ mouse_cycle = 3 /\ FromMouse /\ output[1].byte = b /\ queue["mouse"] = <<x, y>>
  \/ mouse_cycle = 4 /\ ~FromMouse /\ queue["mouse"] = <<x, y>>
  \/ mouse_cycle = 4 /\ FromMouse /\ output[1].byte = x /\ queue["mouse"] = <<y>>
  \/ mouse_cycle = 5 /\ ~FromMouse /\ queue["mouse"] = <<y>>
  \/ mouse_cycle = 5 /\ FromMouse /\ output[1].byte = y /\ queue["mouse"] = << >>

\* A movement of dx, dy is under way that ends where ideal is.
Leads(b, dx, dy) ==
  /\ UnderWay(b, dx % 256, dy % 256)
  /\ mouse_cycle = 5 => mouse_byte[1] = dx
  /\ ideal = <<Clamp(mouse_x + WholeCells(dx), SCREEN_W),
               Clamp(mouse_y - WholeCells(dy), SCREEN_H)>>

\* Nothing of the mouse is on its way.
Arrived == ~FromMouse /\ queue["mouse"] = << >> /\ ideal = <<mouse_x, mouse_y>>

PacketOK ==
  /\ mouse_cycle = 0 => ideal = <<mouse_x, mouse_y>>
  /\ mouse_cycle # 0 => \/ mouse_cycle = 3 /\ Arrived
                        \/ \E b \in 0 .. 255, dx, dy \in SignedBytes : Leads(b, dx, dy)

\* The keyboard's line is open on the chip, whatever the handlers do.
OpenOK == pic.imr = pic.mask /\ 1 \notin pic.mask

\* mouse_init runs before every handler.
PlaceOK == pc \in BootLabels \cup {"run"} /\ (pc # "run" => cpu = "user" /\ mouse_cycle = 0)

MouseInv ==
  /\ TypeOK
  /\ PlaceOK
  /\ OpenOK
  /\ regular => BootOK /\ FirstOK /\ LinesOK /\ PacketOK

-----------------------------------------------------------------------------
\* C arithmetic of the driver.
LEMMA AsChars ==
  /\ \A v \in Int : AsChar(v) \in SignedBytes
  /\ \A v \in SignedBytes : AsChar(v) = v /\ AsChar(v % 256) = v /\ v % 256 \in 0 .. 255
<1>1. ASSUME NEW v \in Int PROVE AsChar(v) \in SignedBytes
  <2>1. v % 256 \in 0 .. 255
    OBVIOUS
  <2>2. QED
    BY <2>1 DEF AsChar, SignedBytes
<1>2. ASSUME NEW v \in SignedBytes
      PROVE  AsChar(v) = v /\ AsChar(v % 256) = v /\ v % 256 \in 0 .. 255
  <2>1. v \in -128 .. 127
    BY DEF SignedBytes
  <2>2. v % 256 = (IF v < 0 THEN v + 256 ELSE v)
    BY <2>1
  <2>3. v % 256 \in 0 .. 255 /\ (v % 256) % 256 = v % 256
    BY <2>1, <2>2
  <2>4. QED
    BY <2>1, <2>2, <2>3 DEF AsChar
<1>3. QED
  BY <1>1, <1>2

\* C's division rounds towards zero.
LEMMA Quarters ==
  ASSUME NEW v \in SignedBytes
  PROVE  Quarter(v) = WholeCells(v) /\ Quarter(v) \in -32 .. 31
<1>1. CASE v < 0
  <2>1. -v \in 1 .. 128
    BY <1>1 DEF SignedBytes
  <2>2. (-v) \div 4 \in 0 .. 32
    BY <2>1
  <2>3. 0 - v = -v /\ v \in Int
    BY DEF SignedBytes
  <2>4. QED
    BY <1>1, <2>2, <2>3 DEF Quarter, WholeCells
<1>2. CASE v >= 0
  <2>1. v \in 0 .. 127
    BY <1>2 DEF SignedBytes
  <2>2. v \div 4 \in 0 .. 31
    BY <2>1
  <2>3. QED
    BY <2>1, <2>2 DEF Quarter, WholeCells
<1>3. QED
  BY <1>1, <1>2 DEF SignedBytes

\* A clamped coordinate lies on the screen.
LEMMA Clamped ==
  ASSUME NEW v \in Int, NEW bound \in Nat \ {0}
  PROVE  Clamp(v, bound) \in 0 .. bound - 1
BY DEF Clamp

\* The screen is so small that a coordinate and a step fit a signed byte.
LEMMA Screens == 
  /\ SCREEN_W \in 1 .. 96 /\ SCREEN_W \in Nat \ {0}
  /\ SCREEN_H \in 1 .. 96 /\ SCREEN_H \in Nat \ {0}
BY MouseAssumption

\* A position on the screen is a cell of it.
LEMMA Positions ==
  ASSUME NEW x \in 0 .. SCREEN_W - 1, NEW y \in 0 .. SCREEN_H - 1
  PROVE  Position(x, y) \in Cells
<1> DEFINE w == SCREEN_W
           h == SCREEN_H
<1>1. w \in Nat /\ h \in Nat /\ x \in Nat /\ y \in Nat /\ x <= w - 1 /\ y <= h - 1
  BY Screens
<1> HIDE DEF w, h
<1>2. y * w + x \in 0 .. w * h - 1
  <2>1. PICK k \in Nat : h = y + 1 + k
    <3>1. h - y - 1 \in Nat /\ h = y + 1 + (h - y - 1)
      BY <1>1
    <3>2. QED
      BY <3>1
  <2>2. w * h = y * w + w + k * w
    BY <1>1, <2>1
  <2>3. k * w \in Nat /\ y * w \in Nat /\ w * h \in Nat
    BY <1>1, <2>1
  <2>4. QED
    BY <1>1, <2>2, <2>3
<1>3. QED
  BY <1>2 DEF Position, Cells, w, h

\* The cells between two cells are cells.
LEMMA Spans ==
  ASSUME NEW a \in Cells, NEW b \in Cells
  PROVE  Span(a, b) \subseteq Cells
<1>1. SCREEN_W * SCREEN_H \in Nat
  BY Screens
<1> DEFINE n == SCREEN_W * SCREEN_H
<1>2. a \in 0 .. n - 1 /\ b \in 0 .. n - 1 /\ n \in Nat
  BY <1>1 DEF Cells
<1> HIDE DEF n
<1>3. Span(a, b) \subseteq 0 .. n - 1
  BY <1>2 DEF Span
<1>4. QED
  BY <1>3 DEF n, Cells

\* The configuration byte boot writes: the mouse's interrupt is on.
LEMMA ConfigBits ==
  ASSUME NEW b \in 0 .. 255
  PROVE  /\ WithoutBit(WithBit(b, 2), 32) \in 0 .. 255
         /\ HasBit(WithoutBit(WithBit(b, 2), 32), 2)
<1> DEFINE e == WithBit(b, 2)
<1>1. e \in 0 .. 255 /\ HasBit(e, 2)
  BY DEF WithBit, HasBit
<1> HIDE DEF e
<1>2. WithoutBit(e, 32) \in 0 .. 255 /\ HasBit(WithoutBit(e, 32), 2)
  BY <1>1 DEF WithoutBit, HasBit
<1>3. QED
  BY <1>2 DEF e

\* Marks are put on cells of the screen only.
LEMMA MarkedCells ==
  ASSUME NEW L \in SUBSET Cells, NEW a \in Cells, NEW b \in Cells, NEW attrib, NEW white \in BOOLEAN
  PROVE  /\ update_attribute(L, a, attrib) \in SUBSET Cells
         /\ select(L, a, b, white) \in SUBSET Cells
BY Spans DEF update_attribute, select

\* mouse_init starts with nothing on its way.
LEMMA MouseBegins == Init => MouseInv
<1> SUFFICES ASSUME Init PROVE MouseInv
  OBVIOUS
<1>1. /\ pic \in Pairs /\ pic.mask = Lines \ {1} /\ pic.imr = Lines \ {1}
  <2>1. i8259_init \in Pairs /\ i8259_init.mask = Lines /\ i8259_init.imr = Lines /\ 1 \in Lines
    BY DEF i8259_init, Pairs, Lines
  <2>2. pic = enable_irq(i8259_init, 1)
    BY DEF Init, KB_IRQ
  <2>3. /\ pic \in Pairs /\ pic.mask = Lines \ {1}
        /\ pic.imr = (Lines \ Half(1)) \cup (pic.mask \cap Half(1))
    BY <2>1, <2>2, EnableFields
  <2>4. QED
    BY <2>3, Halves DEF Lines
<1>2. OpenOK /\ PlaceOK /\ Quiet
  BY <1>1 DEF Init, OpenOK, PlaceOK, BootLabels, Quiet
<1>3. TypeOK
  <2>1. /\ output = << >> /\ last = 0 /\ config \in 0 .. 255 /\ shells = 1 /\ suspended = 0
        /\ mouse_x = 0 /\ mouse_y = 0 /\ mouse_cycle = 0 /\ cpu = "user" /\ lit = {}
    BY MouseAssumption DEF Init
  <2>2. queue \in [Sources -> Seq(0 .. 255)]
    BY DEF Init
  <2>3. mouse_byte \in [0 .. 2 -> SignedBytes] /\ button \in [0 .. 1 -> BOOLEAN]
    BY DEF Init, SignedBytes
  <2>4. Position(0, 0) = 0 /\ Position(0, 0) \in Cells
    BY Positions, Screens DEF Position
  <2>5. selected \in [0 .. 1 -> Cells]
    BY <2>4 DEF Init
  <2>6. output \in Seq([from : Sources, byte : 0 .. 255]) /\ Len(output) <= 1
    BY <2>1
  <2>7. QED
    BY <1>1, <2>1, <2>2, <2>3, <2>5, <2>6, Screens, MouseAssumption DEF TypeOK
<1>4. BootOK /\ FirstOK /\ LinesOK /\ PacketOK
  BY <1>2 DEF Init, BootOK, FirstOK, LinesOK, PacketOK
<1>5. QED
  BY <1>2, <1>3, <1>4 DEF MouseInv

-----------------------------------------------------------------------------
\* Steps of the devices.

\* A sequence of at most one element.
LEMMA AtMostOne ==
  ASSUME NEW S, NEW q \in Seq(S), Len(q) <= 1
  PROVE  q = << >> \/ \E o \in S : q = <<o>>
<1>1. CASE Len(q) = 0
  BY <1>1
<1>2. CASE Len(q) = 1
  <2>1. q[1] \in S
    BY <1>2
  <2>2. <<q[1]>> \in Seq(S) /\ Len(<<q[1]>>) = 1 /\ <<q[1]>>[1] = q[1]
    BY <2>1
  <2>3. q = <<q[1]>>
    BY <1>2, <2>2, SeqEqual
  <2>4. QED
    BY <2>1, <2>3
<1> DEFINE n == Len(q)
<1>3. n \in Nat /\ n <= 1
  OBVIOUS
<1> HIDE DEF n
<1>4. n = 0 \/ n = 1
  BY <1>3
<1>5. QED
  BY <1>1, <1>2, <1>4 DEF n

\* What the type invariant says of the controllers.
LEMMA Typed ==
  ASSUME MouseInv
  PROVE  /\ pic \in Pairs /\ pic.mask \subseteq Lines /\ pic.imr \subseteq Lines
         /\ queue \in [Sources -> Seq(0 .. 255)]
         /\ output = << >> \/ \E o \in [from : Sources, byte : 0 .. 255] : output = <<o>>
         /\ config \in 0 .. 255
<1>1. output \in Seq([from : Sources, byte : 0 .. 255]) /\ Len(output) <= 1
  BY DEF MouseInv, TypeOK
<1>2. output = << >> \/ \E o \in [from : Sources, byte : 0 .. 255] : output = <<o>>
  BY <1>1, AtMostOne
<1>3. QED
  BY <1>2 DEF MouseInv, TypeOK, Pairs

\* A queue that is not empty, and what is left of it.
LEMMA Heads ==
  ASSUME NEW S, NEW q \in Seq(S), q # << >>
  PROVE  Head(q) \in S /\ Tail(q) \in Seq(S)
OBVIOUS

\* The bytes of a packet one after the other.
LEMMA Tails ==
  ASSUME NEW b, NEW x, NEW y
  PROVE  /\ Head(<<b, x, y>>) = b /\ Tail(<<b, x, y>>) = <<x, y>>
         /\ Head(<<x, y>>) = x /\ Tail(<<x, y>>) = <<y>>
         /\ Head(<<y>>) = y /\ Tail(<<y>>) = << >>
         /\ <<b, x, y>> # << >> /\ <<x, y>> # << >> /\ <<y>> # << >>
OBVIOUS

\* The next byte of a device reaches the output buffer and latches its line.
LEMMA MouseDelivers ==
  ASSUME MouseInv, NEW s \in Sources, deliver(s)
  PROVE  MouseInv'
<1> DEFINE o == [from |-> s, byte |-> Head(queue[s])]
           unmoved == <<pc, cpu, last, config, mouse_cycle, mouse_byte,
                        button, mouse_x, mouse_y, selected, lit, shells, suspended, ideal, regular>>
<1>1. /\ output = << >> /\ queue[s] # << >> /\ output' = <<o>>
      /\ queue' = [queue EXCEPT ![s] = Tail(queue[s])] /\ unmoved' = unmoved
  BY DEF deliver, packet, pointer, marks, terminals, history
<1>2. queue[s] \in Seq(0 .. 255) /\ queue \in [Sources -> Seq(0 .. 255)]
  BY Typed
<1>3. Head(queue[s]) \in 0 .. 255 /\ Tail(queue[s]) \in Seq(0 .. 255)
  BY <1>1, <1>2, Heads
<1>4. o \in [from : Sources, byte : 0 .. 255] /\ o.from = s /\ o.byte = Head(queue[s])
  BY <1>3
<1> HIDE DEF o
<1>5. /\ output' \in Seq([from : Sources, byte : 0 .. 255]) /\ Len(output') <= 1
      /\ output' # << >> /\ output'[1] = o
  BY <1>1, <1>4
<1>6. queue' \in [Sources -> Seq(0 .. 255)] /\ queue'[s] = Tail(queue[s])
      /\ \A u \in Sources : u # s => queue'[u] = queue[u]
  BY <1>1, <1>2, <1>3
<1>7. /\ pic' \in Pairs /\ pic'.mask = pic.mask /\ pic'.imr = pic.imr /\ pic.irr \subseteq pic'.irr
      /\ s = "mouse" => pic'.irr \subseteq pic.irr \cup {12}
      /\ s # "mouse" => pic'.irr \subseteq pic.irr \cup {1}
      /\ s = "mouse" /\ HasBit(config, 2) => 12 \in pic'.irr
  <2>1. 12 \in Lines /\ 1 \in Lines /\ pic \in Pairs
    BY Typed DEF Lines
  <2>2. CASE s = "mouse"
    <3>1. pic' = (IF HasBit(config, 2) THEN Raise(pic, 12) ELSE pic)
      BY <2>2 DEF deliver, MOUSE_IRQ
    <3> DEFINE e == Raise(pic, 12)
    <3>2. /\ e \in Pairs /\ e.mask = pic.mask /\ e.imr = pic.imr
          /\ e.irr = pic.irr \cup {12}
      BY <2>1, PicFields
    <3> HIDE DEF e
    <3>3. pic' = e \/ (pic' = pic /\ ~HasBit(config, 2))
      BY <3>1 DEF e
    <3>4. QED
      BY <2>1, <2>2, <3>2, <3>3
  <2>3. CASE s # "mouse"
    <3>1. pic' = (IF HasBit(config, 1) THEN Raise(pic, 1) ELSE pic)
      BY <2>3 DEF deliver, KB_IRQ
    <3> DEFINE e == Raise(pic, 1)
    <3>2. /\ e \in Pairs /\ e.mask = pic.mask /\ e.imr = pic.imr
          /\ e.irr = pic.irr \cup {1}
      BY <2>1, PicFields
    <3> HIDE DEF e
    <3>3. pic' = e \/ (pic' = pic /\ ~HasBit(config, 1))
      BY <3>1 DEF e
    <3>4. QED
      BY <2>1, <2>3, <3>2, <3>3
  <2>4. QED
    BY <2>2, <2>3
<1>8. TypeOK'
  BY <1>1, <1>5, <1>6, <1>7 DEF MouseInv, TypeOK
<1>9. OpenOK' /\ PlaceOK'
  BY <1>1, <1>7 DEF MouseInv, OpenOK, PlaceOK
<1>10. FromMouse' <=> s = "mouse"
  BY <1>4, <1>5 DEF FromMouse
<1>11. ~FromMouse
  BY <1>1 DEF FromMouse
<1>12. ASSUME regular PROVE BootOK'
  <2>1. SUFFICES ASSUME pc # "run" PROVE BootOK'
    BY <1>1 DEF BootOK
  <2>2. ~Quiet /\ (Quiet => FALSE)
    BY <1>1 DEF Quiet
  <2>3. ASSUME NEW u \in Sources, OneByte(u) PROVE s = u /\ OneByte(u)'
    <3>1. s = u
      BY <1>1, <2>3 DEF OneByte
    <3>2. PICK b \in 0 .. 255 : queue[u] = <<b>>
      BY <1>1, <2>3 DEF OneByte
    <3>3. queue'[u] = << >>
      BY <1>6, <3>1, <3>2, Tails
    <3>4. QED
      BY <1>4, <1>5, <1>6, <2>3, <3>1, <3>3 DEF OneByte
  <2>4. "mouse" \in Sources /\ "controller" \in Sources
    BY DEF Sources
  <2>5. \/ pc = "read_config" /\ OneByte("controller")'
        \/ pc = "read_defaults" /\ OneByte("mouse")' /\ HasBit(config, 2) /\ s = "mouse"
        \/ pc = "read_enabled" /\ OneByte("mouse")' /\ 12 \in pic.irr
    BY <1>12, <2>1, <2>2, <2>3, <2>4 DEF MouseInv, BootOK
  <2>6. QED
    BY <1>1, <1>7, <2>5 DEF BootOK
<1>13. ASSUME regular PROVE FirstOK'
  BY <1>1, <1>13 DEF MouseInv, FirstOK, Quiet
<1>14. ASSUME regular PROVE LinesOK'
  <2>1. SUFFICES ASSUME mouse_cycle # 0 PROVE LinesOK'
    BY <1>1 DEF LinesOK
  <2>2. s # "controller" /\ 12 \notin pic.irr /\ 1 \notin pic.irr /\ cpu \notin {"mouse",
  "keyboard"}
        /\ queue["controller"] = << >>
    BY <1>1, <1>11, <1>14, <2>1 DEF MouseInv, LinesOK
  <2>3. queue'["controller"] = << >>
    BY <1>6, <2>2 DEF Sources
  <2>4. s = "mouse" \/ s = "keyboard"
    BY <2>2 DEF Sources
  <2>5. QED
    BY <1>1, <1>4, <1>5, <1>7, <1>10, <2>2, <2>3, <2>4 DEF LinesOK
<1>15. ASSUME regular PROVE PacketOK'
  <2>1. PacketOK
    BY <1>15 DEF MouseInv
  <2>2. mouse_cycle = 0 => PacketOK'
    BY <1>1, <2>1 DEF PacketOK
  <2>3. ASSUME mouse_cycle # 0, s # "mouse" PROVE PacketOK'
    <3>1. queue'["mouse"] = queue["mouse"] /\ ~FromMouse'
      BY <1>6, <1>10, <2>3 DEF Sources
    <3>2. Arrived => Arrived'
      BY <1>1, <3>1 DEF Arrived
    <3>3. ASSUME NEW b, NEW dx, NEW dy, Leads(b, dx, dy) PROVE Leads(b, dx, dy)'
      <4> DEFINE x == dx % 256
                 y == dy % 256
      <4>1. UnderWay(b, x, y)
        BY <3>3 DEF Leads
      <4> HIDE DEF x, y
      <4>2. mouse_cycle' = mouse_cycle
        BY <1>1
      <4>3. UnderWay(b, x, y)'
        BY <1>11, <3>1, <4>1, <4>2 DEF UnderWay
      <4>4. QED
        BY <1>1, <3>3, <4>3 DEF Leads, x, y
    <3>4. QED
      BY <1>1, <2>1, <2>3, <3>2, <3>3 DEF PacketOK
  <2>4. ASSUME mouse_cycle # 0, s = "mouse" PROVE PacketOK'
    <3>1. ~Arrived
      BY <1>1, <2>4 DEF Arrived
    <3>2. PICK b \in 0 .. 255, dx \in SignedBytes, dy \in SignedBytes : Leads(b, dx, dy)
      BY <2>1, <2>4, <3>1 DEF PacketOK
    <3> DEFINE x == dx % 256
               y == dy % 256
    <3>3. UnderWay(b, x, y)
      BY <3>2 DEF Leads
    <3> HIDE DEF x, y
    <3>4. FromMouse' /\ output'[1].byte = Head(queue["mouse"]) /\ queue'["mouse"] = Tail(queue["mouse"])
      BY <1>4, <1>5, <1>6, <1>10, <2>4
    <3>5. UnderWay(b, x, y)'
      <4>1. mouse_cycle' = mouse_cycle
        BY <1>1
      <4>2. CASE mouse_cycle = 3
        <5>1. queue["mouse"] = <<b, x, y>>
          BY <1>11, <3>3, <4>2 DEF UnderWay
        <5>2. Head(queue["mouse"]) = b /\ Tail(queue["mouse"]) = <<x, y>>
          BY <5>1, Tails
        <5>3. QED
          BY <3>4, <4>1, <4>2, <5>2 DEF UnderWay
      <4>3. CASE mouse_cycle = 4
        <5>1. queue["mouse"] = <<x, y>>
          BY <1>11, <3>3, <4>3 DEF UnderWay
        <5>2. Head(queue["mouse"]) = x /\ Tail(queue["mouse"]) = <<y>>
          BY <5>1, Tails
        <5>3. QED
          BY <3>4, <4>1, <4>3, <5>2 DEF UnderWay
      <4>4. CASE mouse_cycle = 5
        <5>1. queue["mouse"] = <<y>>
          BY <1>11, <3>3, <4>4 DEF UnderWay
        <5>2. Head(queue["mouse"]) = y /\ Tail(queue["mouse"]) = << >>
          BY <5>1, Tails
        <5>3. QED
          BY <3>4, <4>1, <4>4, <5>2 DEF UnderWay
      <4>5. QED
        BY <3>3, <4>2, <4>3, <4>4 DEF UnderWay
    <3>6. Leads(b, dx, dy)'
      BY <1>1, <3>2, <3>5 DEF Leads, x, y
    <3>7. QED
      BY <1>1, <2>4, <3>2, <3>6 DEF PacketOK
  <2>5. QED
    BY <2>2, <2>3, <2>4
<1>16. QED
  BY <1>1, <1>8, <1>9, <1>12, <1>13, <1>14, <1>15 DEF MouseInv

\* A key puts a byte in the keyboard's queue, and starts nothing in the mouse's.
LEMMA KeyPressed ==
  ASSUME MouseInv, press_key
  PROVE  MouseInv'
<1> DEFINE unmoved == <<pc, cpu, pic, output, last, config, mouse_cycle, mouse_byte,
                        button, mouse_x, mouse_y, selected, lit, shells, suspended, ideal>>
<1>1. /\ queue' = [queue EXCEPT !["keyboard"] = <<Scancode>>] /\ unmoved' = unmoved
      /\ regular' => regular /\ mouse_cycle # 0
  BY DEF press_key, packet, pointer, marks, terminals
<1>2. /\ queue' \in [Sources -> Seq(0 .. 255)]
      /\ queue'["mouse"] = queue["mouse"] /\ queue'["controller"] = queue["controller"]
  <2>1. <<Scancode>> \in Seq(0 .. 255)
    BY MouseAssumption
  <2>2. QED
    BY <1>1, <2>1, Typed DEF Sources
<1>3. TypeOK'
  BY <1>1, <1>2 DEF MouseInv, TypeOK
<1>4. OpenOK' /\ PlaceOK'
  BY <1>1 DEF MouseInv, OpenOK, PlaceOK
<1>5. FromMouse' <=> FromMouse
  BY <1>1 DEF FromMouse
<1>6. ASSUME regular' PROVE BootOK' /\ FirstOK' /\ LinesOK' /\ PacketOK'
  <2>1. regular /\ mouse_cycle # 0 /\ mouse_cycle' = mouse_cycle /\ pc' = pc /\ pc = "run"
    BY <1>1, <1>6 DEF MouseInv, PlaceOK
  <2>2. BootOK' /\ FirstOK'
    BY <2>1 DEF BootOK, FirstOK
  <2>3. LinesOK'
    BY <1>1, <1>2, <1>5, <2>1 DEF MouseInv, LinesOK
  <2>4. ASSUME NEW b, NEW dx, NEW dy, Leads(b, dx, dy) PROVE Leads(b, dx, dy)'
    BY <1>1, <1>2, <1>5, <2>4 DEF Leads, UnderWay
  <2>5. Arrived => Arrived'
    BY <1>1, <1>2, <1>5 DEF Arrived
  <2>6. PacketOK'
    BY <2>1, <2>4, <2>5 DEF MouseInv, PacketOK
  <2>7. QED
    BY <2>2, <2>3, <2>6
<1>7. QED
  BY <1>3, <1>4, <1>6 DEF MouseInv

\* While the bytes of a packet are under way some are outstanding.
LEMMA Outstands ==
  ASSUME MouseInv
  PROVE  /\ Outstanding = 0 <=> (queue["mouse"] = << >> /\ ~FromMouse)
         /\ \A b, x, y : UnderWay(b, x, y) => Outstanding = 6 - mouse_cycle /\ mouse_cycle \in 3 .. 5
<1>1. queue["mouse"] \in Seq(0 .. 255)
  BY Typed DEF Sources
<1>2. Len(queue["mouse"]) \in Nat /\ (Len(queue["mouse"]) = 0 <=> queue["mouse"] = << >>)
  BY <1>1
<1> DEFINE n == Len(queue["mouse"])
<1>3. FromMouse => Outstanding = n + 1
  BY Zenon DEF Outstanding
<1>4. ~FromMouse => Outstanding = n + 0
  BY Zenon DEF Outstanding
<1>5. Outstanding = 0 <=> (queue["mouse"] = << >> /\ ~FromMouse)
  BY <1>2, <1>3, <1>4
<1>6. ASSUME NEW b, NEW x, NEW y, UnderWay(b, x, y)
      PROVE  Outstanding = 6 - mouse_cycle /\ mouse_cycle \in 3 .. 5
  <2>1. Len(<<b, x, y>>) = 3 /\ Len(<<x, y>>) = 2 /\ Len(<<y>>) = 1 /\ Len(<< >>) = 0
    OBVIOUS
  <2>2. QED
    <3>1. \/ mouse_cycle = 3 /\ ~FromMouse /\ n = 3
          \/ mouse_cycle = 3 /\ FromMouse /\ n = 2
          \/ mouse_cycle = 4 /\ ~FromMouse /\ n = 2
          \/ mouse_cycle = 4 /\ FromMouse /\ n = 1
          \/ mouse_cycle = 5 /\ ~FromMouse /\ n = 1
          \/ mouse_cycle = 5 /\ FromMouse /\ n = 0
      BY <1>6, <2>1 DEF UnderWay
    <3> HIDE DEF n
    <3>2. QED
      BY <1>3, <1>4, <3>1
<1>7. QED
  BY <1>5, <1>6

\* A movement puts a packet in the mouse's queue, and ideal where it leads.
LEMMA MouseMoves ==
  ASSUME MouseInv, NEW d \in Movements, NEW left \in BOOLEAN, move_mouse(d, left)
  PROVE  MouseInv'
<1> DEFINE b == FirstOfPacket(d, left)
           unmoved == <<pc, cpu, pic, output, last, config, mouse_cycle, mouse_byte,
                        button, mouse_x, mouse_y, selected, lit, shells, suspended>>
<1>1. /\ queue' = [queue EXCEPT !["mouse"] = <<b, d[1] % 256, d[2] % 256>>] /\ unmoved' = unmoved
      /\ regular' => /\ regular /\ mouse_cycle # 0 /\ d[1] \in SignedBytes /\ d[2] \in SignedBytes
                    /\ ideal' = <<Clamp(ideal[1] + WholeCells(d[1]), SCREEN_W),
                                  Clamp(ideal[2] - WholeCells(d[2]), SCREEN_H)>>
  BY DEF move_mouse, packet, pointer, marks, terminals
<1>2. b \in 0 .. 255 /\ d[1] \in Int /\ d[2] \in Int
  BY MouseAssumption DEF FirstOfPacket
<1> HIDE DEF b
<1>3. d[1] % 256 \in 0 .. 255 /\ d[2] % 256 \in 0 .. 255
  BY <1>2
<1>4. <<b, d[1] % 256, d[2] % 256>> \in Seq(0 .. 255)
  BY <1>2, <1>3
<1>5. /\ queue' \in [Sources -> Seq(0 .. 255)] /\ queue'["mouse"] = <<b, d[1] % 256, d[2] % 256>>
      /\ queue'["keyboard"] = queue["keyboard"] /\ queue'["controller"] = queue["controller"]
  BY <1>1, <1>4, Typed DEF Sources
<1>6. TypeOK'
  BY <1>1, <1>5 DEF MouseInv, TypeOK
<1>7. OpenOK' /\ PlaceOK'
  BY <1>1 DEF MouseInv, OpenOK, PlaceOK
<1>8. (FromMouse' <=> FromMouse) /\ ~FromMouse /\ queue["mouse"] = << >>
  BY <1>1, Outstands DEF FromMouse, move_mouse
<1>9. ASSUME regular' PROVE BootOK' /\ FirstOK' /\ LinesOK' /\ PacketOK'
  <2>1. regular /\ mouse_cycle # 0 /\ mouse_cycle' = mouse_cycle /\ pc' = pc /\ pc = "run"
    BY <1>1, <1>9 DEF MouseInv, PlaceOK
  <2>2. BootOK' /\ FirstOK'
    BY <2>1 DEF BootOK, FirstOK
  <2>3. LinesOK'
    BY <1>1, <1>5, <1>8, <2>1 DEF MouseInv, LinesOK
  <2>4. mouse_cycle = 3 /\ ideal = <<mouse_x, mouse_y>>
    <3>1. \A c, x, y : ~UnderWay(c, x, y)
      BY <1>8, Tails DEF UnderWay
    <3>2. QED
      BY <2>1, <3>1 DEF MouseInv, PacketOK, Arrived, Leads
  <2>5. Leads(b, d[1], d[2])'
    <3>1. ideal[1] = mouse_x /\ ideal[2] = mouse_y
      BY <2>4
    <3>2. UnderWay(b, d[1] % 256, d[2] % 256)'
      BY <1>5, <1>8, <2>1, <2>4 DEF UnderWay
    <3>3. QED
      BY <1>1, <1>9, <2>1, <2>4, <3>1, <3>2 DEF Leads
  <2>6. PacketOK'
    BY <1>1, <1>2, <1>9, <2>1, <2>5 DEF PacketOK
  <2>7. QED
    BY <2>2, <2>3, <2>6
<1>10. QED
  BY <1>6, <1>7, <1>9 DEF MouseInv

-----------------------------------------------------------------------------
\* Boot.
LEMMA MouseCommands ==
  ASSUME MouseInv, command
  PROVE  MouseInv'
<1> DEFINE unmoved == <<cpu, pic, output, last, config, mouse_cycle, mouse_byte,
                        button, mouse_x, mouse_y, selected, lit, shells, suspended, ideal, regular>>
<1>1. unmoved' = unmoved
  BY DEF command, packet, pointer, marks, terminals, history
<1>2. \/ /\ pc = "enable_aux" /\ pc' = "read_aux"
         /\ queue' = [queue EXCEPT !["controller"] = @ \o << >>]
      \/ /\ pc = "get_config" /\ pc' = "read_config"
         /\ queue' = [queue EXCEPT !["controller"] = @ \o <<config>>]
      \/ /\ pc = "set_defaults" /\ pc' = "read_defaults"
         /\ queue' = [queue EXCEPT !["mouse"] = @ \o <<ACK>>]
      \/ /\ pc = "enable_mouse" /\ pc' = "read_enabled"
         /\ queue' = [queue EXCEPT !["mouse"] = @ \o <<ACK>>]
  <2>1. pc \in {"enable_aux", "get_config", "set_defaults", "enable_mouse"}
    BY DEF command, Boot
  <2>2. /\ queue' = [queue EXCEPT ![Boot[pc].source] = @ \o Boot[pc].answer]
        /\ pc' = Boot[pc].next
    BY DEF command
  <2>3. /\ Boot["enable_aux"].source = "controller" /\ Boot["enable_aux"].answer = << >>
        /\ Boot["enable_aux"].next = "read_aux"
        /\ Boot["get_config"].source = "controller" /\ Boot["get_config"].answer = <<config>>
        /\ Boot["get_config"].next = "read_config"
        /\ Boot["set_defaults"].source = "mouse" /\ Boot["set_defaults"].answer = <<ACK>>
        /\ Boot["set_defaults"].next = "read_defaults"
        /\ Boot["enable_mouse"].source = "mouse" /\ Boot["enable_mouse"].answer = <<ACK>>
        /\ Boot["enable_mouse"].next = "read_enabled"
    BY DEF Boot
  <2>4. QED
    BY <2>1, <2>2, <2>3, Zenon
<1>3. queue \in [Sources -> Seq(0 .. 255)] /\ config \in 0 .. 255 /\ ACK \in 0 .. 255
  BY Typed DEF ACK
<1>4. PICK s \in Sources, a \in Seq(0 .. 255) :
        /\ queue' = [queue EXCEPT ![s] = @ \o a]
        /\ \/ pc = "enable_aux" /\ pc' = "read_aux" /\ a = << >>
           \/ pc = "get_config" /\ pc' = "read_config" /\ s = "controller" /\ a = <<config>>
           \/ pc = "set_defaults" /\ pc' = "read_defaults" /\ s = "mouse" /\ a = <<ACK>>
           \/ pc = "enable_mouse" /\ pc' = "read_enabled" /\ s = "mouse" /\ a = <<ACK>>
  <2>1. << >> \in Seq(0 .. 255) /\ <<config>> \in Seq(0 .. 255) /\ <<ACK>> \in Seq(0 .. 255)
    BY <1>3
  <2>2. "mouse" \in Sources /\ "controller" \in Sources
    BY DEF Sources
  <2>3. QED
    BY <1>2, <2>1, <2>2, Zenon
<1>5. queue' \in [Sources -> Seq(0 .. 255)]
  BY <1>3, <1>4
<1>6. TypeOK'
  BY <1>1, <1>5 DEF MouseInv, TypeOK
<1>7. OpenOK' /\ PlaceOK' /\ pc' # "run" /\ mouse_cycle = 0
  BY <1>1, <1>4 DEF MouseInv, OpenOK, PlaceOK, BootLabels
<1>8. ASSUME regular PROVE BootOK'
  <2>1. Quiet
    BY <1>4, <1>8 DEF MouseInv, BootOK
  <2>2. queue'[s] = a /\ \A u \in Sources : u # s => queue'[u] = << >>
    <3>1. << >> \o a = a
      BY ConcatEmptySeq
    <3>2. QED
      BY <1>3, <1>4, <2>1, <3>1 DEF Quiet
  <2>3. output' = << >>
    BY <1>1, <2>1 DEF Quiet
  <2>4. a = << >> => Quiet'
    BY <2>2, <2>3 DEF Quiet
  <2>5. ASSUME NEW c \in 0 .. 255, a = <<c>> PROVE OneByte(s)'
    BY <2>2, <2>3, <2>5 DEF OneByte
  <2>6. QED
    BY <1>1, <1>3, <1>4, <1>8, <2>3, <2>4, <2>5 DEF MouseInv, BootOK
<1>9. QED
  BY <1>1, <1>6, <1>7, <1>8 DEF MouseInv, FirstOK, LinesOK, PacketOK

\* The port reads as a byte.
LEMMA InBytes ==
  ASSUME MouseInv
  PROVE  InByte \in 0 .. 255
<1>1. CASE output = << >>
  BY <1>1 DEF InByte, MouseInv, TypeOK
<1>2. ASSUME NEW o \in [from : Sources, byte : 0 .. 255], output = <<o>> PROVE InByte \in 0 .. 255
  <2>1. output # << >> /\ output[1] = o /\ o.byte \in 0 .. 255
    BY <1>2
  <2>2. QED
    BY <2>1 DEF InByte
<1>3. QED
  BY <1>1, <1>2, Typed

\* mouse_init reads the answer to its own command.
LEMMA BootReads ==
  ASSUME MouseInv, mouse_read
  PROVE  MouseInv'
<1> DEFINE unmoved == <<cpu, pic, queue, mouse_cycle, mouse_byte,
                        button, mouse_x, mouse_y, selected, lit, shells, suspended, ideal, regular>>
<1>1. /\ unmoved' = unmoved /\ output' = << >>
      /\ output # << >> \/ NothingComes
  BY DEF mouse_read, inb, packet, pointer, marks, terminals, history
<1>2. last' \in 0 .. 255
  BY InBytes DEF mouse_read, inb
<1>3. \/ pc = "read_aux" /\ pc' = "get_config" /\ config' = config
      \/ /\ pc = "read_config" /\ pc' = "set_defaults"
         /\ config' = WithoutBit(WithBit(InByte, 2), 32)
      \/ pc = "read_defaults" /\ pc' = "enable_mouse" /\ config' = config
      \/ pc = "read_enabled" /\ pc' = "sti" /\ config' = config
  <2>1. pc \in {"read_aux", "read_config", "read_defaults", "read_enabled"}
    BY DEF mouse_read, AfterRead
  <2>2. /\ AfterRead["read_aux"] = "get_config" /\ AfterRead["read_defaults"] = "enable_mouse"
        /\ AfterRead["read_enabled"] = "sti"
    BY DEF AfterRead
  <2>3. QED
    BY <2>1, <2>2 DEF mouse_read
<1>4. config' \in 0 .. 255 /\ (pc = "read_config" => HasBit(config', 2))
  BY <1>3, InBytes, ConfigBits, Typed
<1>5. output' \in Seq([from : Sources, byte : 0 .. 255]) /\ Len(output') <= 1
  BY <1>1
<1>6. TypeOK'
  BY <1>1, <1>2, <1>4, <1>5 DEF MouseInv, TypeOK
<1>7. OpenOK' /\ PlaceOK' /\ pc' # "run" /\ mouse_cycle = 0
  BY <1>1, <1>3 DEF MouseInv, OpenOK, PlaceOK, BootLabels
<1>8. ASSUME regular PROVE BootOK'
  <2>1. BootOK
    BY <1>8 DEF MouseInv
  <2>2. pc = "read_aux" => Quiet
    BY <2>1 DEF BootOK
  <2>3. ASSUME NEW s \in Sources, OneByte(s) PROVE output # << >> /\ Quiet'
    <3>1. output # << >>
      <4>1. \A b : <<b>> # << >>
        OBVIOUS
      <4>2. QED
        BY <1>1, <2>3, <4>1 DEF OneByte, NothingComes
    <3>2. QED
      BY <1>1, <2>3, <3>1 DEF OneByte, Quiet
  <2>4. Quiet => Quiet'
    BY <1>1 DEF Quiet
  <2>5. /\ pc = "read_config" => OneByte("controller")
        /\ pc = "read_defaults" => OneByte("mouse") /\ (output # << >> => 12 \in pic.irr)
        /\ pc = "read_enabled" => OneByte("mouse") /\ 12 \in pic.irr
    BY <2>1 DEF BootOK
  <2>6. "mouse" \in Sources /\ "controller" \in Sources
    BY DEF Sources
  <2>7. QED
    BY <1>1, <1>3, <1>4, <2>2, <2>3, <2>4, <2>5, <2>6 DEF BootOK
<1>9. ASSUME regular PROVE PacketOK'
  BY <1>1, <1>7, <1>9 DEF MouseInv, PacketOK
<1>10. QED
  BY <1>1, <1>6, <1>7, <1>8, <1>9 DEF MouseInv, FirstOK, LinesOK

\* When entry() turns the interrupts on, the answer to the last command is read and
\* the mouse's line still latched.
LEMMA InterruptsOn ==
  ASSUME MouseInv, sti
  PROVE  MouseInv'
<1> DEFINE unmoved == <<cpu, output, last, queue, config, mouse_cycle, mouse_byte,
                        button, mouse_x, mouse_y, selected, shells, suspended, ideal, regular>>
<1>1. unmoved' = unmoved /\ lit' = {} /\ pc = "sti" /\ pc' = "run" /\ pic' = entry_enables(pic)
  BY DEF sti, keyboardController, packet, pointer, terminals, history
<1>2. /\ pic' \in Pairs /\ pic'.mask = pic.mask \ {0, 1, 2, 8, 12} /\ pic'.imr = pic'.mask
      /\ pic'.irr = pic.irr
  BY <1>1, Typed, EntryFields DEF MouseInv, OpenOK
<1>3. TypeOK'
  BY <1>1, <1>2 DEF MouseInv, TypeOK
<1>4. OpenOK' /\ PlaceOK' /\ mouse_cycle = 0 /\ cpu = "user"
  BY <1>1, <1>2 DEF MouseInv, OpenOK, PlaceOK
<1>5. ASSUME regular PROVE FirstOK' /\ PacketOK'
  <2>1. Quiet /\ 12 \in pic.irr
    BY <1>1, <1>5 DEF MouseInv, BootOK
  <2>2. Quiet'
    BY <1>1, <2>1 DEF Quiet
  <2>3. QED
    BY <1>1, <1>2, <1>4, <1>5, <2>1, <2>2 DEF MouseInv, FirstOK, PacketOK
<1>6. QED
  BY <1>1, <1>3, <1>4, <1>5 DEF MouseInv, BootOK, LinesOK

-----------------------------------------------------------------------------
\* Interrupts.

\* The keyboard's line comes before the mouse's.
LEMMA KeyboardFirst ==
  ASSUME MouseInv, CanDeliver(pic, 12)
  PROVE  1 \notin pic.irr /\ 12 \in pic.irr
<1>1. Rank(1) = 7 /\ Rank(12) = 12 /\ 1 \in Lines /\ 1 \notin Slave
  BY DEF Rank, Slave, SLAVE_IRQ, Lines
<1>2. 12 \in pic.irr /\ \A m \in pic.in_service : 12 < Rank(m)
  BY <1>1 DEF CanDeliver, Waiting
<1>3. ~Waiting(pic, 1)
  BY <1>1 DEF CanDeliver
<1>4. \A m \in pic.in_service : 7 < Rank(m)
  <2>1. \A m \in Lines : Rank(m) \in Int
    BY DEF Rank, Lines, SLAVE_IRQ
  <2>2. pic.in_service \subseteq Lines
    BY Typed DEF Pairs
  <2>3. ASSUME NEW m \in pic.in_service PROVE 7 < Rank(m)
    <3>1. Rank(m) \in Int /\ 12 < Rank(m)
      BY <1>2, <2>1, <2>2
    <3>2. QED
      BY <3>1
  <2>4. QED
    BY <2>3
<1>5. 1 \notin pic.imr
  BY DEF MouseInv, OpenOK
<1>6. QED
  BY <1>1, <1>2, <1>3, <1>4, <1>5 DEF Waiting

\* The first interrupt of the mouse comes with nothing on its way, every later one
\* with a byte of its own in the buffer.
LEMMA MouseAcknowledged ==
  ASSUME MouseInv, NEW device \in {"keyboard", "mouse"}, acknowledge(device)
  PROVE  MouseInv'
<1> DEFINE unmoved == <<pc, output, last, queue, config, mouse_cycle, mouse_byte,
                        button, mouse_x, mouse_y, selected, lit, shells, suspended, ideal, regular>>
           n == Line(device)
<1>1. /\ unmoved' = unmoved /\ pc = "run" /\ cpu = "user" /\ cpu' = device
      /\ pic' = Acknowledge(pic, n) /\ CanDeliver(pic, n)
  BY DEF acknowledge, keyboardController, packet, pointer, marks, terminals, history
<1>2. n \in Lines /\ (device = "mouse" => n = 12) /\ (device = "keyboard" => n = 1)
  BY DEF Line, MOUSE_IRQ, KB_IRQ, Lines
<1> HIDE DEF n
<1>3. pic' \in Pairs /\ pic'.mask = pic.mask /\ pic'.imr = pic.imr /\ pic'.irr = pic.irr \ {n}
  BY <1>1, <1>2, Typed, AckFields
<1>4. n \in pic.irr
  BY <1>1 DEF CanDeliver, Waiting
<1>5. TypeOK'
  BY <1>1, <1>3 DEF MouseInv, TypeOK
<1>6. OpenOK' /\ PlaceOK'
  BY <1>1, <1>3 DEF MouseInv, OpenOK, PlaceOK
<1>7. FromMouse' <=> FromMouse
  BY <1>1 DEF FromMouse
<1>8. device = "mouse" => 1 \notin pic.irr
  BY <1>1, <1>2, KeyboardFirst
<1>9. ASSUME regular PROVE FirstOK' /\ LinesOK' /\ PacketOK'
  <2>1. FirstOK'
    BY <1>1, <1>2, <1>3, <1>8, <1>9 DEF MouseInv, FirstOK, Quiet
  <2>2. LinesOK'
    BY <1>1, <1>2, <1>3, <1>4, <1>7, <1>9 DEF MouseInv, LinesOK
  <2>3. ASSUME NEW b, NEW dx, NEW dy, Leads(b, dx, dy) PROVE Leads(b, dx, dy)'
    BY <1>1, <1>7, <2>3 DEF Leads, UnderWay
  <2>4. Arrived => Arrived'
    BY <1>1, <1>7 DEF Arrived
  <2>5. PacketOK'
    BY <1>1, <1>9, <2>3, <2>4 DEF MouseInv, PacketOK
  <2>6. QED
    BY <2>1, <2>2, <2>5
<1>10. QED
  BY <1>1, <1>5, <1>6, <1>9 DEF MouseInv, BootOK

\* What every handler of the mouse does but for the packet.
LEMMA HandlesDoes ==
  ASSUME MouseInv, Handles
  PROVE  /\ cpu = "mouse" /\ cpu' = "user" /\ output' = << >> /\ ~FromMouse' /\ pc' = pc /\ pc = "run"
         /\ queue' = queue /\ config' = config /\ shells' = shells /\ suspended' = suspended
         /\ ideal' = ideal /\ regular' = regular
         /\ last' \in 0 .. 255
         /\ pic' \in Pairs /\ pic'.irr = pic.irr /\ OpenOK'
         /\ output' \in Seq([from : Sources, byte : 0 .. 255]) /\ Len(output') <= 1
<1>1. /\ cpu = "mouse" /\ cpu' = "user" /\ output' = << >> /\ pc' = pc
      /\ queue' = queue /\ config' = config /\ shells' = shells /\ suspended' = suspended
      /\ ideal' = ideal /\ regular' = regular
      /\ pic' = enable_irq(send_eoi(pic, 12), 12)
  BY DEF Handles, inb, terminals, history, MOUSE_IRQ
<1>2. last' \in 0 .. 255
  BY InBytes DEF Handles, inb
<1>3. pc = "run"
  BY <1>1 DEF MouseInv, PlaceOK
<1>4. /\ pic' \in Pairs /\ pic'.mask = pic.mask \ {12} /\ pic'.irr = pic.irr
      /\ pic'.imr = (pic.imr \ Half(12)) \cup (pic'.mask \cap Half(12))
  <2>1. 12 \in Lines
    BY DEF Lines
  <2>2. QED
    BY <1>1, <2>1, Typed, HandledFields
<1>5. OpenOK'
  <2>1. 12 \in Half(12)
    BY Halves
  <2>2. QED
    BY <1>4, <2>1 DEF MouseInv, OpenOK
<1>6. QED
  BY <1>1, <1>2, <1>3, <1>4, <1>5 DEF FromMouse

\* What is left to show of a handler of the mouse: the packet.
LEMMA Handled ==
  ASSUME MouseInv, Handles, mouse_cycle' \in {3, 4, 5},
         mouse_byte' \in [0 .. 2 -> SignedBytes], button' \in [0 .. 1 -> BOOLEAN],
         selected' \in [0 .. 1 -> Cells], lit' \in SUBSET Cells,
         mouse_x' \in 0 .. SCREEN_W - 1, mouse_y' \in 0 .. SCREEN_H - 1,
         regular => PacketOK'
  PROVE  MouseInv'
<1>1. TypeOK'
  <2>1. /\ config' \in 0 .. 255 /\ queue' \in [Sources -> Seq(0 .. 255)]
        /\ shells' \in 1 .. NUM_TERMINALS /\ suspended' \in 0 .. shells' - 1
    <3>1. config' = config /\ queue' = queue /\ shells' = shells /\ suspended' = suspended
      BY HandlesDoes
    <3>2. QED
      BY <3>1 DEF MouseInv, TypeOK
  <2>2. /\ cpu' = "user" /\ pic' \in Pairs /\ last' \in 0 .. 255
        /\ output' \in Seq([from : Sources, byte : 0 .. 255]) /\ Len(output') <= 1
    BY HandlesDoes
  <2>3. mouse_cycle' \in {0, 3, 4, 5} /\ cpu' \in {"user", "keyboard",
  "mouse"} /\ lit' \subseteq Cells
    BY <2>2
  <2>4. QED
    BY <2>1, <2>2, <2>3 DEF TypeOK
<1>2. PlaceOK' /\ BootOK' /\ FirstOK'
  BY HandlesDoes DEF MouseInv, PlaceOK, BootOK, FirstOK
<1>3. ASSUME regular PROVE LinesOK'
  <2>1. queue["controller"] = << >> /\ 1 \notin pic.irr /\ 12 \notin pic.irr
    <3>1. CASE mouse_cycle = 0
      BY <1>3, <3>1, HandlesDoes DEF MouseInv, FirstOK, Quiet, Sources
    <3>2. CASE mouse_cycle # 0
      <4>1. output[1].from = "mouse" /\ queue["controller"] = << >> /\ 12 \notin pic.irr
        BY <1>3, <3>2, HandlesDoes DEF MouseInv, LinesOK, FromMouse
      <4>2. 1 \notin pic.irr
        BY <1>3, <3>2, <4>1 DEF MouseInv, LinesOK
      <4>3. QED
        BY <4>1, <4>2
    <3>3. QED
      BY <3>1, <3>2
  <2>2. QED
    BY <2>1, HandlesDoes DEF LinesOK
<1>4. QED
  BY <1>1, <1>2, <1>3, HandlesDoes DEF MouseInv

\* The first interrupt drops no byte of a packet.
LEMMA FirstInterrupt ==
  ASSUME MouseInv, first_interrupt
  PROVE  MouseInv'
<1>1. Handles /\ mouse_cycle = 0 /\ mouse_cycle' = 3
  BY DEF first_interrupt
<1>2. /\ mouse_byte' = mouse_byte /\ button' = button /\ mouse_x' = mouse_x /\ mouse_y' = mouse_y
      /\ selected' = selected /\ lit' = lit
  BY DEF first_interrupt, pointer, marks
<1>3. /\ mouse_byte' \in [0 .. 2 -> SignedBytes] /\ button' \in [0 .. 1 -> BOOLEAN]
      /\ selected' \in [0 .. 1 -> Cells] /\ lit' \in SUBSET Cells
      /\ mouse_x' \in 0 .. SCREEN_W - 1 /\ mouse_y' \in 0 .. SCREEN_H - 1
  BY <1>2 DEF MouseInv, TypeOK
<1>4. ASSUME regular PROVE PacketOK'
  <2>1. queue["mouse"] = << >> /\ ideal = <<mouse_x, mouse_y>>
    BY <1>1, <1>4, HandlesDoes DEF MouseInv, FirstOK, PacketOK, Quiet, Sources
  <2>2. QED
    BY <1>1, <1>2, <2>1, HandlesDoes DEF PacketOK, Arrived
<1>5. QED
  BY <1>1, <1>3, <1>4, Handled

\* A handler in a packet finds a byte of it in the buffer.
LEMMA InPacket ==
  ASSUME MouseInv, regular, Handles, mouse_cycle # 0
  PROVE  /\ FromMouse /\ InByte = output[1].byte
         /\ \E b \in 0 .. 255, dx, dy \in SignedBytes : Leads(b, dx, dy)
<1>1. FromMouse
  BY HandlesDoes DEF MouseInv, LinesOK
<1>2. InByte = output[1].byte
  BY <1>1 DEF FromMouse, InByte
<1>3. QED
  BY <1>1, <1>2 DEF MouseInv, PacketOK, Arrived

\* The handler of a packet's first byte.
LEMMA FirstByte ==
  ASSUME MouseInv, first_byte
  PROVE  MouseInv'
<1>1. Handles /\ mouse_cycle = 3 /\ mouse_cycle' = 4
  BY DEF first_byte
<1>2. /\ mouse_x' = mouse_x /\ mouse_y' = mouse_y /\ selected' = selected /\ lit' = lit
  BY DEF first_byte, pointer, marks
<1>3. mouse_byte' \in [0 .. 2 -> SignedBytes]
  <2>1. AsChar(InByte) \in SignedBytes
    BY InBytes, AsChars
  <2>2. QED
    BY <2>1 DEF first_byte, MouseInv, TypeOK
<1>4. button' \in [0 .. 1 -> BOOLEAN]
  <2>1. \A c : Odd(c) \in BOOLEAN
    BY Zenon DEF Odd
  <2>2. QED
    BY <2>1, Zenon DEF first_byte
<1>5. /\ selected' \in [0 .. 1 -> Cells] /\ lit' \in SUBSET Cells
      /\ mouse_x' \in 0 .. SCREEN_W - 1 /\ mouse_y' \in 0 .. SCREEN_H - 1
  BY <1>2 DEF MouseInv, TypeOK
<1>6. ASSUME regular PROVE PacketOK'
  <2>1. PICK b \in 0 .. 255, dx \in SignedBytes, dy \in SignedBytes : Leads(b, dx, dy)
    BY <1>1, <1>6, InPacket
  <2> DEFINE x == dx % 256
             y == dy % 256
  <2>2. UnderWay(b, x, y) /\ FromMouse
    <3>1. FromMouse
      BY <1>1, <1>6, InPacket
    <3>2. QED
      BY <2>1, <3>1 DEF Leads
  <2> HIDE DEF x, y
  <2>3. UnderWay(b, x, y)'
    BY <1>1, <2>2, HandlesDoes DEF UnderWay
  <2>4. Leads(b, dx, dy)'
    BY <1>1, <1>2, <2>1, <2>3, HandlesDoes DEF Leads, x, y
  <2>5. QED
    BY <1>1, <2>1, <2>4 DEF PacketOK
<1>7. QED
  BY <1>1, <1>3, <1>4, <1>5, <1>6, Handled

\* The handler of its second byte keeps the movement along the line.
LEMMA SecondByte ==
  ASSUME MouseInv, second_byte
  PROVE  MouseInv'
<1>1. Handles /\ mouse_cycle = 4 /\ mouse_cycle' = 5
  BY DEF second_byte
<1>2. /\ mouse_x' = mouse_x /\ mouse_y' = mouse_y /\ selected' = selected /\ lit' = lit
      /\ button' = button
  BY DEF second_byte, pointer, marks
<1>3. mouse_byte' \in [0 .. 2 -> SignedBytes] /\ mouse_byte'[1] = AsChar(InByte)
  <2>1. AsChar(InByte) \in SignedBytes
    BY InBytes, AsChars
  <2>2. QED
    BY <2>1 DEF second_byte, MouseInv, TypeOK
<1>4. /\ selected' \in [0 .. 1 -> Cells] /\ lit' \in SUBSET Cells
      /\ button' \in [0 .. 1 -> BOOLEAN]
      /\ mouse_x' \in 0 .. SCREEN_W - 1 /\ mouse_y' \in 0 .. SCREEN_H - 1
  BY <1>2 DEF MouseInv, TypeOK
<1>5. ASSUME regular PROVE PacketOK'
  <2>1. PICK b \in 0 .. 255, dx \in SignedBytes, dy \in SignedBytes : Leads(b, dx, dy)
    BY <1>1, <1>5, InPacket
  <2> DEFINE x == dx % 256
             y == dy % 256
  <2>2. UnderWay(b, x, y) /\ FromMouse /\ InByte = output[1].byte
    <3>1. FromMouse /\ InByte = output[1].byte
      BY <1>1, <1>5, InPacket
    <3>2. QED
      BY <2>1, <3>1 DEF Leads
  <2>3. AsChar(x) = dx
    BY <2>1, AsChars
  <2> HIDE DEF x, y
  <2>4. UnderWay(b, x, y)' /\ InByte = x
    BY <1>1, <2>2, HandlesDoes DEF UnderWay
  <2>5. Leads(b, dx, dy)'
    BY <1>1, <1>2, <1>3, <2>1, <2>3, <2>4, HandlesDoes DEF Leads, x, y
  <2>6. QED
    BY <1>1, <2>1, <2>5 DEF PacketOK
<1>6. QED
  BY <1>1, <1>3, <1>4, <1>5, Handled

\* A displacement of a signed byte, a quarter of it added to a coordinate, is
\* a signed byte again.
LEMMA Steps ==
  ASSUME NEW bound \in 1 .. 96, NEW c \in 0 .. bound - 1, NEW v \in SignedBytes
  PROVE  /\ AsChar(c + Quarter(v)) = c + WholeCells(v)
         /\ AsChar(c - Quarter(v)) = c - WholeCells(v)
<1>1. Quarter(v) \in -32 .. 31 /\ Quarter(v) = WholeCells(v)
  BY Quarters
<1> DEFINE q == Quarter(v)
<1>2. q \in -32 .. 31 /\ c \in 0 .. 95
  BY <1>1
<1> HIDE DEF q
<1>3. c + q \in -128 .. 127 /\ c - q \in -128 .. 127
  BY <1>2
<1>4. AsChar(c + q) = c + q /\ AsChar(c - q) = c - q
  BY <1>3, AsChars DEF SignedBytes
<1>5. QED
  BY <1>1, <1>4 DEF q

\* The handler of its third byte moves the pointer to where the movement leads.
LEMMA ThirdByte ==
  ASSUME MouseInv, third_byte
  PROVE  MouseInv'
<1>1. /\ Handles /\ mouse_cycle = 5 /\ mouse_cycle' = 3 /\ button' = button
      /\ mouse_x' = NewX /\ mouse_y' = NewY /\ mouse_byte' = [mouse_byte EXCEPT ![1] = 0]
  BY DEF third_byte, update_cursor
<1>2. /\ mouse_byte \in [0 .. 2 -> SignedBytes] /\ button \in [0 .. 1 -> BOOLEAN]
      /\ mouse_x \in 0 .. SCREEN_W - 1 /\ mouse_y \in 0 .. SCREEN_H - 1
      /\ selected \in [0 .. 1 -> Cells] /\ lit \in SUBSET Cells
  BY DEF MouseInv, TypeOK
<1>3. mouse_byte' \in [0 .. 2 -> SignedBytes]
  BY <1>1, <1>2 DEF SignedBytes
<1>4. NewX \in 0 .. SCREEN_W - 1 /\ NewY \in 0 .. SCREEN_H - 1
  <2>1. mouse_byte[1] \in SignedBytes /\ AsChar(InByte) \in SignedBytes
    BY <1>2, InBytes, AsChars
  <2>2. Quarter(mouse_byte[1]) \in Int /\ Quarter(AsChar(InByte)) \in Int
    BY <2>1, Quarters
  <2>3. mouse_x + Quarter(mouse_byte[1]) \in Int /\ mouse_y - Quarter(AsChar(InByte)) \in Int
    BY <1>2, <2>2, Screens
  <2>4. /\ AsChar(mouse_x + Quarter(mouse_byte[1])) \in Int
        /\ AsChar(mouse_y - Quarter(AsChar(InByte))) \in Int
    BY <2>3, AsChars DEF SignedBytes
  <2>5. QED
    BY <2>4, Clamped, Screens DEF NewX, NewY
<1> DEFINE new_pos == Position(NewX, NewY)
<1>5. new_pos \in Cells /\ PointerCell \in Cells /\ selected[0] \in Cells /\ selected[1] \in Cells
  BY <1>2, <1>4, Positions DEF PointerCell
<1>6. selected' \in [0 .. 1 -> Cells]
  <2>1. \/ selected' = [selected EXCEPT ![0] = new_pos]
        \/ selected' = [selected EXCEPT ![1] = new_pos]
        \/ selected' = selected
    BY Zenon DEF third_byte, update_cursor
  <2> HIDE DEF new_pos
  <2>2. QED
    BY <1>2, <1>5, <2>1
<1>7. lit' \in SUBSET Cells
  <2>1. button[0] \in BOOLEAN /\ button[1] \in BOOLEAN
    BY <1>2
  <2>2. \/ lit' = select(lit, selected[0], selected[1], FALSE)
        \/ lit' = select(select(lit, PointerCell, new_pos, FALSE), selected[0], new_pos, TRUE)
        \/ lit' = update_attribute(update_attribute(lit, PointerCell, 2), new_pos, 2)
        \/ lit' = lit
    BY <2>1, Zenon DEF third_byte, update_cursor
  <2> HIDE DEF new_pos
  <2>3. /\ select(lit, selected[0], selected[1], FALSE) \in SUBSET Cells
        /\ select(lit, PointerCell, new_pos, FALSE) \in SUBSET Cells
        /\ update_attribute(lit, PointerCell, 2) \in SUBSET Cells
    BY <1>2, <1>5, MarkedCells
  <2>4. /\ select(select(lit, PointerCell, new_pos, FALSE), selected[0], new_pos, TRUE) \in SUBSET Cells
        /\ update_attribute(update_attribute(lit, PointerCell, 2), new_pos, 2) \in SUBSET Cells
    BY <1>5, <2>3, MarkedCells
  <2>5. QED
    BY <1>2, <2>2, <2>3, <2>4
<1>8. ASSUME regular PROVE PacketOK'
  <2>1. PICK b \in 0 .. 255, dx \in SignedBytes, dy \in SignedBytes : Leads(b, dx, dy)
    BY <1>1, <1>8, InPacket
  <2> DEFINE x == dx % 256
             y == dy % 256
  <2>2. UnderWay(b, x, y) /\ FromMouse /\ InByte = output[1].byte
    <3>1. FromMouse /\ InByte = output[1].byte
      BY <1>1, <1>8, InPacket
    <3>2. QED
      BY <2>1, <3>1 DEF Leads
  <2>3. AsChar(y) = dy
    BY <2>1, AsChars
  <2> HIDE DEF x, y
  <2>4. queue["mouse"] = << >> /\ InByte = y
    BY <1>1, <2>2 DEF UnderWay
  <2>5. mouse_byte[1] = dx /\ AsChar(InByte) = dy
    BY <1>1, <2>1, <2>3, <2>4 DEF Leads
  <2>6. /\ NewX = Clamp(mouse_x + WholeCells(dx), SCREEN_W)
        /\ NewY = Clamp(mouse_y - WholeCells(dy), SCREEN_H)
    BY <1>2, <2>1, <2>5, Steps, Screens DEF NewX, NewY
  <2>7. ideal' = <<mouse_x', mouse_y'>>
    BY <1>1, <2>1, <2>6, HandlesDoes DEF Leads
  <2>8. QED
    BY <1>1, <2>4, <2>7, HandlesDoes DEF PacketOK, Arrived
<1>9. QED
  BY <1>1, <1>2, <1>3, <1>4, <1>6, <1>7, <1>8, Handled

\* The keyboard's handler, whatever else it does.
LEMMA KeyboardHandles ==
  ASSUME MouseInv, do_handle_keyboard \/ switch_terminal \/ switch_to_new_terminal
  PROVE  MouseInv'
<1>1. /\ cpu = "keyboard" /\ cpu' = "user" /\ output' = << >> /\ pc' = pc
      /\ queue' = queue /\ config' = config /\ ideal' = ideal /\ regular' = regular
      /\ mouse_cycle' = mouse_cycle /\ mouse_byte' = mouse_byte /\ button' = button
      /\ mouse_x' = mouse_x /\ mouse_y' = mouse_y /\ selected' = selected
      /\ pic' = enable_irq(send_eoi(disable_irq(pic, 1), 1), 1)
  BY DEF do_handle_keyboard, switch_terminal, switch_to_new_terminal, KeyboardReads, inb,
         history, packet, pointer, KB_IRQ
<1>2. last' \in 0 .. 255
  <2>1. last' = 0 \/ last' = InByte
    BY Zenon DEF do_handle_keyboard, switch_terminal, switch_to_new_terminal, KeyboardReads, inb
  <2>2. QED
    BY <2>1, InBytes
<1>3. shells' \in 1 .. NUM_TERMINALS /\ suspended' \in 0 .. shells' - 1
  BY MouseAssumption
     DEF do_handle_keyboard, switch_terminal, switch_to_new_terminal, MouseInv, TypeOK, terminals
<1>4. /\ mouse_x \in 0 .. SCREEN_W - 1 /\ mouse_y \in 0 .. SCREEN_H - 1
      /\ selected \in [0 .. 1 -> Cells] /\ lit \in SUBSET Cells
  BY DEF MouseInv, TypeOK
<1>5. lit' \in SUBSET Cells
  <2>1. PointerCell \in Cells /\ selected[0] \in Cells /\ selected[1] \in Cells
    BY <1>4, Positions DEF PointerCell
  <2>2. Unselected \in SUBSET Cells /\ {} \in SUBSET Cells
    BY <1>4, <2>1, MarkedCells DEF Unselected
  <2>3. reset_cursor({}) \in SUBSET Cells /\ reset_cursor(Unselected) \in SUBSET Cells
    BY <2>1, <2>2, MarkedCells DEF reset_cursor
  <2>4. \/ lit' \in {reset_cursor({}), reset_cursor(Unselected), {}}
        \/ \E cells \in Overwritten : lit' = Unselected \ cells
    BY DEF do_handle_keyboard, switch_terminal, switch_to_new_terminal
  <2>5. QED
    BY <2>2, <2>3, <2>4
<1>6. /\ pic' \in Pairs /\ pic'.mask = pic.mask /\ pic'.imr = pic.mask /\ pic'.irr = pic.irr
  <2> DEFINE e == disable_irq(pic, 1)
  <2>1. 1 \in Lines
    BY DEF Lines
  <2>2. /\ e \in Pairs /\ e.mask = pic.mask \cup {1} /\ e.irr = pic.irr
        /\ e.imr = (pic.imr \ Half(1)) \cup (e.mask \cap Half(1))
    BY <2>1, Typed, DisableFields
  <2> HIDE DEF e
  <2>3. /\ pic' \in Pairs /\ pic'.mask = e.mask \ {1} /\ pic'.irr = e.irr
        /\ pic'.imr = (e.imr \ Half(1)) \cup (pic'.mask \cap Half(1))
    BY <1>1, <2>1, <2>2, HandledFields DEF e
  <2>4. pic.imr = pic.mask /\ 1 \notin pic.mask
    BY DEF MouseInv, OpenOK
  <2>5. QED
    BY <2>2, <2>3, <2>4
<1>7. TypeOK'
  <2>1. output' \in Seq([from : Sources, byte : 0 .. 255]) /\ Len(output') <= 1
    BY <1>1
  <2>2. /\ config' \in 0 .. 255 /\ queue' \in [Sources -> Seq(0 .. 255)]
        /\ mouse_cycle' \in {0, 3, 4, 5} /\ mouse_byte' \in [0 .. 2 -> SignedBytes]
        /\ mouse_x' \in 0 .. SCREEN_W - 1 /\ mouse_y' \in 0 .. SCREEN_H - 1
        /\ button' \in [0 .. 1 -> BOOLEAN] /\ selected' \in [0 .. 1 -> Cells]
        /\ cpu' \in {"user", "keyboard", "mouse"}
    BY <1>1 DEF MouseInv, TypeOK
  <2>3. QED
    BY <1>2, <1>3, <1>5, <1>6, <2>1, <2>2 DEF TypeOK
<1>8. PlaceOK' /\ OpenOK' /\ pc = "run"
  BY <1>1, <1>6 DEF MouseInv, PlaceOK, OpenOK
<1>9. ~FromMouse'
  BY <1>1 DEF FromMouse
<1>10. ASSUME regular PROVE FirstOK' /\ LinesOK' /\ PacketOK'
  <2>1. FirstOK'
    BY <1>1, <1>6, <1>10 DEF MouseInv, FirstOK, Quiet
  <2>2. ASSUME mouse_cycle # 0
        PROVE  /\ output[1].from = "keyboard" /\ 12 \notin pic.irr /\ 1 \notin pic.irr
               /\ queue["controller"] = << >> /\ ~FromMouse
    BY <1>1, <1>10, <2>2 DEF MouseInv, LinesOK, FromMouse
  <2>3. LinesOK'
    BY <1>1, <1>6, <2>2 DEF LinesOK
  <2>4. ASSUME mouse_cycle # 0, NEW b, NEW dx, NEW dy, Leads(b, dx, dy) PROVE Leads(b, dx, dy)'
    <3>1. ~FromMouse
      BY <2>2, <2>4
    <3> DEFINE x == dx % 256
               y == dy % 256
    <3>2. UnderWay(b, x, y)
      BY <2>4 DEF Leads
    <3> HIDE DEF x, y
    <3>3. UnderWay(b, x, y)'
      BY <1>1, <1>9, <3>1, <3>2 DEF UnderWay
    <3>4. QED
      BY <1>1, <2>4, <3>3 DEF Leads, x, y
  <2>5. Arrived => Arrived'
    BY <1>1, <1>9 DEF Arrived
  <2>6. PacketOK'
    BY <1>1, <1>10, <2>4, <2>5 DEF MouseInv, PacketOK
  <2>7. QED
    BY <2>1, <2>3, <2>6
<1>11. QED
  BY <1>1, <1>7, <1>8, <1>10 DEF MouseInv, BootOK

\* A handler that comes back from execute ends and opens the keyboard's line again.
LEMMA HandlerResumes ==
  ASSUME MouseInv, resume_handler
  PROVE  MouseInv'
<1> DEFINE unmoved == <<pc, cpu, output, last, queue, config, mouse_cycle, mouse_byte,
                        button, mouse_x, mouse_y, selected, shells, ideal, regular>>
<1>1. /\ unmoved' = unmoved /\ suspended > 0 /\ suspended' = suspended - 1 /\ lit' = reset_cursor(lit)
      /\ pic' = enable_irq(send_eoi(pic, 1), 1) /\ pc = "run"
  BY DEF resume_handler, keyboardController, history, packet, pointer, KB_IRQ
<1>2. /\ pic' \in Pairs /\ pic'.mask = pic.mask /\ pic'.imr = pic.mask /\ pic'.irr = pic.irr
  <2>1. 1 \in Lines /\ pic.imr = pic.mask /\ 1 \notin pic.mask
    BY DEF Lines, MouseInv, OpenOK
  <2>2. /\ pic' \in Pairs /\ pic'.mask = pic.mask \ {1} /\ pic'.irr = pic.irr
        /\ pic'.imr = (pic.imr \ Half(1)) \cup (pic'.mask \cap Half(1))
    BY <1>1, <2>1, Typed, HandledFields
  <2>3. QED
    BY <2>1, <2>2
<1>3. lit' \in SUBSET Cells
  <2>1. PointerCell \in Cells
    BY Positions DEF PointerCell, MouseInv, TypeOK
  <2>2. QED
    BY <1>1, <2>1, MarkedCells DEF reset_cursor, MouseInv, TypeOK
<1>4. shells' \in 1 .. NUM_TERMINALS /\ suspended' \in 0 .. shells' - 1
  BY <1>1, MouseAssumption DEF MouseInv, TypeOK
<1>5. TypeOK'
  <2>1. output' \in Seq([from : Sources, byte : 0 .. 255]) /\ Len(output') <= 1
    BY <1>1 DEF MouseInv, TypeOK
  <2>2. /\ config' \in 0 .. 255 /\ queue' \in [Sources -> Seq(0 .. 255)] /\ last' \in 0 .. 255
        /\ mouse_cycle' \in {0, 3, 4, 5} /\ mouse_byte' \in [0 .. 2 -> SignedBytes]
        /\ mouse_x' \in 0 .. SCREEN_W - 1 /\ mouse_y' \in 0 .. SCREEN_H - 1
        /\ button' \in [0 .. 1 -> BOOLEAN] /\ selected' \in [0 .. 1 -> Cells]
        /\ cpu' \in {"user", "keyboard", "mouse"}
    BY <1>1 DEF MouseInv, TypeOK
  <2>3. QED
    BY <1>2, <1>3, <1>4, <2>1, <2>2 DEF TypeOK
<1>6. PlaceOK' /\ OpenOK'
  BY <1>1, <1>2 DEF MouseInv, PlaceOK, OpenOK
<1>7. FromMouse' <=> FromMouse
  BY <1>1 DEF FromMouse
<1>8. ASSUME regular PROVE FirstOK' /\ LinesOK' /\ PacketOK'
  <2>1. FirstOK'
    BY <1>1, <1>2, <1>8 DEF MouseInv, FirstOK, Quiet
  <2>2. LinesOK'
    BY <1>1, <1>2, <1>7, <1>8 DEF MouseInv, LinesOK
  <2>3. ASSUME NEW b, NEW dx, NEW dy, Leads(b, dx, dy) PROVE Leads(b, dx, dy)'
    BY <1>1, <1>7, <2>3 DEF Leads, UnderWay
  <2>4. Arrived => Arrived'
    BY <1>1, <1>7 DEF Arrived
  <2>5. PacketOK'
    BY <1>1, <1>8, <2>3, <2>4 DEF MouseInv, PacketOK
  <2>6. QED
    BY <2>1, <2>2, <2>5
<1>9. QED
  BY <1>1, <1>5, <1>6, <1>8 DEF MouseInv, BootOK

\* Every step of the mouse, the keyboard and mouse_init keeps the invariant.
LEMMA MouseSteps == MouseInv /\ Next => MouseInv'
<1> SUFFICES ASSUME MouseInv, Next PROVE MouseInv'
  OBVIOUS
<1>1. CASE \E s \in Sources : deliver(s)
  BY <1>1, MouseDelivers
<1>2. CASE press_key
  BY <1>2, KeyPressed
<1>3. CASE \E d \in Movements, left \in BOOLEAN : move_mouse(d, left)
  BY <1>3, MouseMoves
<1>4. CASE command
  BY <1>4, MouseCommands
<1>5. CASE mouse_read
  BY <1>5, BootReads
<1>6. CASE sti
  BY <1>6, InterruptsOn
<1>7. CASE \E device \in {"keyboard", "mouse"} : acknowledge(device)
  BY <1>7, MouseAcknowledged
<1>8. CASE do_handle_mouse
  BY <1>8, FirstInterrupt, FirstByte, SecondByte, ThirdByte DEF do_handle_mouse
<1>9. CASE do_handle_keyboard \/ switch_terminal \/ switch_to_new_terminal
  BY <1>9, KeyboardHandles
<1>10. CASE resume_handler
  BY <1>10, HandlerResumes
<1>11. QED
  BY <1>1, <1>2, <1>3, <1>4, <1>5, <1>6, <1>7, <1>8, <1>9, <1>10 DEF Next

\* The invariant gives what is promised of the mouse.
LEMMA MouseInvImplies == MouseInv => TypeOK /\ PacketsInStep /\ PointerFollows
<1> SUFFICES ASSUME MouseInv PROVE TypeOK /\ PacketsInStep /\ PointerFollows
  OBVIOUS
<1>1. ASSUME regular, mouse_cycle # 0
      PROVE  \/ mouse_cycle = 3 /\ Outstanding = 0 /\ ideal = <<mouse_x, mouse_y>>
             \/ Outstanding = 6 - mouse_cycle /\ mouse_cycle \in 3 .. 5
  BY <1>1, Outstands DEF MouseInv, PacketOK, Arrived, Leads
<1>2. PacketsInStep
  <2>1. SUFFICES ASSUME regular, pc = "run", mouse_cycle # 0
        PROVE  /\ Outstanding > 0 => Outstanding = 6 - mouse_cycle
               /\ Outstanding = 0 => mouse_cycle = 3
               /\ cpu = "mouse" => output # << >> /\ output[1].from = "mouse"
               /\ cpu = "keyboard" => output # << >> /\ output[1].from = "keyboard"
    BY DEF PacketsInStep
  <2>2. /\ cpu = "mouse" => output # << >> /\ output[1].from = "mouse"
        /\ cpu = "keyboard" => output # << >> /\ output[1].from = "keyboard"
    BY <2>1 DEF MouseInv, LinesOK, FromMouse
  <2>3. QED
    BY <1>1, <2>1, <2>2
<1>3. PointerFollows
  <2>1. SUFFICES ASSUME regular, Outstanding = 0 PROVE <<mouse_x, mouse_y>> = ideal
    BY DEF PointerFollows
  <2>2. QED
    BY <1>1, <2>1 DEF MouseInv, PacketOK
<1>4. QED
  BY <1>2, <1>3 DEF MouseInv

\* The drag and the hover of update_cursor.
LEMMA SpansMeet ==
  ASSUME NEW a \in Int, NEW b \in Int, NEW c \in Int, NEW L, L \subseteq Span(a, b)
  PROVE  (L \ Span(b, c)) \cup Span(a, c) = Span(a, c)
<1>1. \A k \in Span(a, b) : k \in Span(b, c) \/ k \in Span(a, c)
  BY DEF Span
<1>2. QED
  BY <1>1

\* update_cursor redraws the drag, or moves the pointer's mark.
LEMMA Draws ==
  ASSUME MouseInv, Next, mouse_cycle = 5, mouse_cycle' = 3
  PROVE  /\ button[1] /\ button[0] /\ lit \subseteq Span(selected[0], PointerCell)
               => lit' = Span(selected[0], PointerCell')
         /\ ~button[1] /\ ~button[0] /\ lit = {PointerCell}
               => lit' = {PointerCell'}
<1>1. third_byte
  BY DEF Next, deliver, press_key, move_mouse, command, mouse_read, sti, acknowledge,
     do_handle_mouse,
         first_interrupt, first_byte, second_byte, do_handle_keyboard, switch_terminal,
         switch_to_new_terminal, resume_handler, packet
<1>2. PointerCell' = Position(NewX, NewY)
  BY <1>1 DEF third_byte, update_cursor, PointerCell, Position
<1> DEFINE new_pos == Position(NewX, NewY)
<1>3. MouseInv'
  BY MouseSteps
<1>4. PointerCell \in Cells /\ new_pos \in Cells /\ selected[0] \in Cells
  BY <1>2, <1>3, Positions DEF PointerCell, MouseInv, TypeOK
<1>5. PointerCell \in Int /\ new_pos \in Int /\ selected[0] \in Int
  BY <1>4, Screens DEF Cells
<1>6. ASSUME button[1], button[0], lit \subseteq Span(selected[0], PointerCell)
      PROVE  lit' = Span(selected[0], PointerCell')
  <2>1. lit' = select(select(lit, PointerCell, new_pos, FALSE), selected[0], new_pos, TRUE)
    BY <1>1, <1>6, Zenon DEF third_byte, update_cursor
  <2> HIDE DEF new_pos
  <2>2. lit' = (lit \ Span(PointerCell, new_pos)) \cup Span(selected[0], new_pos)
    BY <2>1 DEF select
  <2>3. QED
    BY <1>2, <1>5, <1>6, <2>2, SpansMeet DEF new_pos
<1>7. ASSUME ~button[1], ~button[0], lit = {PointerCell}
      PROVE  lit' = {PointerCell'}
  <2>1. lit' = update_attribute(update_attribute(lit, PointerCell, 2), new_pos, 2)
    BY <1>1, <1>7, Zenon DEF third_byte, update_cursor
  <2> HIDE DEF new_pos
  <2>2. update_attribute(lit, PointerCell, 2) = {}
    BY <1>7 DEF update_attribute
  <2>3. QED
    BY <1>2, <2>1, <2>2 DEF update_attribute, new_pos
<1>8. QED
  BY <1>6, <1>7

-----------------------------------------------------------------------------
\* A behaviour is one of the mouse's or of the clock's.
DevicesInv == MouseInv /\ ClockInv

\* A step of the clock leaves the mouse alone.
LEMMA MouseStutters ==
  ASSUME MouseInv, UNCHANGED vars
  PROVE  MouseInv'
<1> DEFINE each == <<pc, cpu, pic, output, last, queue, config, mouse_cycle, mouse_byte, button,
                     mouse_x, mouse_y, selected, lit, shells, suspended, ideal, regular>>
<1>1. each' = each
  BY DEF vars, keyboardController, packet, pointer, marks, terminals, history
<1>2. TypeOK'
  BY <1>1 DEF MouseInv, TypeOK
<1>3. PlaceOK' /\ OpenOK'
  BY <1>1 DEF MouseInv, PlaceOK, OpenOK
<1>4. /\ (BootOK => BootOK') /\ (FirstOK => FirstOK') /\ (LinesOK => LinesOK')
  BY <1>1 DEF BootOK, FirstOK, LinesOK, Quiet, OneByte, FromMouse
<1>5. ASSUME NEW b, NEW dx, NEW dy, Leads(b, dx, dy) PROVE Leads(b, dx, dy)'
  BY <1>1, <1>5 DEF Leads, UnderWay, FromMouse
<1>6. PacketOK => PacketOK'
  BY <1>1, <1>5 DEF PacketOK, Arrived, FromMouse
<1>7. QED
  BY <1>1, <1>2, <1>3, <1>4, <1>6 DEF MouseInv

\* Mouse and clock are as their invariants say in every state.
LEMMA DevicesInvariant == DevicesSpec => []DevicesInv
<1>1. DevicesInit => DevicesInv
  BY MouseBegins, ClockBegins DEF DevicesInit, DevicesInv
<1>2. DevicesInv /\ [DevicesNext]_all => DevicesInv'
  <2> SUFFICES ASSUME DevicesInv, [DevicesNext]_all PROVE DevicesInv'
    OBVIOUS
  <2>1. MouseInv /\ UNCHANGED vars => MouseInv'
    BY MouseStutters DEF DevicesInv
  <2>2. ClockInv /\ UNCHANGED clock => ClockInv'
    BY DEF clock, ClockInv, Clock!TypeOK, MaskOK, OneInside, ChipOK, LineOK, RegisterOK,
           Clock!ProgrammedFrequency, Clock!NobodyInside, Clock!Inside
  <2>3. CASE MouseStep
    BY <2>2, <2>3, MouseSteps DEF MouseStep, DevicesInv
  <2>4. CASE ClockStep
    BY <2>1, <2>4, ClockSteps DEF ClockStep, DevicesInv
  <2>5. CASE UNCHANGED all
    BY <2>1, <2>2, <2>5 DEF all, DevicesInv
  <2>6. QED
    BY <2>3, <2>4, <2>5 DEF DevicesNext
<1>3. QED
  BY <1>1, <1>2, PTL DEF DevicesSpec

\* Type correctness: coordinates, registers, masks and packets stay in range, whatever
\* movements, keys and rates; so a char of mouse.c holds every sum it is given.
THEOREM DevicesTypes == DevicesSpec => []TypesOK
<1>1. DevicesInv => TypesOK
  BY DEF DevicesInv, MouseInv, ClockInv, TypesOK
<1>2. QED
  BY <1>1, DevicesInvariant, PTL

\* do_handle_mouse, which never asks whose byte it reads, reads its own: the bytes still
\* to come are those its state waits for, from the first packet on.
THEOREM PacketsStayInStep == DevicesSpec => []PacketsInStep
<1>1. DevicesInv => PacketsInStep
  BY MouseInvImplies DEF DevicesInv
<1>2. QED
  BY <1>1, DevicesInvariant, PTL

\* When a packet is handled the pointer of update_cursor is where all movements
\* together lead: no byte is lost, taken for another or cut off.
THEOREM PointerFollowsMovements == DevicesSpec => []PointerFollows
<1>1. DevicesInv => PointerFollows
  BY MouseInvImplies DEF DevicesInv
<1>2. QED
  BY <1>1, DevicesInvariant, PTL

\* Between the calls of rtc.c line 8 is open, unless rtc_write has left by its early
\* return; no byte sent for another line masks it.
THEOREM LineStaysOpen == DevicesSpec => []LineOpen
<1>1. DevicesInv => LineOpen
  BY ClockInvImplies DEF DevicesInv
<1>2. QED
  BY <1>1, DevicesInvariant, PTL

\* While one process at a time is in rtc_open or rtc_write, and its marking of the
\* line is not taken back before the chip has it, the rate last asked for is the
\* rate set, if it is below 256 Hz: of a larger one rtc_write looks at one byte.
THEOREM RateIsHonoured == DevicesSpec => []RateHonoured
<1>1. DevicesInv => RateHonoured
  BY ClockInvImplies DEF DevicesInv
<1>2. QED
  BY <1>1, DevicesInvariant, PTL

\* Every outb to the clock's data port goes to the register selected for it: no
\* handler and no other process selects another in between.
THEOREM StoresHitTheirRegister == DevicesSpec => []StoreHitsRegister
<1>1. DevicesInv => StoreHitsRegister
  BY ClockInvImplies DEF DevicesInv
<1>2. QED
  BY <1>1, DevicesInvariant, PTL

\* A drag redraws the selection from its first cell to the pointer, and a free pointer
\* has one mark (update_cursor, select).
THEOREM SelectionDrawn == DevicesSpec => DrawsSelection
<1>1. DevicesInv /\ [DevicesNext]_all =>
        [mouse_cycle = 5 /\ mouse_cycle' = 3 =>
          /\ button[1] /\ button[0] /\ lit \subseteq Span(selected[0], PointerCell)
                => lit' = Span(selected[0], PointerCell')
          /\ ~button[1] /\ ~button[0] /\ lit = {PointerCell}
                => lit' = {PointerCell'}]_vars
  <2> SUFFICES ASSUME DevicesInv, [DevicesNext]_all, vars' # vars, mouse_cycle = 5, mouse_cycle' = 3
      PROVE  /\ button[1] /\ button[0] /\ lit \subseteq Span(selected[0], PointerCell)
                   => lit' = Span(selected[0], PointerCell')
             /\ ~button[1] /\ ~button[0] /\ lit = {PointerCell}
                   => lit' = {PointerCell'}
    OBVIOUS
  <2>1. Next
    BY DEF DevicesNext, MouseStep, ClockStep, all
  <2>2. QED
    BY <2>1, Draws DEF DevicesInv
<1>2. QED
  BY <1>1, DevicesInvariant, PTL DEF DevicesSpec, DrawsSelection
============================================================================
