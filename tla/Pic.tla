-------------------------------- MODULE Pic --------------------------------
(***************************************************************************)
(* The two cascaded interrupt controllers and the driver i8259.c.          *)
(*                                                                         *)
(* The operators take a controller pair and give the one after.  A pair is *)
(* a record of sets of lines: mask is the driver's master_mask and         *)
(* slave_mask, imr what the chips were last told, irr the latched requests *)
(* and in_service the requests delivered and not ended.                    *)
(***************************************************************************)
EXTENDS Integers

Lines == 0 .. 15
Slave == 8 .. 15
SLAVE_IRQ == 2

Pairs == [mask : SUBSET Lines, imr : SUBSET Lines, irr : SUBSET Lines,
          in_service : SUBSET Lines]

Half(n) == IF n \in Slave THEN Slave ELSE Lines \ Slave

\* Every line masked, no request.
i8259_init == [mask |-> Lines, imr |-> Lines, irr |-> {}, in_service |-> {}]

-----------------------------------------------------------------------------
(* The driver.  The variable is changed first and then sent to the chip.    *)

Mark(c, n) == [c EXCEPT !.mask = @ \cup {n}]
Unmark(c, n) == [c EXCEPT !.mask = @ \ {n}]

\* outb of a value of the mask variable to the chip that line n is on.
Out(c, n, value) == [c EXCEPT !.imr = (@ \ Half(n)) \cup (value \cap Half(n))]

enable_irq(c, n) == LET d == Unmark(c, n) IN Out(d, n, d.mask)
disable_irq(c, n) == LET d == Mark(c, n) IN Out(d, n, d.mask)

\* send_eoi also masks the line; the handlers unmask it afterwards.
send_eoi(c, n) ==
    [disable_irq(c, n) EXCEPT !.in_service = @ \ (IF n \in Slave THEN {n, SLAVE_IRQ} ELSE {n})]

\* entry unmasks the keyboard, the cascade, the clock, the mouse and the timer.
entry_enables(c) ==
    enable_irq(enable_irq(enable_irq(enable_irq(enable_irq(c, 1), SLAVE_IRQ), 8), 12), 0)

-----------------------------------------------------------------------------
(* The chips: edges are latched, masked or not; the slave's lines have the  *)
(* place of line 2 in the order of priority.                                *)

Raise(c, n) == [c EXCEPT !.irr = @ \cup {n}]

Rank(n) == IF n \in Slave THEN n ELSE IF n > SLAVE_IRQ THEN n + 16 ELSE n + 6

Waiting(c, n) ==
    /\ n \in c.irr \ c.imr
    /\ n \in Slave => SLAVE_IRQ \notin c.imr
    /\ \A m \in c.in_service : Rank(n) < Rank(m)

CanDeliver(c, n) == Waiting(c, n) /\ \A m \in Lines : Waiting(c, m) => Rank(n) <= Rank(m)

Acknowledge(c, n) ==
    [c EXCEPT !.irr = @ \ {n},
              !.in_service = @ \cup (IF n \in Slave THEN {n, SLAVE_IRQ} ELSE {n})]
=============================================================================
