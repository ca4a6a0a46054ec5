------------------------------- MODULE Mouse -------------------------------
(***************************************************************************)
(* The mouse driver, mouse.c, with what the keyboard handler of terminal.c *)
(* shares with it: the output buffer of the keyboard controller, the       *)
(* interrupt controllers and the marks on the screen.                      *)
(*                                                                         *)
(* The keyboard controller has one buffer for the bytes of both devices    *)
(* and for its own answers.  Boot runs with interrupts off and polls; then *)
(* every byte raises line 1 or 12.  A handler's acknowledgement and its    *)
(* body are two steps, because bytes arrive in between.                    *)
(***************************************************************************)
EXTENDS Pic, Sequences

CONSTANTS
    SCREEN_W, SCREEN_H,   \* 80 and 25 in the code
    NUM_TERMINALS,        \* 3 in the code
    Movements,            \* what the mouse reports at once: pairs dx, dy
    Scancode,             \* the byte of a key
    Configuration         \* the controller's configuration byte at boot

\* Pointer coordinates are signed bytes, and a packet moves them by up to 32.
ASSUME MouseAssumption ==
    /\ SCREEN_W \in 1 .. 96 /\ SCREEN_H \in 1 .. 96
    /\ NUM_TERMINALS \in Nat \ {0}
    /\ Movements \subseteq Int \X Int
    /\ Scancode \in 0 .. 255 /\ Configuration \in 0 .. 255

KB_IRQ == 1
MOUSE_IRQ == 12
ACK == 250
Cells == 0 .. SCREEN_W * SCREEN_H - 1

VARIABLES
    pc,           \* where boot is; "run" once it has enabled interrupts
    cpu,          \* "user", or whose interrupt handler is about to run
    pic,          \* the interrupt controllers
    output,       \* the output buffer: << >> or <<[from, byte]>>
    last,         \* the byte a read of the empty buffer returns
    queue,        \* [source -> bytes not yet in the output buffer]
    config,       \* the configuration byte
    mouse_cycle,
    mouse_byte,   \* [0 .. 2 -> signed byte]
    mouse_x, mouse_y,
    button,       \* [0 .. 1]: left button before and in the last packet
    selected,     \* [0 .. 1]: cells of the last press and the last release
    lit,          \* cells with the attribute MOUSE_ATTRIB
    shells,       \* terminals that have a shell
    suspended,    \* keyboard handlers left behind in execute
    ideal,        \* history: where the movements so far should have led
    regular       \* history: no byte before the first interrupt, none too large

keyboardController == <<output, last, queue, config>>
packet == <<mouse_cycle, mouse_byte, button>>
pointer == <<mouse_x, mouse_y>>
marks == <<selected, lit>>
history == <<ideal, regular>>
terminals == <<shells, suspended>>
vars == <<pc, cpu, pic, keyboardController, packet, pointer, marks, terminals, history>>

Sources == {"keyboard", "mouse", "controller"}
SignedBytes == -128 .. 127

-----------------------------------------------------------------------------
(* C arithmetic *)

AsChar(v) == LET b == v % 256 IN IF b > 127 THEN b - 256 ELSE b

\* MUTANT of Quarter: division rounds down.
Quarter_down(b) == b \div 4

Quarter(b) == IF b < 0 THEN -((-b) \div 4) ELSE b \div 4

\* b % 2 == 1: not so for an odd negative number, whose remainder is -1.
Odd(b) == b >= 0 /\ b % 2 = 1

HasBit(b, bit) == (b \div bit) % 2 = 1
WithBit(b, bit) == IF HasBit(b, bit) THEN b ELSE b + bit
WithoutBit(b, bit) == IF HasBit(b, bit) THEN b - bit ELSE b

Clamp(v, bound) == IF v >= bound THEN bound - 1 ELSE IF v < 0 THEN 0 ELSE v

-----------------------------------------------------------------------------
TypeOK ==
    /\ cpu \in {"user", "keyboard", "mouse"}
    /\ pic \in Pairs
    /\ output \in Seq([from : Sources, byte : 0 .. 255]) /\ Len(output) <= 1
    /\ last \in 0 .. 255 /\ config \in 0 .. 255
    /\ queue \in [Sources -> Seq(0 .. 255)]
    /\ mouse_cycle \in {0, 3, 4, 5}
    /\ mouse_byte \in [0 .. 2 -> SignedBytes]
    /\ mouse_x \in 0 .. SCREEN_W - 1 /\ mouse_y \in 0 .. SCREEN_H - 1
    /\ button \in [0 .. 1 -> BOOLEAN]
    /\ selected \in [0 .. 1 -> Cells]
    /\ lit \subseteq Cells
    /\ shells \in 1 .. NUM_TERMINALS /\ suspended \in 0 .. shells - 1

\* entry has called keyboard_init, and mouse_init has cleared its variables.
Init ==
    /\ pc = "enable_aux"
    /\ cpu = "user"
    /\ pic = enable_irq(i8259_init, KB_IRQ)
    /\ output = << >>
    /\ last = 0
    /\ queue = [s \in Sources |-> << >>]
    /\ config = Configuration
    /\ mouse_cycle = 0
    /\ mouse_byte = [k \in 0 .. 2 |-> 0]
    /\ mouse_x = 0 /\ mouse_y = 0
    /\ button = [k \in 0 .. 1 |-> FALSE]
    /\ selected = [k \in 0 .. 1 |-> 0]
    /\ lit = {}
    /\ shells = 1 /\ suspended = 0
    /\ ideal = <<0, 0>>
    /\ regular = TRUE

-----------------------------------------------------------------------------
(* The devices *)

\* The next byte of a source goes to the output buffer and raises its line,
\* if the configuration byte lets it.
deliver(s) ==
    /\ output = << >> /\ queue[s] # << >>
    /\ output' = <<[from |-> s, byte |-> Head(queue[s])]>>
    /\ queue' = [queue EXCEPT ![s] = Tail(@)]
    /\ pic' = IF HasBit(config, IF s = "mouse" THEN 2 ELSE 1)
              THEN Raise(pic, IF s = "mouse" THEN MOUSE_IRQ ELSE KB_IRQ)
              ELSE pic
    /\ UNCHANGED <<pc, cpu, last, config, packet, pointer, marks, terminals, history>>

\* Bound: what came too early is followed until the mouse's first interrupt, and
\* so is a movement too large to its end; after that there are no more inputs.
Followed == regular \/ mouse_cycle = 0

press_key ==
    /\ Followed
    /\ queue["keyboard"] = << >>
    /\ queue' = [queue EXCEPT !["keyboard"] = <<Scancode>>]
    /\ regular' = (regular /\ mouse_cycle # 0)
    /\ UNCHANGED <<pc, cpu, pic, output, last, config, packet, pointer, marks, terminals, ideal>>

\* Once boot has switched reporting on, the mouse sends three bytes at a time:
\* buttons, signs and overflows, then two nine-bit numbers without their signs.
\* The driver looks at the button and, by taking the byte for a signed one, at
\* the top bit, the vertical overflow; of the others only the constant one is kept.
FromMouse == output # << >> /\ output[1].from = "mouse"
Outstanding == Len(queue["mouse"]) + (IF FromMouse THEN 1 ELSE 0)
Reporting == pc \in {"read_enabled", "sti", "run"}

NineBits == -256 .. 255
FirstOfPacket(d, left) ==
    (IF left THEN 1 ELSE 0) + 8 + (IF d[2] \in NineBits THEN 0 ELSE 128)

\* History: the whole cells in a movement, as many one way as the other.
WholeCells(d) == IF d < 0 THEN 0 - (0 - d) \div 4 ELSE d \div 4

move_mouse(d, left) ==
    /\ Followed
    /\ Reporting /\ Outstanding = 0
    /\ queue' = [queue EXCEPT !["mouse"] =
           <<FirstOfPacket(d, left), d[1] % 256, d[2] % 256>>]
    /\ regular' = (regular /\ mouse_cycle # 0 /\ d[1] \in SignedBytes /\ d[2] \in SignedBytes)
    /\ ideal' = IF regular' THEN <<Clamp(ideal[1] + WholeCells(d[1]), SCREEN_W),
                                   Clamp(ideal[2] - WholeCells(d[2]), SCREEN_H)>>
                            ELSE ideal
    /\ UNCHANGED <<pc, cpu, pic, output, last, config, packet, pointer, marks, terminals>>

\* inb of the data port: the byte, and the buffer afterwards.  The last byte is
\* kept while an empty buffer may still be read, which is not so (PacketsInStep)
\* after a regular start.
InByte == IF output = << >> THEN last ELSE output[1].byte

inb ==
    /\ output' = << >>
    /\ last' = IF regular /\ mouse_cycle # 0 THEN 0 ELSE InByte

-----------------------------------------------------------------------------
(* mouse_init and the end of entry, with interrupts off *)

\* What each command of boot puts into a queue, and where boot goes on.
Boot ==
    [enable_aux   |-> [source |-> "controller", answer |-> << >>,      next |-> "read_aux"],
     get_config   |-> [source |-> "controller", answer |-> <<config>>, next |-> "read_config"],
     set_defaults |-> [source |-> "mouse",      answer |-> <<ACK>>,    next |-> "read_defaults"],
     enable_mouse |-> [source |-> "mouse",      answer |-> <<ACK>>,    next |-> "read_enabled"]]

command ==
    /\ pc \in DOMAIN Boot
    /\ queue' = [queue EXCEPT ![Boot[pc].source] = @ \o Boot[pc].answer]
    /\ pc' = Boot[pc].next
    /\ UNCHANGED <<cpu, pic, output, last, config, packet, pointer, marks, terminals, history>>

AfterRead ==
    [read_aux |-> "get_config", read_config |-> "set_config",
     read_defaults |-> "enable_mouse", read_enabled |-> "sti"]

\* mouse_wait gives up when no byte comes: a device that has one is in time.
NothingComes == \A s \in Sources : queue[s] = << >>

\* mouse_read, and the read of the configuration byte; of this the mouse's
\* interrupt is switched on and its clock not off.
mouse_read ==
    /\ pc \in DOMAIN AfterRead
    /\ output # << >> \/ NothingComes
    /\ inb
    /\ config' = IF pc = "read_config" THEN WithoutBit(WithBit(InByte, 2), 32) ELSE config
    /\ pc' = IF pc = "read_config" THEN "set_defaults" ELSE AfterRead[pc]
    /\ UNCHANGED <<cpu, pic, queue, packet, pointer, marks, terminals, history>>

\* The rest of entry: the lines are unmasked, the screen is cleared, sti.
sti ==
    /\ pc = "sti"
    /\ pic' = entry_enables(pic)
    /\ lit' = {}
    /\ pc' = "run"
    /\ UNCHANGED <<cpu, keyboardController, packet, pointer, selected, terminals, history>>

-----------------------------------------------------------------------------
(* Marks on the screen: functions of the set of lit cells *)

update_attribute(L, pos, attrib) ==
    IF (attrib = 2 /\ pos \notin L) \/ attrib = 1 THEN L \cup {pos} ELSE L \ {pos}

Span(a, b) == IF a < b THEN a .. b ELSE b .. a

select(L, a, b, white) == IF white THEN L \cup Span(a, b) ELSE L \ Span(a, b)

Position(x, y) == y * SCREEN_W + x
PointerCell == Position(mouse_x, mouse_y)

reset_cursor(L) == update_attribute(L, PointerCell, 2)

-----------------------------------------------------------------------------
(* The mouse's interrupt *)

Line(device) == IF device = "mouse" THEN MOUSE_IRQ ELSE KB_IRQ

acknowledge(device) ==
    /\ pc = "run" /\ cpu = "user"
    /\ CanDeliver(pic, Line(device))
    /\ pic' = Acknowledge(pic, Line(device))
    /\ cpu' = device
    /\ UNCHANGED <<pc, keyboardController, packet, pointer, marks, terminals, history>>

\* do_handle_mouse up to its read of the port, and its end.
Handles ==
    /\ cpu = "mouse"
    /\ inb
    /\ pic' = enable_irq(send_eoi(pic, MOUSE_IRQ), MOUSE_IRQ)
    /\ cpu' = "user"
    /\ UNCHANGED <<pc, queue, config, terminals, history>>

\* MUTANT of first_interrupt: the first byte is taken for the start of a packet.
first_interrupt_kept ==
    /\ mouse_cycle = 0
    /\ Handles
    /\ mouse_cycle' = 4
    /\ mouse_byte' = [mouse_byte EXCEPT ![0] = AsChar(InByte)]
    /\ UNCHANGED <<button, pointer, marks>>

\* The first interrupt of all is the one of the last acknowledgement, which
\* boot has read: a byte is read and thrown away.
first_interrupt ==
    /\ mouse_cycle = 0
    /\ Handles
    /\ mouse_cycle' = 3
    /\ UNCHANGED <<mouse_byte, button, pointer, marks>>

first_byte ==
    /\ mouse_cycle = 3
    /\ Handles
    /\ mouse_cycle' = 4
    /\ mouse_byte' = [mouse_byte EXCEPT ![0] = AsChar(InByte)]
    /\ button' = [k \in 0 .. 1 |-> Odd(IF k = 0 THEN mouse_byte[0] ELSE AsChar(InByte))]
    /\ UNCHANGED <<pointer, marks>>

second_byte ==
    /\ mouse_cycle = 4
    /\ Handles
    /\ mouse_cycle' = 5
    /\ mouse_byte' = [mouse_byte EXCEPT ![1] = AsChar(InByte)]
    /\ UNCHANGED <<button, pointer, marks>>

\* Where the packet moves the pointer; the sum is a signed byte before the
\* comparisons with the edges.
NewX == Clamp(AsChar(mouse_x + Quarter(mouse_byte[1])), SCREEN_W)
NewY == Clamp(AsChar(mouse_y - Quarter(AsChar(InByte))), SCREEN_H)

\* MUTANT of update_cursor: a drag does not take the old selection away.
update_cursor_no_clear ==
    LET new_pos == Position(NewX, NewY)
        press == button[1] /\ ~button[0]
        drag == button[1] /\ button[0]
        hover == ~button[1] /\ ~button[0]
        release == ~button[1] /\ button[0]
    IN  /\ lit' = CASE press -> select(lit, selected[0], selected[1], FALSE)
                    [] drag -> select(lit, selected[0], new_pos, TRUE)
                    [] hover -> update_attribute(update_attribute(lit, PointerCell, 2), new_pos, 2)
                    [] release -> lit
        /\ selected' = CASE press -> [selected EXCEPT ![0] = new_pos]
                         [] release -> [selected EXCEPT ![1] = new_pos]
                         [] OTHER -> selected
        /\ mouse_x' = NewX /\ mouse_y' = NewY

\* A press takes the old selection away and starts one; a drag redraws it; a
\* release ends it (the click it may be is in module Terminal); otherwise the
\* mark moves with the pointer.
update_cursor ==
    LET new_pos == Position(NewX, NewY)
        press == button[1] /\ ~button[0]
        drag == button[1] /\ button[0]
        hover == ~button[1] /\ ~button[0]
        release == ~button[1] /\ button[0]
    IN  /\ lit' = CASE press -> select(lit, selected[0], selected[1], FALSE)
                    [] drag -> select(select(lit, PointerCell, new_pos, FALSE),
                                      selected[0], new_pos, TRUE)
                    [] hover -> update_attribute(update_attribute(lit, PointerCell, 2), new_pos, 2)
                    [] release -> lit
        /\ selected' = CASE press -> [selected EXCEPT ![0] = new_pos]
                         [] release -> [selected EXCEPT ![1] = new_pos]
                         [] OTHER -> selected
        /\ mouse_x' = NewX /\ mouse_y' = NewY

\* The bytes of the displacement are not looked at again and are forgotten here.
third_byte ==
    /\ mouse_cycle = 5
    /\ Handles
    /\ mouse_cycle' = 3
    /\ mouse_byte' = [mouse_byte EXCEPT ![1] = 0]
    /\ update_cursor
    /\ UNCHANGED button

do_handle_mouse == first_interrupt \/ first_byte \/ second_byte \/ third_byte

-----------------------------------------------------------------------------
(* The keyboard's interrupt: what it does to the state of this module *)

Unselected == select(lit, selected[0], selected[1], FALSE)
KeyboardReads == cpu = "keyboard" /\ inb /\ cpu' = "user"

\* What a key writes over: nothing, a character at the cursor, or with Ctrl-L the
\* screen.  (Marks that scroll with the text are left out.)
Overwritten == {{}, Cells} \cup {{c} : c \in Cells}

\* A key: a byte is read, the selection is taken away, and the key is echoed.
do_handle_keyboard ==
    /\ KeyboardReads
    /\ \E cells \in Overwritten : lit' = Unselected \ cells
    /\ pic' = enable_irq(send_eoi(disable_irq(pic, KB_IRQ), KB_IRQ), KB_IRQ)
    /\ UNCHANGED <<pc, queue, config, packet, pointer, selected, terminals, history>>

\* Alt-F1 to F3 show a page without marks, and the pointer on it; the terminal
\* may be the one shown, or there may be no room for its shell.
switch_terminal ==
    /\ KeyboardReads
    /\ lit' \in {reset_cursor({}), reset_cursor(Unselected)}
    /\ pic' = enable_irq(send_eoi(disable_irq(pic, KB_IRQ), KB_IRQ), KB_IRQ)
    /\ UNCHANGED <<pc, queue, config, packet, pointer, selected, terminals, history>>

\* MUTANT of switch_to_new_terminal: the line is left for the end of the handler.
switch_to_new_terminal_unended ==
    /\ KeyboardReads
    /\ shells < NUM_TERMINALS
    /\ shells' = shells + 1 /\ suspended' = suspended + 1
    /\ lit' = {}
    /\ pic' = disable_irq(pic, KB_IRQ)
    /\ UNCHANGED <<pc, queue, config, packet, pointer, selected, history>>

\* A terminal without a shell gets one: execute goes to the shell from inside
\* the handler, so the interrupt is ended before.
switch_to_new_terminal ==
    /\ KeyboardReads
    /\ shells < NUM_TERMINALS
    /\ shells' = shells + 1 /\ suspended' = suspended + 1
    /\ lit' = {}
    /\ pic' = enable_irq(send_eoi(disable_irq(pic, KB_IRQ), KB_IRQ), KB_IRQ)
    /\ UNCHANGED <<pc, queue, config, packet, pointer, selected, history>>

\* When the timer comes back to the program that was interrupted, execute
\* returns and the handler goes on to its end.
resume_handler ==
    /\ pc = "run" /\ cpu = "user"
    /\ suspended > 0
    /\ suspended' = suspended - 1 /\ UNCHANGED shells
    /\ lit' = reset_cursor(lit)
    /\ pic' = enable_irq(send_eoi(pic, KB_IRQ), KB_IRQ)
    /\ UNCHANGED <<pc, cpu, keyboardController, packet, pointer, selected, history>>

-----------------------------------------------------------------------------
Next ==
    \/ \E s \in Sources : deliver(s)
    \/ press_key
    \/ \E d \in Movements, left \in BOOLEAN : move_mouse(d, left)
    \/ command \/ mouse_read \/ sti
    \/ \E device \in {"keyboard", "mouse"} : acknowledge(device)
    \/ do_handle_mouse
    \/ do_handle_keyboard \/ switch_terminal \/ switch_to_new_terminal \/ resume_handler

Spec == Init /\ [][Next]_vars

\* Boot goes on, the devices hand over what they have, and the processor takes
\* interrupts and runs their handlers; nothing is assumed about keys and
\* movements.
Boots == command \/ mouse_read \/ sti
Delivers == \E s \in Sources : deliver(s)
Handlers == do_handle_mouse \/ do_handle_keyboard

Fairness ==
    /\ WF_vars(Boots)
    /\ WF_vars(Delivers)
    /\ \A device \in {"keyboard", "mouse"} : WF_vars(acknowledge(device))
    /\ WF_vars(Handlers)

FairSpec == Spec /\ Fairness

-----------------------------------------------------------------------------
\* The driver and the mouse agree on where a packet begins, and each handler
\* reads a byte of its own device, although both read one port and neither asks
\* whose byte it holds, provided nothing was sent before the first interrupt.
PacketsInStep ==
    regular /\ pc = "run" =>
        /\ mouse_cycle # 0 /\ Outstanding > 0 => Outstanding = 6 - mouse_cycle
        /\ mouse_cycle # 0 /\ Outstanding = 0 => mouse_cycle = 3
        /\ cpu = "mouse" /\ mouse_cycle # 0 => output # << >> /\ output[1].from = "mouse"
        /\ cpu = "keyboard" /\ mouse_cycle # 0 => output # << >> /\ output[1].from = "keyboard"

\* Then the pointer is where the movements lead, stopped at the edges, whenever
\* no packet is under way.
PointerFollows ==
    regular /\ Outstanding = 0 => <<mouse_x, mouse_y>> = ideal

\* A drag shows what is selected, from the press to the pointer and nothing
\* else, if nothing else was marked; a mark that only follows the pointer goes
\* with it.
DrawsSelection ==
    [][mouse_cycle = 5 /\ mouse_cycle' = 3 =>
          /\ button[1] /\ button[0] /\ lit \subseteq Span(selected[0], PointerCell)
                => lit' = Span(selected[0], PointerCell')
          /\ ~button[1] /\ ~button[0] /\ lit = {PointerCell}
                => lit' = {PointerCell'}]_vars

\* A byte in the output buffer is taken out: neither device waits for ever for
\* its interrupt, although the handlers mask their own lines, the mouse's passes
\* through both controllers, and a keyboard handler may be left in execute.
BytesTaken == regular /\ output # << >> ~> output = << >>
=============================================================================
