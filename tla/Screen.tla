------------------------------- MODULE Screen -------------------------------
(***************************************************************************)
(* Console output: putc, terminal_putc, put_backspace, scroll_up, clear    *)
(* and the screen half of change_video_mem (lib.c), as the keyboard        *)
(* handler, the exception handlers and terminal_write call them.           *)
(*                                                                         *)
(* Video memory holds the screen and, behind it, a page per terminal with  *)
(* what its screen shows.  The handlers run with interrupts off, one step  *)
(* each.  A program's terminal_putc disables them around single accesses   *)
(* only, and is cut there; the cursor's advance behind a character, which  *)
(* calls nothing, is one step.  Attribute bytes are left out.              *)
(***************************************************************************)
EXTENDS Integers, Sequences

CONSTANTS
    NumTerminals,
    NUM_ROWS, NUM_COLS,
    PAGE,         \* cells of a page, 2048 in the code, of which 2000 are shown
    BufferSize,   \* characters of an input line
    Chars,        \* printable characters
    Newline, Blank,
    FaultText     \* what an exception handler prints

ASSUME ScreenAssumption ==
    /\ NumTerminals \in Nat \ {0}
    /\ NUM_ROWS \in Nat \ {0} /\ NUM_COLS \in Nat \ {0}
    /\ PAGE \in Nat /\ PAGE >= NUM_ROWS * NUM_COLS
    /\ BufferSize \in Nat
    /\ Newline # Blank /\ Newline \notin Chars
    /\ FaultText \in Seq(Chars)

Terminals == 0 .. NumTerminals - 1
Cells == 0 .. NUM_ROWS * NUM_COLS - 1
Addresses == 0 .. (NumTerminals + 1) * PAGE - 1

VARIABLES
    mem,                     \* [Addresses -> character]: screen, then pages
    screen_x, screen_y,      \* [t]: where the next character goes
    current_active_terminal,
    curr_buff_pos,           \* [t]: characters on the input line
    pc,                      \* [t]: where the program of t is in terminal_putc
    char,                    \* [t]: its argument, or Newline when it is over
    left,                    \* [t]: loop counter of its scroll_up
    expected                 \* history [t]: an ideal terminal fed with the same

shown == <<mem, screen_x, screen_y>>
program == <<pc, char, left>>
vars == <<shown, current_active_terminal, curr_buff_pos, program, expected>>

Scrolling == {"shift", "shift_video", "erase"}

TypeOK ==
    /\ mem \in [Addresses -> Chars \cup {Blank}]
    /\ screen_x \in [Terminals -> 0 .. NUM_COLS]
    /\ screen_y \in [Terminals -> 0 .. NUM_ROWS]
    /\ current_active_terminal \in Terminals
    /\ curr_buff_pos \in [Terminals -> 0 .. BufferSize]
    /\ pc \in [Terminals -> {"user", "halt", "video", "advance", "newline", "column"}
                              \cup Scrolling]
    /\ char \in [Terminals -> Chars \cup {Newline}]
    /\ left \in [Terminals -> 0 .. NUM_COLS]

-----------------------------------------------------------------------------
(* Video memory.                                                            *)

\* Where the page of t begins; the screen begins at 0.
Page(t) == (t + 1) * PAGE

\* Text memory begins with the screen: a byte in front of it is not shown.
Store(m, address, c) ==
    IF address \in Addresses THEN [m EXCEPT ![address] = c] ELSE m

\* memmove of all rows but the first to the row above.
Shift(m, base) ==
    [a \in Addresses |-> IF a - base \in 0 .. (NUM_ROWS - 1) * NUM_COLS - 1
                         THEN m[a + NUM_COLS] ELSE m[a]]

Position(con, t) == NUM_COLS * con.y[t] + con.x[t]

console == [mem |-> mem, x |-> screen_x, y |-> screen_y]

Commit(con) ==
    mem' = con.mem /\ screen_x' = con.x /\ screen_y' = con.y

\* MUTANT of put_backspace: no step back to the row above.
put_backspace_same_row(con, t) ==
    LET a == current_active_terminal
        p == Position(con, a) - 1
        m == Store(con.mem, Page(t) + p, Blank)
    IN  [con EXCEPT !.x[t] = @ - 1, !.mem = IF t = a THEN Store(m, p, Blank) ELSE m]

\* The cursor that decides which cell is blanked is the active terminal's.
put_backspace(con, t) ==
    LET a == current_active_terminal
        c1 == IF con.x[t] <= 0 THEN [con EXCEPT !.x[t] = @ + NUM_COLS, !.y[t] = @ - 1]
                               ELSE con
        p == Position(c1, a) - 1
        m == Store(c1.mem, Page(t) + p, Blank)
    IN  [c1 EXCEPT !.x[t] = @ - 1, !.mem = IF t = a THEN Store(m, p, Blank) ELSE m]

\* C's remainder has the sign of the dividend.
Remainder(a, b) == IF a >= 0 THEN a % b ELSE -((-a) % b)

\* After a character: true at the end of the last row, else the next position.
AtEnd(con, t) == con.x[t] + 1 = NUM_COLS /\ con.y[t] = NUM_ROWS - 1

Advance(con, t) ==
    LET x == con.x[t] + 1
    IN  [con EXCEPT !.x[t] = x % NUM_COLS,
                    !.y[t] = Remainder(@ + x \div NUM_COLS, NUM_ROWS)]

-----------------------------------------------------------------------------
(* putc, clear: always on the terminal on the screen, interrupts off.       *)

scroll_up(con, x_pos) ==
    LET a == current_active_terminal
        c1 == [con EXCEPT !.mem = Shift(Shift(@, Page(a)), 0)]
        erased[k \in 0 .. x_pos] == IF k = 0 THEN c1 ELSE put_backspace(erased[k - 1], a)
    IN  [erased[x_pos] EXCEPT !.y[a] = NUM_ROWS - 1]

putc(con, c) ==
    LET a == current_active_terminal
        p == Position(con, a)
        c1 == [con EXCEPT !.mem = Store(Store(@, Page(a) + p, c), p, c)]
    IN  IF c = Newline
        THEN IF con.y[a] + 1 = NUM_ROWS
             THEN [scroll_up(con, con.x[a]) EXCEPT !.x[a] = 0]
             ELSE [con EXCEPT !.y[a] = @ + 1, !.x[a] = 0]
        ELSE IF AtEnd(con, a)
             THEN scroll_up([c1 EXCEPT !.x[a] = NUM_COLS], NUM_COLS)
             ELSE Advance(c1, a)

clear(con) ==
    LET a == current_active_terminal
        cells == Cells \cup {Page(a) + p : p \in Cells}
    IN  [con EXCEPT !.mem = [k \in Addresses |-> IF k \in cells THEN Blank ELSE @[k]],
                    !.x[a] = 0, !.y[a] = 0]

\* What an exception handler prints, character by character.
print_fault(con) ==
    LET printed[k \in 0 .. Len(FaultText)] ==
            IF k = 0 THEN con ELSE putc(printed[k - 1], FaultText[k])
    IN  printed[Len(FaultText)]

-----------------------------------------------------------------------------
(* An ideal terminal: rows of characters, a cursor, and at the bottom a new *)
(* row for the one that leaves at the top.                                  *)

BlankRow == [k \in 1 .. NUM_COLS |-> Blank]
BlankTerminal == [rows |-> [k \in 1 .. NUM_ROWS |-> BlankRow], x |-> 0, y |-> 0]

NewRow(e) ==
    IF e.y = NUM_ROWS - 1 THEN [e EXCEPT !.rows = Append(Tail(@), BlankRow), !.x = 0]
                          ELSE [e EXCEPT !.y = @ + 1, !.x = 0]

Shows(e, c) ==
    LET e1 == [e EXCEPT !.rows[e.y + 1][e.x + 1] = c, !.x = @ + 1]
    IN  CASE c = Newline                         -> NewRow(e)
          [] c # Newline /\ e1.x = NUM_COLS      -> NewRow(e1)
          [] c # Newline /\ e1.x # NUM_COLS      -> e1

Erases(e) ==
    LET e1 == IF e.x > 0 THEN [e EXCEPT !.x = @ - 1]
                         ELSE [e EXCEPT !.x = NUM_COLS - 1, !.y = @ - 1]
    IN  [e1 EXCEPT !.rows[e1.y + 1][e1.x + 1] = Blank]

ShowsFault(e) ==
    LET shows[k \in 0 .. Len(FaultText)] ==
            IF k = 0 THEN e ELSE Shows(shows[k - 1], FaultText[k])
    IN  shows[Len(FaultText)]

Expect(t, e) == expected' = [expected EXCEPT ![t] = e]

-----------------------------------------------------------------------------
(* The keyboard handler, the exception handlers, the switch.                *)

\* entry has cleared the screen; the other pages are taken to be blank too.
\* The banner it prints next is characters like those of a program.
Init ==
    /\ mem = [a \in Addresses |-> Blank]
    /\ screen_x = [t \in Terminals |-> 0]
    /\ screen_y = [t \in Terminals |-> 0]
    /\ current_active_terminal = 0
    /\ curr_buff_pos = [t \in Terminals |-> 0]
    /\ pc = [t \in Terminals |-> "user"]
    /\ char = [t \in Terminals |-> Newline]
    /\ left = [t \in Terminals |-> 0]
    /\ expected = [t \in Terminals |-> BlankTerminal]

character(c) ==
    LET a == current_active_terminal
    IN  /\ curr_buff_pos[a] < BufferSize
        /\ curr_buff_pos' = [curr_buff_pos EXCEPT ![a] = @ + 1]
        /\ Commit(putc(console, c))
        /\ Expect(a, Shows(expected[a], c))
        /\ UNCHANGED <<current_active_terminal, program>>

backspace ==
    LET a == current_active_terminal
    IN  /\ curr_buff_pos[a] > 0
        /\ curr_buff_pos' = [curr_buff_pos EXCEPT ![a] = @ - 1]
        /\ Commit(put_backspace(console, a))
        /\ Expect(a, Erases(expected[a]))
        /\ UNCHANGED <<current_active_terminal, program>>

enter ==
    LET a == current_active_terminal
    IN  /\ curr_buff_pos' = [curr_buff_pos EXCEPT ![a] = 0]
        /\ Commit(putc(console, Newline))
        /\ Expect(a, Shows(expected[a], Newline))
        /\ UNCHANGED <<current_active_terminal, program>>

ctrl_l ==
    LET a == current_active_terminal
    IN  /\ curr_buff_pos' = [curr_buff_pos EXCEPT ![a] = 0]
        /\ Commit(clear(console))
        /\ Expect(a, BlankTerminal)
        /\ UNCHANGED <<current_active_terminal, program>>

\* A program on t faults: the name of the exception is shown, whichever terminal
\* is on the screen, after clear but for page_fault.
fault(t) ==
    LET a == current_active_terminal
    IN  /\ pc[t] = "user"
        /\ pc' = [pc EXCEPT ![t] = "halt"]
        /\ \/ /\ Commit(print_fault(clear(console)))
              /\ Expect(a, ShowsFault(BlankTerminal))
           \/ /\ Commit(print_fault(console))
              /\ Expect(a, ShowsFault(expected[a]))
        /\ UNCHANGED <<current_active_terminal, curr_buff_pos, char, left>>

\* halt, after a fault or called by the program, empties the input line of the
\* program's terminal.
clear_buffer(t) ==
    /\ pc[t] \in {"user", "halt"}
    /\ pc' = [pc EXCEPT ![t] = "user"]
    /\ curr_buff_pos' = [curr_buff_pos EXCEPT ![t] = 0]
    /\ UNCHANGED <<shown, current_active_terminal, char, left, expected>>

\* terminal_read, given a clicked row, empties that of the terminal on the screen.
read_row(t) ==
    /\ pc[t] = "user"
    /\ curr_buff_pos' = [curr_buff_pos EXCEPT ![current_active_terminal] = 0]
    /\ UNCHANGED <<shown, current_active_terminal, program, expected>>

\* Alt+Fn shows the page of t.  (When it fails nothing changes.)
change_video_mem(t) ==
    /\ t # current_active_terminal
    /\ current_active_terminal' = t
    /\ mem' = [a \in Addresses |-> IF a \in Cells THEN mem[Page(t) + a] ELSE mem[a]]
    /\ UNCHANGED <<screen_x, screen_y, curr_buff_pos, program, expected>>

-----------------------------------------------------------------------------
(* terminal_putc, called by terminal_write for each byte, with interrupts   *)
(* on outside the accesses to the screen.                                   *)

Goto(t, l) == pc' = [pc EXCEPT ![t] = l]

\* MUTANT of putc_newline: the column is reset before the call of scroll_up.
putc_newline_reset_first(t) ==
    /\ pc[t] = "user"
    /\ screen_y' = [screen_y EXCEPT ![t] = @ + 1]
    /\ screen_x' = [screen_x EXCEPT ![t] = 0]
    /\ char' = [char EXCEPT ![t] = Newline]
    /\ Goto(t, "newline")
    /\ Expect(t, Shows(expected[t], Newline))
    /\ UNCHANGED <<mem, current_active_terminal, curr_buff_pos, left>>

\* A newline: the cursor goes down, which may leave the screen,
putc_newline(t) ==
    /\ pc[t] = "user"
    /\ screen_y' = [screen_y EXCEPT ![t] = @ + 1]
    /\ char' = [char EXCEPT ![t] = Newline]
    /\ Goto(t, "newline")
    /\ Expect(t, Shows(expected[t], Newline))
    /\ UNCHANGED <<mem, screen_x, current_active_terminal, curr_buff_pos, left>>

\* then it is put back and scroll_up called;
newline_row(t) ==
    /\ pc[t] = "newline"
    /\ IF screen_y[t] = NUM_ROWS
       THEN /\ screen_y' = [screen_y EXCEPT ![t] = @ - 1]
            /\ left' = [left EXCEPT ![t] = screen_x[t]]
            /\ Goto(t, "shift")
       ELSE /\ Goto(t, "column")
            /\ UNCHANGED <<screen_y, left>>
    /\ UNCHANGED <<mem, screen_x, current_active_terminal, curr_buff_pos, char, expected>>

\* at last, after scroll_up too, it goes to the first column.
newline_column(t) ==
    /\ pc[t] = "column"
    /\ screen_x' = [screen_x EXCEPT ![t] = 0]
    /\ Goto(t, "user")
    /\ UNCHANGED <<mem, screen_y, current_active_terminal, curr_buff_pos, char, left,
                   expected>>

\* Any other character is first stored in the terminal's own page,
putc_page(t, c) ==
    /\ pc[t] = "user"
    /\ mem' = Store(mem, Page(t) + Position(console, t), c)
    /\ char' = [char EXCEPT ![t] = c]
    /\ Goto(t, "video")
    /\ Expect(t, Shows(expected[t], c))
    /\ UNCHANGED <<screen_x, screen_y, current_active_terminal, curr_buff_pos, left>>

\* MUTANT of putc_video: the screen is written whoever is on it.
putc_video_always(t) ==
    /\ pc[t] = "video"
    /\ mem' = Store(mem, Position(console, t), char[t])
    /\ Goto(t, "advance")
    /\ UNCHANGED <<screen_x, screen_y, current_active_terminal, curr_buff_pos, char, left,
                   expected>>

\* then on the screen if its terminal is there,
putc_video(t) ==
    /\ pc[t] = "video"
    /\ mem' = IF current_active_terminal = t
              THEN Store(mem, Position(console, t), char[t]) ELSE mem
    /\ Goto(t, "advance")
    /\ UNCHANGED <<screen_x, screen_y, current_active_terminal, curr_buff_pos, char, left,
                   expected>>

\* and the cursor moves on.
putc_advance(t) ==
    /\ pc[t] = "advance"
    /\ IF AtEnd(console, t)
       THEN /\ screen_x' = [screen_x EXCEPT ![t] = @ + 1]
            /\ left' = [left EXCEPT ![t] = NUM_COLS]
            /\ Goto(t, "shift")
            /\ UNCHANGED <<mem, screen_y, char>>
       ELSE /\ Commit(Advance(console, t))
            /\ char' = [char EXCEPT ![t] = Newline]
            /\ Goto(t, "user")
            /\ UNCHANGED left
    /\ UNCHANGED <<current_active_terminal, curr_buff_pos, expected>>

\* scroll_up: the page, the screen if it shows the page, the bottom row.
shift_page(t) ==
    /\ pc[t] = "shift"
    /\ mem' = Shift(mem, Page(t))
    /\ Goto(t, "shift_video")
    /\ UNCHANGED <<screen_x, screen_y, current_active_terminal, curr_buff_pos, char, left,
                   expected>>

shift_video(t) ==
    /\ pc[t] = "shift_video"
    /\ mem' = IF current_active_terminal = t THEN Shift(mem, 0) ELSE mem
    /\ Goto(t, "erase")
    /\ UNCHANGED <<screen_x, screen_y, current_active_terminal, curr_buff_pos, char, left,
                   expected>>

erase(t) ==
    /\ pc[t] = "erase" /\ left[t] > 0
    /\ Commit(put_backspace(console, t))
    /\ left' = [left EXCEPT ![t] = @ - 1]
    /\ UNCHANGED <<current_active_terminal, curr_buff_pos, pc, char, expected>>

scrolled(t) ==
    /\ pc[t] = "erase" /\ left[t] = 0
    /\ screen_y' = [screen_y EXCEPT ![t] = NUM_ROWS - 1]
    /\ Goto(t, IF char[t] = Newline THEN "column" ELSE "user")
    /\ char' = [char EXCEPT ![t] = Newline]
    /\ UNCHANGED <<mem, screen_x, current_active_terminal, curr_buff_pos, left, expected>>

-----------------------------------------------------------------------------
(* Specifications.                                                          *)

Inside(t) ==
    \/ newline_row(t) \/ newline_column(t)
    \/ putc_video(t) \/ putc_advance(t)
    \/ shift_page(t) \/ shift_video(t) \/ erase(t) \/ scrolled(t)
    \/ clear_buffer(t) \/ read_row(t)

Calls(t) == putc_newline(t) \/ \E c \in Chars : putc_page(t, c)

Handlers ==
    \/ \E c \in Chars : character(c)
    \/ enter
    \/ ctrl_l
    \/ \E t \in Terminals : fault(t)

Next ==
    \/ Handlers
    \/ backspace
    \/ \E t \in Terminals : change_video_mem(t) \/ Calls(t) \/ Inside(t)

\* Every interleaving.
Spec == Init /\ [][Next]_vars

\* The conditions under which the code does what a terminal should.  The
\* program of the terminal shown is not inside terminal_putc when a handler
\* writes on the screen;
Quiet == pc[current_active_terminal] \in {"user", "halt"}

\* Backspace is not pressed in the top left corner;
Corner ==
    /\ screen_x[current_active_terminal] = 0
    /\ screen_y[current_active_terminal] = 0

\* nobody switches while a program scrolls or is about to;
Scrolls(t) ==
    \/ pc[t] \in Scrolling
    \/ pc[t] \in {"video", "advance"} /\ AtEnd(console, t)
    \/ pc[t] = "newline" /\ screen_y[t] = NUM_ROWS

StillSwitch(t) == change_video_mem(t) /\ \A u \in Terminals : ~Scrolls(u)

\* and a program writes in the last row only when its terminal is shown.
ShownCall(t) ==
    /\ t = current_active_terminal \/ screen_y[t] < NUM_ROWS - 1
    /\ Calls(t)

NextCalm ==
    \/ Quiet /\ Handlers
    \/ Quiet /\ ~Corner /\ backspace
    \/ \E t \in Terminals : StillSwitch(t) \/ ShownCall(t) \/ Inside(t)

CalmSpec == Init /\ [][NextCalm]_vars

\* All of these but the last: programs write in the background as they like.
NextBackground ==
    \/ Quiet /\ Handlers
    \/ Quiet /\ ~Corner /\ backspace
    \/ \E t \in Terminals : StillSwitch(t) \/ Calls(t) \/ Inside(t)

BackgroundSpec == Init /\ [][NextBackground]_vars

-----------------------------------------------------------------------------
(* Properties.                                                              *)

CellsFrom(base) == [p \in Cells |-> mem[base + p]]

\* The screen shows the page of the terminal that is on it, except between a
\* program's access to the page and its access to the screen: whatever the others
\* write, and also when the terminal is switched between the two stores of a
\* character.  Between the two memmoves of scroll_up it would not; CalmSpec has no
\* switch there (StillSwitch).
Mirror ==
    pc[current_active_terminal] \notin {"video", "shift_video"} =>
        CellsFrom(0) = CellsFrom(Page(current_active_terminal))

\* Outside terminal_putc a terminal's page and cursor are those of an ideal
\* terminal that was given the same characters, keys and messages: no write of
\* another terminal shows, wrapping and scrolling lose nothing, and the row that
\* comes in at the bottom is blank.
Faithful ==
    \A t \in Terminals :
        pc[t] \in {"user", "halt"} =>
            /\ \A r \in 1 .. NUM_ROWS, k \in 1 .. NUM_COLS :
                  mem[Page(t) + NUM_COLS * (r - 1) + k - 1] = expected[t].rows[r][k]
            /\ <<screen_x[t], screen_y[t]>> = <<expected[t].x, expected[t].y>>
=============================================================================
