------------------------------ MODULE Terminal ------------------------------
(***************************************************************************)
(* Line input: the keyboard handler of terminal.c, the click of mouse.c    *)
(* that submits a screen row, terminal_read, and the clear_buffer call of  *)
(* halt.                                                                   *)
(*                                                                         *)
(* The two interrupt handlers run with interrupts off and are one step     *)
(* each.  terminal_read and clear_buffer run with interrupts on (int 0x80  *)
(* is a trap gate), so each of their accesses to shared memory is a step   *)
(* of its own.  Every terminal has one program that may be inside them.    *)
(*                                                                         *)
(* The screen is not modelled here, and a keyboard map is reduced to the   *)
(* characters it yields: shift and caps lock only choose between maps.     *)
(***************************************************************************)
EXTENDS Integers, Sequences, SequencesExt

CONSTANTS
    NumTerminals,  \* NUM_TERMINALS, terminal.h
    BufferSize,    \* BUFFER_SIZE, terminal.h
    Chars,         \* what the maps yield, apart from '\b' and '\n'
    LChar,         \* the character that Ctrl turns into clear-screen
    Rows,          \* the screen rows a click can submit
    RowLength,     \* bytes of one, 32 in the code
    Requests       \* the nbytes arguments of terminal_read

Terminals == 0 .. NumTerminals - 1
Positions == 0 .. BufferSize - 1

NUL == "NUL"
Newline == "newline"
Unset == "unset"      \* a byte of the caller's buffer nobody has written

ASSUME TerminalAssumption ==
    /\ NumTerminals \in Nat \ {0}
    /\ BufferSize \in Nat \ {0}
    /\ LChar \in Chars
    /\ NUL \notin Chars
    /\ \A n \in Requests : n \in Nat

ASSUME RowAssumption == RowLength \in 1 .. BufferSize

VARIABLES
    input_buffer,             \* [t][i]: the line being typed on each terminal
    curr_buff_pos,            \* [t]: its length
    enter_buffer,             \* the last line entered, shared by all terminals
    enter_flag,               \* [t]: Enter or a click has not been seen by a read
    mouse_command,            \* the clicked row, or NUL
    current_active_terminal,  \* the terminal on the screen
    ctrl_flag,
    alt_flag,
    pc,                       \* [t]: where the program of t is
    nbytes,                   \* [t]: argument of its terminal_read
    idx,                      \* [t]: its loop variable
    buf,                      \* [t]: the caller's buffer, and what is behind its nbytes
    ret,                      \* [t]: value returned by its last terminal_read
    typed,                    \* history [t]: the characters the user has on the line
    sent                      \* history [t]: {} or {the line last entered and not yet read}

keyboard == <<input_buffer, curr_buff_pos, enter_buffer, current_active_terminal,
              ctrl_flag, alt_flag>>
reader == <<pc, nbytes, idx, buf, ret>>
vars == <<keyboard, enter_flag, mouse_command, reader, typed, sent>>

EmptyLine == [k \in Positions |-> NUL]
FreshBuf == [k \in 0 .. BufferSize |-> Unset]

TypeOK ==
    /\ input_buffer \in [Terminals -> [Positions -> Chars \cup {NUL}]]
    /\ curr_buff_pos \in [Terminals -> 0 .. BufferSize]
    /\ enter_buffer \in [Positions -> Chars \cup {NUL}]
    /\ enter_flag \in [Terminals -> {0, 1}]
    /\ mouse_command \in Rows \cup {NUL}
    /\ current_active_terminal \in Terminals
    /\ ctrl_flag \in {0, 1}
    /\ alt_flag \in {0, 1}
    /\ pc \in [Terminals -> {"user", "spin", "ack", "copy", "test", "row", "row_ack",
                             "row_reset", "row_clear", "done", "clear"}]
    /\ nbytes \in [Terminals -> Requests \cup {0}]
    /\ idx \in [Terminals -> 0 .. BufferSize]

\* terminal_open, called once by entry with current_active_terminal = 0.
Init ==
    /\ input_buffer = [t \in Terminals |-> EmptyLine]
    /\ curr_buff_pos = [t \in Terminals |-> 0]
    /\ enter_buffer = EmptyLine
    /\ enter_flag = [t \in Terminals |-> 0]
    /\ mouse_command = NUL
    /\ current_active_terminal = 0
    /\ ctrl_flag = 0
    /\ alt_flag = 0
    /\ pc = [t \in Terminals |-> "user"]
    /\ nbytes = [t \in Terminals |-> 0]
    /\ idx = [t \in Terminals |-> 0]
    /\ buf = [t \in Terminals |-> FreshBuf]
    /\ ret = [t \in Terminals |-> 0]
    /\ typed = [t \in Terminals |-> << >>]
    /\ sent = [t \in Terminals |-> {}]

-----------------------------------------------------------------------------
(* do_handle_keyboard.                                                      *)

\* Ctrl or Alt goes down (1) or up (0); neither yields a character.
ctrl(v) ==
    /\ ctrl_flag' = v
    /\ UNCHANGED <<input_buffer, curr_buff_pos, enter_buffer, current_active_terminal,
                   alt_flag, enter_flag, mouse_command, reader, typed, sent>>

alt(v) ==
    /\ alt_flag' = v
    /\ UNCHANGED <<input_buffer, curr_buff_pos, enter_buffer, current_active_terminal,
                   ctrl_flag, enter_flag, mouse_command, reader, typed, sent>>

\* Alt+F1..F3: change_video_mem shows another terminal.
switch_terminal(t) ==
    /\ alt_flag = 1
    /\ current_active_terminal' = t
    /\ UNCHANGED <<input_buffer, curr_buff_pos, enter_buffer, ctrl_flag, alt_flag,
                   enter_flag, mouse_command, reader, typed, sent>>

\* The line's last byte is cleared before the position is tested: on an empty
\* line the byte is the last one of the terminal laid out before it (for
\* terminal 0 a byte in front of the array, which is no part of the state: in the
\* shipped kernel image the linker's padding).
backspace ==
    LET t == current_active_terminal
        p == curr_buff_pos[t]
    IN  /\ input_buffer' =
             CASE p > 0            -> [input_buffer EXCEPT ![t][p - 1] = NUL]
               [] p = 0 /\ t > 0   -> [input_buffer EXCEPT ![t - 1][BufferSize - 1] = NUL]
               [] p = 0 /\ t = 0   -> input_buffer
        /\ curr_buff_pos' = [curr_buff_pos EXCEPT ![t] = IF p > 0 THEN p - 1 ELSE 0]
        /\ typed' = [typed EXCEPT ![t] = IF p > 0 THEN Front(@) ELSE @]
        /\ UNCHANGED <<enter_buffer, current_active_terminal, ctrl_flag, alt_flag,
                       enter_flag, mouse_command, reader, sent>>

\* MUTANT of enter: only the bytes in front of the position are copied.
enter_typed_only ==
    LET t == current_active_terminal
    IN  /\ enter_flag' = [enter_flag EXCEPT ![t] = 1]
        /\ enter_buffer' = [k \in Positions |-> IF k < curr_buff_pos[t] THEN input_buffer[t][k]
                                                                         ELSE enter_buffer[k]]
        /\ input_buffer' = [input_buffer EXCEPT ![t] = EmptyLine]
        /\ curr_buff_pos' = [curr_buff_pos EXCEPT ![t] = 0]
        /\ sent' = [sent EXCEPT ![t] = {typed[t]}]
        /\ typed' = [typed EXCEPT ![t] = << >>]
        /\ UNCHANGED <<current_active_terminal, ctrl_flag, alt_flag, mouse_command, reader>>

enter ==
    LET t == current_active_terminal
    IN  /\ enter_flag' = [enter_flag EXCEPT ![t] = 1]
        /\ enter_buffer' = input_buffer[t]
        /\ input_buffer' = [input_buffer EXCEPT ![t] = EmptyLine]
        /\ curr_buff_pos' = [curr_buff_pos EXCEPT ![t] = 0]
        /\ sent' = [sent EXCEPT ![t] = {typed[t]}]
        /\ typed' = [typed EXCEPT ![t] = << >>]
        /\ UNCHANGED <<current_active_terminal, ctrl_flag, alt_flag, mouse_command, reader>>

\* MUTANT of ctrl_l: the position is reset, the bytes stay.
ctrl_l_position_only ==
    LET t == current_active_terminal
    IN  /\ ctrl_flag = 1
        /\ curr_buff_pos' = [curr_buff_pos EXCEPT ![t] = 0]
        /\ typed' = [typed EXCEPT ![t] = << >>]
        /\ UNCHANGED <<input_buffer, enter_buffer, current_active_terminal, ctrl_flag, alt_flag,
                       enter_flag, mouse_command, reader, sent>>

ctrl_l ==
    LET t == current_active_terminal
    IN  /\ ctrl_flag = 1
        /\ input_buffer' = [input_buffer EXCEPT ![t] = EmptyLine]
        /\ curr_buff_pos' = [curr_buff_pos EXCEPT ![t] = 0]
        /\ typed' = [typed EXCEPT ![t] = << >>]
        /\ UNCHANGED <<enter_buffer, current_active_terminal, ctrl_flag, alt_flag,
                       enter_flag, mouse_command, reader, sent>>

\* MUTANT of HasRoom: one character too many.
HasRoom_one_more(t) == curr_buff_pos[t] <= BufferSize

HasRoom(t) == curr_buff_pos[t] < BufferSize

\* An ordinary character; on a full line it is dropped.
character(c) ==
    LET t == current_active_terminal
    IN  /\ ~(c = LChar /\ ctrl_flag = 1)
        /\ HasRoom(t)
        /\ input_buffer' = [input_buffer EXCEPT ![t][curr_buff_pos[t]] = c]
        /\ curr_buff_pos' = [curr_buff_pos EXCEPT ![t] = @ + 1]
        /\ typed' = [typed EXCEPT ![t] = Append(@, c)]
        /\ UNCHANGED <<enter_buffer, current_active_terminal, ctrl_flag, alt_flag,
                       enter_flag, mouse_command, reader, sent>>

do_handle_keyboard ==
    \/ \E v \in {0, 1} : ctrl(v) \/ alt(v)
    \/ \E t \in Terminals : switch_terminal(t)
    \/ backspace
    \/ enter
    \/ ctrl_l
    \/ \E c \in Chars : character(c)

\* do_handle_mouse at the end of a click: the row is submitted as if typed.
run_prog(row) ==
    /\ mouse_command' = row
    /\ enter_flag' = [enter_flag EXCEPT ![current_active_terminal] = 1]
    /\ UNCHANGED <<keyboard, reader, typed, sent>>

-----------------------------------------------------------------------------
(* terminal_read(fd, buf, n) by the program of terminal t.                  *)

Goto(t, l) == pc' = [pc EXCEPT ![t] = l]

read_call(t, n) ==
    /\ pc[t] = "user"
    /\ Goto(t, "spin")
    /\ nbytes' = [nbytes EXCEPT ![t] = n]
    /\ UNCHANGED <<keyboard, enter_flag, mouse_command, idx, buf, ret, typed, sent>>

\* MUTANT of Woken: spin on the flag of the terminal on the screen.
Woken_on_screen(t) == enter_flag[current_active_terminal] = 1

Woken(t) == enter_flag[t] = 1

\* The spin ends; a pending click takes precedence over a typed line.
read_wake(t) ==
    /\ pc[t] = "spin"
    /\ Woken(t)
    /\ idx' = [idx EXCEPT ![t] = 0]
    /\ Goto(t, IF mouse_command # NUL THEN "row" ELSE "ack")
    /\ UNCHANGED <<keyboard, enter_flag, mouse_command, nbytes, buf, ret, typed, sent>>

read_ack(t) ==
    /\ pc[t] = "ack"
    /\ enter_flag' = [enter_flag EXCEPT ![t] = 0]
    /\ idx' = [idx EXCEPT ![t] = 0]
    /\ Goto(t, "copy")
    /\ UNCHANGED <<keyboard, mouse_command, nbytes, buf, ret, typed, sent>>

Count(t) == IF nbytes[t] > BufferSize THEN BufferSize ELSE nbytes[t]

read_copy(t) ==
    /\ pc[t] = "copy"
    /\ idx[t] < Count(t)
    /\ buf' = [buf EXCEPT ![t][idx[t]] = enter_buffer[idx[t]]]
    /\ Goto(t, "test")
    /\ UNCHANGED <<keyboard, enter_flag, mouse_command, nbytes, idx, ret, typed, sent>>

\* enter_buffer[i] is loaded a second time for the test.
read_test(t) ==
    /\ pc[t] = "test"
    /\ enter_buffer[idx[t]] # NUL
    /\ idx' = [idx EXCEPT ![t] = @ + 1]
    /\ Goto(t, "copy")
    /\ UNCHANGED <<keyboard, enter_flag, mouse_command, nbytes, buf, ret, typed, sent>>

\* End of the line or of the loop: the newline goes after the last byte.
read_newline(t) ==
    /\ \/ pc[t] = "test" /\ enter_buffer[idx[t]] = NUL
       \/ pc[t] = "copy" /\ idx[t] = Count(t)
    /\ buf' = [buf EXCEPT ![t][idx[t]] = Newline]
    /\ ret' = [ret EXCEPT ![t] = idx[t] + 1]
    /\ Goto(t, "done")
    /\ UNCHANGED <<keyboard, enter_flag, mouse_command, nbytes, idx, typed, sent>>

\* The clicked row: copied byte by byte, all of it whatever nbytes is, forgotten,
\* the flag acknowledged, and the line of whatever terminal is on the screen at
\* each step cleared.  A byte of a row is known by its row; the strncpy that
\* forgets it is one step.
read_row(t) ==
    /\ pc[t] = "row"
    /\ idx[t] < RowLength
    /\ buf' = [buf EXCEPT ![t][idx[t]] = mouse_command]
    /\ idx' = [idx EXCEPT ![t] = @ + 1]
    /\ UNCHANGED <<keyboard, enter_flag, mouse_command, pc, nbytes, ret, typed, sent>>

read_row_forget(t) ==
    /\ pc[t] = "row"
    /\ idx[t] = RowLength
    /\ mouse_command' = NUL
    /\ Goto(t, "row_ack")
    /\ UNCHANGED <<keyboard, enter_flag, nbytes, idx, buf, ret, typed, sent>>

\* MUTANT of read_row_ack: back to the spin instead of on to the return.
read_row_ack_retry(t) ==
    /\ pc[t] = "row_ack"
    /\ enter_flag' = [enter_flag EXCEPT ![t] = 0]
    /\ Goto(t, "spin")
    /\ UNCHANGED <<keyboard, mouse_command, nbytes, idx, buf, ret, typed, sent>>

read_row_ack(t) ==
    /\ pc[t] = "row_ack"
    /\ enter_flag' = [enter_flag EXCEPT ![t] = 0]
    /\ Goto(t, "row_reset")
    /\ UNCHANGED <<keyboard, mouse_command, nbytes, idx, buf, ret, typed, sent>>

read_row_reset(t) ==
    /\ pc[t] = "row_reset"
    /\ curr_buff_pos' = [curr_buff_pos EXCEPT ![current_active_terminal] = 0]
    /\ typed' = [typed EXCEPT ![current_active_terminal] = << >>]
    /\ idx' = [idx EXCEPT ![t] = 0]
    /\ Goto(t, "row_clear")
    /\ UNCHANGED <<input_buffer, enter_buffer, current_active_terminal, ctrl_flag, alt_flag,
                   enter_flag, mouse_command, nbytes, buf, ret, sent>>

read_row_clear(t) ==
    /\ pc[t] = "row_clear"
    /\ idx[t] < BufferSize
    /\ input_buffer' = [input_buffer EXCEPT ![current_active_terminal][idx[t]] = NUL]
    /\ idx' = [idx EXCEPT ![t] = @ + 1]
    /\ UNCHANGED <<curr_buff_pos, enter_buffer, current_active_terminal, ctrl_flag, alt_flag,
                   enter_flag, mouse_command, pc, nbytes, buf, ret, typed, sent>>

read_row_done(t) ==
    /\ pc[t] = "row_clear"
    /\ idx[t] = BufferSize
    /\ ret' = [ret EXCEPT ![t] = RowLength]
    /\ Goto(t, "done")
    /\ UNCHANGED <<keyboard, enter_flag, mouse_command, nbytes, idx, buf, typed, sent>>

\* Back in the program, which is done with what it read.
read_return(t) ==
    /\ pc[t] = "done"
    /\ Goto(t, "user")
    /\ nbytes' = [nbytes EXCEPT ![t] = 0]
    /\ idx' = [idx EXCEPT ![t] = 0]
    /\ buf' = [buf EXCEPT ![t] = FreshBuf]
    /\ ret' = [ret EXCEPT ![t] = 0]
    /\ sent' = [sent EXCEPT ![t] = {}]
    /\ UNCHANGED <<keyboard, enter_flag, mouse_command, typed>>

-----------------------------------------------------------------------------
(* clear_buffer(t), called by halt when a program of t ends; the program    *)
(* that goes on is its parent or a new shell, again the program of t.       *)

halt_call(t) ==
    /\ pc[t] = "user"
    /\ curr_buff_pos' = [curr_buff_pos EXCEPT ![t] = 0]
    /\ typed' = [typed EXCEPT ![t] = << >>]
    /\ idx' = [idx EXCEPT ![t] = 0]
    /\ Goto(t, "clear")
    /\ UNCHANGED <<input_buffer, enter_buffer, current_active_terminal, ctrl_flag, alt_flag,
                   enter_flag, mouse_command, nbytes, buf, ret, sent>>

clear_buffer(t) ==
    /\ pc[t] = "clear"
    /\ idx[t] < BufferSize
    /\ input_buffer' = [input_buffer EXCEPT ![t][idx[t]] = NUL]
    /\ idx' = [idx EXCEPT ![t] = @ + 1]
    /\ UNCHANGED <<curr_buff_pos, enter_buffer, current_active_terminal, ctrl_flag, alt_flag,
                   enter_flag, mouse_command, pc, nbytes, buf, ret, typed, sent>>

halt_done(t) ==
    /\ pc[t] = "clear"
    /\ idx[t] = BufferSize
    /\ idx' = [idx EXCEPT ![t] = 0]
    /\ Goto(t, "user")
    /\ UNCHANGED <<keyboard, enter_flag, mouse_command, nbytes, buf, ret, typed, sent>>

-----------------------------------------------------------------------------
TypedRead(t) == read_wake(t) \/ read_ack(t) \/ read_copy(t) \/ read_test(t) \/ read_newline(t)

RowRead(t) == \/ read_row(t) \/ read_row_forget(t) \/ read_row_ack(t)
              \/ read_row_reset(t) \/ read_row_clear(t) \/ read_row_done(t)

Program(t) ==
    \/ \E n \in Requests : read_call(t, n)
    \/ TypedRead(t)
    \/ RowRead(t)
    \/ read_return(t)
    \/ halt_call(t)
    \/ clear_buffer(t)
    \/ halt_done(t)

KeyboardNext == do_handle_keyboard \/ \E t \in Terminals : Program(t)

Next == KeyboardNext \/ \E row \in Rows : run_prog(row)

\* The whole of line input.
Spec == Init /\ [][Next]_vars

\* Nobody clicks.
KeyboardSpec == Init /\ [][KeyboardNext]_vars

\* A user who leaves the kernel the time it needs: no key goes down while a
\* program is between taking a line and returning it or is clearing its own,
\* and Backspace is not pressed on an empty line.
Settled == \A t \in Terminals : pc[t] \in {"user", "spin"}

SettledKey(mayEnter) ==
    /\ Settled
    /\ \/ \E v \in {0, 1} : ctrl(v) \/ alt(v)
       \/ \E t \in Terminals : switch_terminal(t)
       \/ backspace /\ curr_buff_pos[current_active_terminal] > 0
       \/ enter /\ mayEnter
       \/ ctrl_l
       \/ \E c \in Chars : character(c)

NoneUnreadElsewhere == \A t \in Terminals \ {current_active_terminal} : enter_flag[t] = 0

PacedNext == SettledKey(NoneUnreadElsewhere) \/ \E t \in Terminals : Program(t)

\* Enter waits, besides, until no other terminal's line is unread.
PacedSpec == Init /\ [][PacedNext]_vars

\* It does not wait.
UnreadSpec == Init /\ [][SettledKey(TRUE) \/ \E t \in Terminals : Program(t)]_vars

\* The scheduler gives every terminal's program the processor again and again,
\* and a program inside terminal_read takes its next step when it has it.
Fairness == \A t \in Terminals : WF_vars(TypedRead(t)) /\ WF_vars(RowRead(t))

FairSpec == Spec /\ Fairness
PacedFairSpec == PacedSpec /\ Fairness

-----------------------------------------------------------------------------
(* Properties.                                                              *)

\* Every byte past the end of a line is NUL, except the bytes clear_buffer has
\* still to reach: Enter hands over what is on the line and no remains of an
\* earlier, longer one.
TailClear ==
    \A t \in Terminals, k \in Positions :
        /\ k >= curr_buff_pos[t]
        /\ ~(pc[t] = "clear" /\ idx[t] <= k)
        => input_buffer[t][k] = NUL

\* terminal_read returns the line last entered on the reader's own terminal,
\* once, cut to the size asked for and ended by a newline.
ReadOwnLine ==
    \A t \in Terminals :
        pc[t] = "done" =>
            \E line \in sent[t] :
                LET n == IF Len(line) < Count(t) THEN Len(line) ELSE Count(t)
                IN  /\ ret[t] = n + 1
                    /\ \A k \in 0 .. n - 1 : buf[t][k] = line[k + 1]
                    /\ buf[t][n] = Newline

\* A program that waits in terminal_read comes back once Enter has been pressed,
\* or a row clicked, on its terminal.
ReadReturns ==
    \A t \in Terminals : (pc[t] = "spin" /\ enter_flag[t] = 1) ~> pc[t] = "done"
=============================================================================
