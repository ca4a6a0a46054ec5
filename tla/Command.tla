------------------------------ MODULE Command ------------------------------
(***************************************************************************)
(* From the line a user types to the arguments a program gets: the loop of *)
(* ece391shell.c, execute and parse, getargs, and halt's return value.     *)
(*                                                                         *)
(* The program runs in one of the control blocks, whose argument buffer    *)
(* keeps what earlier programs left in it.  A command is a sequence of     *)
(* characters without its NUL; how execute loads a program and changes the *)
(* processes is in module Kernel.                                          *)
(***************************************************************************)
EXTENDS Integers, Sequences

CONSTANTS
    MAX_BUFFER_SIZE,  \* 128 in the code, the size of every buffer of a command
    Letters,          \* the characters of words, blanks apart
    Executables,      \* names of the programs of the image
    Exit,             \* the command that ends a shell
    Lines,            \* what the user types; a word is no longer than the buffers
    ArgSizes,         \* nbytes of getargs
    Statuses          \* what programs end with: the result of main, or 256

Blank == " "
NUL == ""
Newline == "newline"
NoCall == -1          \* no getargs
Characters == Letters \cup {Blank, NUL}

CommandWellFormed ==
    /\ MAX_BUFFER_SIZE \in Nat \ {0}
    /\ Blank \notin Letters /\ NUL \notin Letters /\ Newline \notin Letters
    /\ Lines \subseteq Seq(Letters \cup {Blank})
    /\ ArgSizes \subseteq Nat /\ Statuses \subseteq Int

VARIABLES
    at,                    \* where the shell or its program is
    buf,                   \* the shell's command
    argument_buffer,       \* [0 .. MAX_BUFFER_SIZE - 1 -> character]
    argument_buffer_size,
    args,                  \* the program's buffer, [0 .. nbytes - 1 -> character]
    ret,                   \* what the program's last call returned
    asked,                 \* history: nbytes of it, if it was getargs
    message,               \* the shell's remark on the last command
    ended                  \* history: how the last command ended

program == <<argument_buffer, argument_buffer_size, args, ret, asked>>
vars == <<at, buf, program, message, ended>>

TypeOK ==
    /\ at \in {"prompt", "execute", "program"}
    /\ buf \in Seq(Letters \cup {Blank})
    /\ argument_buffer \in [0 .. MAX_BUFFER_SIZE - 1 -> Characters]
    /\ argument_buffer_size \in 0 .. MAX_BUFFER_SIZE
    /\ ret \in {-1, 0}
    /\ asked \in ArgSizes \cup {NoCall}
    /\ message \in {"none", "no such command", "program terminated by exception",
                    "program terminated abnormally"}

Init ==
    /\ at = "prompt"
    /\ buf = << >>
    /\ argument_buffer = [k \in 0 .. MAX_BUFFER_SIZE - 1 |-> NUL]
    /\ argument_buffer_size = 0
    /\ args = << >>
    /\ ret = 0
    /\ asked = NoCall
    /\ message = "none"
    /\ ended = "none"

-----------------------------------------------------------------------------
(* parse *)

CharAt(c, i) == IF i \in DOMAIN c THEN c[i] ELSE NUL

\* The first index from i on that is no blank, and that ends a word.
NonBlank(c, i) == CHOOSE j \in i .. Len(c) + 1 :
                      CharAt(c, j) # Blank /\ \A k \in i .. j - 1 : c[k] = Blank
WordEnd(c, i) == CHOOSE j \in i .. Len(c) + 1 :
                     CharAt(c, j) \in {Blank, NUL} /\ \A k \in i .. j - 1 : c[k] # Blank

NameStart(c) == NonBlank(c, 1)
NameEnd(c) == WordEnd(c, NameStart(c))

\* The name that parse writes to cmd.
NameOf(c) == SubSeq(c, NameStart(c), NameEnd(c) - 1)

\* The text it writes to the argument buffer.
ArgumentOf(c) == SubSeq(c, NonBlank(c, NameEnd(c)), Len(c))

-----------------------------------------------------------------------------
\* A line without its newline is the command; a full buffer has no newline.  An
\* empty command is not executed, and exit ends the shell, which the kernel
\* starts again (module Kernel).
Stripped(typed) == IF typed # << >> /\ typed[Len(typed)] = Newline
                   THEN SubSeq(typed, 1, Len(typed) - 1) ELSE typed

shell_read(typed) ==
    /\ at = "prompt"
    /\ buf' = Stripped(typed)
    /\ at' = IF buf' \in {Exit, << >>} THEN "prompt" ELSE "execute"
    /\ message' = "none"
    /\ UNCHANGED <<program, ended>>

\* execute without such a program, or without a page or a control block for it.
execute_error ==
    /\ at = "execute"
    /\ at' = "prompt"
    /\ message' = "no such command"
    /\ ended' = "not started"
    /\ UNCHANGED <<buf, program>>

\* execute keeps MAX_BUFFER_SIZE characters of the command for its arguments;
\* initialize_pcb empties the argument buffer and parse writes it.
temp_cmd == SubSeq(buf, 1, IF Len(buf) < MAX_BUFFER_SIZE THEN Len(buf) ELSE MAX_BUFFER_SIZE)

execute ==
    /\ at = "execute"
    /\ NameOf(buf) \in Executables
    /\ LET text == ArgumentOf(temp_cmd)
       IN  /\ argument_buffer' = [k \in DOMAIN argument_buffer |->
                                     IF k <= Len(text) THEN CharAt(text, k + 1)
                                     ELSE argument_buffer[k]]
           /\ argument_buffer_size' = Len(text) + 1
    /\ at' = "program"
    /\ args' = << >>
    /\ asked' = NoCall
    /\ UNCHANGED <<buf, ret, message, ended>>

-----------------------------------------------------------------------------
\* The program's buffer is cleared, then the argument with its NUL is copied.
Copied(n) == [k \in 0 .. n - 1 |-> IF k < argument_buffer_size THEN argument_buffer[k] ELSE NUL]

\* MUTANT of HasArguments: a buffer of just the right size is refused.
HasArguments_strict(n) == n > argument_buffer_size /\ argument_buffer_size > 1

HasArguments(n) == n >= argument_buffer_size /\ argument_buffer_size > 1

getargs(n) ==
    /\ at = "program"
    /\ HasArguments(n)
    /\ args' = Copied(n)
    /\ ret' = 0
    /\ asked' = n
    /\ UNCHANGED <<at, buf, argument_buffer, argument_buffer_size, message, ended>>

getargs_error(n) ==
    /\ at = "program"
    /\ ~HasArguments(n)
    /\ ret' = -1
    /\ asked' = n
    /\ UNCHANGED <<at, buf, argument_buffer, argument_buffer_size, args, message, ended>>

\* set_handler and sigreturn are not implemented; getargs refuses a pointer that
\* is not the program's.
signals_error ==
    /\ at = "program"
    /\ ret' = -1
    /\ asked' = NoCall
    /\ UNCHANGED <<at, buf, argument_buffer, argument_buffer_size, args, message, ended>>

\* MUTANT of Returned: the status is not cut.
Returned_wide(status) == status

\* What execute returns of the status of halt: its eight low bits.
Returned(status) == status % 256

halt(status) ==
    /\ at = "program"
    /\ at' = "prompt"
    /\ message' = CASE Returned(status) = -1 -> "no such command"
                    [] Returned(status) = 256 -> "program terminated by exception"
                    [] Returned(status) \notin {-1, 0, 256} -> "program terminated abnormally"
                    [] Returned(status) = 0 -> "none"
    /\ ended' = IF status = 0 THEN "normally" ELSE "otherwise"
    /\ args' = << >> /\ ret' = 0 /\ asked' = NoCall
    /\ UNCHANGED <<buf, argument_buffer, argument_buffer_size>>

Next ==
    \/ \E l \in Lines : shell_read(l) \/ shell_read(Append(l, Newline))
    \/ execute_error \/ execute
    \/ \E n \in ArgSizes : getargs(n) \/ getargs_error(n)
    \/ signals_error
    \/ \E status \in Statuses : halt(status)

Spec == Init /\ [][Next]_vars

-----------------------------------------------------------------------------
\* An argument begins at n: a program's name is in front of it, and blanks.
ArgumentAt(n) ==
    /\ temp_cmd[n] # Blank
    /\ \E i, j \in DOMAIN temp_cmd :
          /\ i <= j /\ j < n - 1 /\ {k \in 1 .. n - 1 : temp_cmd[k] # Blank} = i .. j
          /\ SubSeq(temp_cmd, i, j) \in Executables

\* A program's arguments are what was typed after its name, up to the length of
\* the buffer, with nothing of what was in the control block or in the program's
\* own buffer before.  getargs refuses just when there are none or they do not
\* fit, with their NUL, the nbytes it is given.
ArgumentsArrive ==
    at = "program" =>
        /\ args # << >> => \E n \in DOMAIN temp_cmd :
               ArgumentAt(n) /\ \A k \in DOMAIN args : args[k] = CharAt(temp_cmd, n + k)
        /\ asked # NoCall =>
               (ret = 0 <=> \E n \in DOMAIN temp_cmd :
                                ArgumentAt(n) /\ asked > Len(temp_cmd) - n + 1)

\* The shell says that there is no such command exactly when no program was
\* started, whatever the program's main returns.
MissingReported == [][at' = "prompt" /\ at # "prompt" =>
                         (message' = "no such command" <=> ended' = "not started")]_vars
=============================================================================
