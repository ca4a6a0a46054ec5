------------------------------- MODULE Files -------------------------------
(***************************************************************************)
(* The file descriptors of a process, syscalls.c, and the regular files    *)
(* behind them, fs.c.                                                      *)
(*                                                                         *)
(* The table lives in the process's control block, which successive        *)
(* programs reuse; only the process itself touches it, in system calls, so *)
(* a call is one step.  dir_read appears as it is when no other process is *)
(* in dir_open; module Directory has the rest.                             *)
(***************************************************************************)
EXTENDS Image

Fds == 0 .. MAX_FILE_NUM - 1

VARIABLES
    running,    \* a program runs in this control block
    file_desc,  \* [fd]: fops, inode, file_pos, flags
    ret,        \* what the last system call returned
    opened,     \* history: descriptors the present program opened and did not close
    got,        \* history [fd]: bytes read since it was opened
    ended       \* history [fd]: a read of more than no bytes returned 0

history == <<opened, got, ended>>
vars == <<running, file_desc, ret, history>>

-----------------------------------------------------------------------------
Unused == [fops |-> "none", inode |-> 0, file_pos |-> 0, flags |-> 0]
Stream == [fops |-> "terminal", inode |-> 0, file_pos |-> 0, flags |-> 1]

TypeOK ==
    /\ running \in BOOLEAN
    /\ file_desc \in [Fds -> [fops : {"none"} \cup Types, inode : {0} \cup DOMAIN Inodes,
                              file_pos : 0 .. WORD - 1, flags : {0, 1}]]
    /\ ret \in Int
    /\ opened \subseteq Fds
    /\ got \in [Fds -> Seq(Nat)]
    /\ ended \in [Fds -> BOOLEAN]

Init ==
    /\ running = FALSE
    /\ file_desc = [i \in Fds |-> Unused]
    /\ ret = 0
    /\ opened = {}
    /\ got = [i \in Fds |-> << >>]
    /\ ended = [i \in Fds |-> FALSE]

\* MUTANT of initialize_pcb: only the standard streams are set.
initialize_pcb_streams ==
    file_desc' = [i \in Fds |-> IF i \in {0, 1} THEN Stream ELSE file_desc[i]]

initialize_pcb ==
    file_desc' = [i \in Fds |-> IF i \in {0, 1} THEN Stream ELSE Unused]

\* execute takes the control block for a new program.
execute ==
    /\ ~running
    /\ running' = TRUE
    /\ initialize_pcb
    /\ ret' = 0
    /\ opened' = {}
    /\ got' = [i \in Fds |-> << >>]
    /\ ended' = [i \in Fds |-> FALSE]

\* halt gives the control block back; it closes nothing.
halt ==
    /\ running
    /\ running' = FALSE
    /\ UNCHANGED <<file_desc, ret, history>>

Fails == ret' = ERROR /\ UNCHANGED <<running, file_desc, history>>

-----------------------------------------------------------------------------
InUse(i) == file_desc[i].flags = 1
Full == \A i \in Fds : InUse(i)
FirstUnused == CHOOSE i \in Fds : ~InUse(i) /\ \A j \in 0 .. i - 1 : InUse(j)

CanOpen(name) ==
    /\ Found(name)
    /\ read_dentry_by_name(name).type \in {"rtc", "dir", "file"}
    /\ ~Full

open(name) ==
    /\ running
    /\ CanOpen(name)
    /\ LET d == read_dentry_by_name(name)
           i == FirstUnused
       IN  /\ file_desc' = [file_desc EXCEPT ![i] =
                  [fops |-> d.type, file_pos |-> 0, flags |-> 1,
                   inode |-> IF d.type = "file" THEN d.inode ELSE 0]]
           /\ ret' = i
           /\ opened' = opened \cup {i}
           /\ got' = [got EXCEPT ![i] = << >>]
           /\ ended' = [ended EXCEPT ![i] = FALSE]
    /\ UNCHANGED running

open_error(name) == running /\ ~CanOpen(name) /\ Fails

\* MUTANT of Closable: that the descriptor is in use is not tested.
Closable_unused(i) == i \in Fds /\ i >= 2

Closable(i) == i \in Fds /\ i >= 2 /\ InUse(i)

\* close: file_close, dir_close and rtc_close do the same.
close(i) ==
    /\ running
    /\ Closable(i)
    /\ file_desc' = [file_desc EXCEPT ![i] = Unused]
    /\ ret' = 0
    /\ opened' = opened \ {i}
    /\ UNCHANGED <<running, got, ended>>

close_error(i) == running /\ ~Closable(i) /\ Fails

-----------------------------------------------------------------------------
Readable(i) == i \in Fds /\ i # 1 /\ InUse(i)

\* MUTANT of Returns: the position is a signed number.
Returns_signed(i, n, value, bytes) ==
    /\ file_desc' = [file_desc EXCEPT ![i].file_pos = @ + value]
    /\ ret' = value
    /\ got' = [got EXCEPT ![i] = @ \o bytes]
    /\ ended' = [ended EXCEPT ![i] = @ \/ (value = 0 /\ n > 0)]
    /\ UNCHANGED <<running, opened>>

\* A read that returns these bytes and moves the position this far; what a
\* failed read adds to the position, 2^32 - 1, is -1 to an unsigned number.
Returns(i, n, value, bytes) ==
    /\ file_desc' = [file_desc EXCEPT ![i].file_pos = (@ + value) % WORD]
    /\ ret' = value
    /\ got' = [got EXCEPT ![i] = @ \o bytes]
    /\ ended' = [ended EXCEPT ![i] = @ \/ (value = 0 /\ n > 0)]
    /\ UNCHANGED <<running, opened>>

file_read(i, n) ==
    /\ file_desc[i].fops = "file"
    /\ LET r == read_data(file_desc[i].inode, file_desc[i].file_pos, n)
       IN  IF r.bad THEN Returns(i, n, ERROR, << >>) ELSE Returns(i, n, Len(r.bytes), r.bytes)

\* dir_read: the read that reaches the end returns 0 and not the bytes it copied.
dir_read(i, n) ==
    /\ file_desc[i].fops = "dir"
    /\ LET pos == file_desc[i].file_pos
       IN  IF pos + n >= DirLength
           THEN /\ file_desc' = [file_desc EXCEPT ![i].file_pos = DirLength]
                /\ ret' = 0
           ELSE /\ file_desc' = [file_desc EXCEPT ![i].file_pos = pos + n]
                /\ ret' = n
    /\ UNCHANGED <<running, history>>

\* rtc_read returns 0, terminal_read up to n + 1 bytes; the descriptor stays.
device_read(i, n) ==
    /\ \/ file_desc[i].fops = "rtc" /\ ret' = 0
       \/ file_desc[i].fops = "terminal" /\ \E k \in {0, n, n + 1} : ret' = k
    /\ UNCHANGED <<running, file_desc, history>>

read(i, n) ==
    /\ running
    /\ Readable(i)
    /\ file_read(i, n) \/ dir_read(i, n) \/ device_read(i, n)

\* A pointer access_ok refuses, or a descriptor that is not for this call.
argument_error == running /\ Fails

\* write: files and directories are read-only; terminal and clock answer.
Writable(i) == i \in Fds /\ i # 0 /\ InUse(i)

write(i, n) ==
    /\ running
    /\ Writable(i)
    /\ \/ file_desc[i].fops \in {"file", "dir"} /\ ret' = ERROR
       \/ file_desc[i].fops = "rtc" /\ ret' \in {0, ERROR}
       \/ file_desc[i].fops = "terminal" /\ ret' = n
    /\ UNCHANGED <<running, file_desc, history>>

Next ==
    \/ execute
    \/ halt
    \/ argument_error
    \/ \E name \in FileNames : open(name) \/ open_error(name)
    \/ \E i \in -1 .. MAX_FILE_NUM :
          \/ close(i)
          \/ close_error(i)
          \/ \E n \in Counts : read(i, n) \/ write(i, n)

Spec == Init /\ [][Next]_vars

-----------------------------------------------------------------------------
\* The descriptors in use are standard input and output, which stay with the
\* terminal, and those the present program opened and did not close: none is
\* left over from the program that had the control block before.
DescriptorsAreOpened ==
    running => /\ \A i \in {0, 1} : file_desc[i] = Stream
               /\ {i \in Fds : i >= 2 /\ InUse(i)} = opened
               /\ \A i \in opened : file_desc[i].fops \in {"rtc", "dir", "file"}

\* Reads of a file, of any sizes and on several descriptors at once, return its
\* bytes from the first on, each once; one returns 0 only after the last byte.
ReadsConsecutive ==
    \A i \in opened :
        file_desc[i].fops = "file" /\ Sound(file_desc[i].inode)
            => LET c == Content(file_desc[i].inode)
               IN  /\ file_desc[i].file_pos <= Len(c)
                   /\ got[i] = SubSeq(c, 1, file_desc[i].file_pos)
                   /\ ended[i] => got[i] = c
=============================================================================
