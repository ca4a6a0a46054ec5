------------------------------ MODULE Programs ------------------------------
(***************************************************************************)
(* User programs that read the file system: ls, cat, grep and the error    *)
(* tests syserr, one after the other in one control block.                 *)
(*                                                                         *)
(* Their system calls are the actions of module Files.  What they write    *)
(* goes to screen; a write follows the read or the test it is about in the *)
(* same step, because no other process touches what is written.            *)
(***************************************************************************)
EXTENDS Files, Strings

CONSTANTS
    FNAME_SIZE,   \* bytes of a name in the directory, 32 in the code
    BUFSIZE,      \* bytes cat and grep read at once, 1024 in the code
    UserFiles,    \* the names cat is called with
    DotNames,     \* the names that begin with a dot
    Patterns,     \* what grep is called with: sequences of bytes
    Residues      \* bytes that the stack may hold where grep's buffer will be

NL == 10
Missing == {"helloo", "shel", ""}      \* what syserr tries to open

\* The directory has a name after the other, its own first, and no file that the
\* tests expect to be missing; a pattern is a string, not empty and without newline.
ASSUME ProgramsAssumption ==
    /\ FNAME_SIZE \in Nat \ {0} /\ DirLength = Len(Dentries) * FNAME_SIZE
    /\ Dentries # << >> /\ Dentries[1].name = "." /\ Dentries[1].type = "dir"
    /\ "." \in DotNames
    /\ \A k \in DOMAIN Dentries : Dentries[k].name \notin Missing
    /\ BUFSIZE \in Nat \ {0}
    /\ \A p \in Patterns : p # << >> /\ p \in Seq(Nat \ {0, NL})

VARIABLES
    at,           \* where the program is; "none": no program runs
    dir_fd, fd,   \* descriptors of the directory and of a file
    data,         \* grep's buffer and, behind it, the pattern with its NUL
    last,         \* bytes of the buffer that wait to be searched
    screen,       \* what the program, or grep for one file, has written
    count,        \* syserr's loop counter, and failures
    residue       \* history: what was on the stack

search == <<data, last, residue>>
locals == <<at, dir_fd, fd, search, screen, count>>
programVars == <<vars, locals>>

\* What waits to be searched fits the buffer, so that grep never reads past it.
SearchOK == last \in 0 .. BUFSIZE

ProgramsInit ==
    /\ Init
    /\ at = "none"
    /\ dir_fd = 0 /\ fd = 0
    /\ data = << >> /\ last = 0 /\ residue = 0
    /\ screen = << >>
    /\ count = [calls |-> 0, failed |-> 0]

-----------------------------------------------------------------------------
(* System calls, whatever the descriptor and whether they succeed *)

Open(name) == open(name) \/ open_error(name)
Read(i, n) == read(i, n) \/ (running /\ ~Readable(i) /\ Fails)
Write(i, n) == write(i, n) \/ (running /\ ~Writable(i) /\ Fails)
Close(i) == close(i) \/ close_error(i)

start(label) ==
    /\ at = "none"
    /\ execute
    /\ at' = label
    /\ screen' = << >>
    /\ count' = [calls |-> 0, failed |-> 0]
    /\ UNCHANGED <<dir_fd, fd>>

\* The end of main: the kernel takes the control block back.
exit ==
    /\ at \in {"ls_done", "cat_done", "grep_done", "syserr_done", "failed"}
    /\ halt
    /\ at' = "none"
    /\ dir_fd' = 0 /\ fd' = 0
    /\ data' = << >> /\ last' = 0 /\ residue' = 0
    /\ UNCHANGED <<screen, count>>

\* The name a read of the directory gave.
NameRead == Dentries[file_desc[dir_fd].file_pos \div FNAME_SIZE + 1].name

-----------------------------------------------------------------------------
(* ls *)

ls == start("ls") /\ UNCHANGED search

ls_open ==
    /\ at = "ls"
    /\ Open(".")
    /\ dir_fd' = IF ret' = ERROR THEN dir_fd ELSE ret'
    /\ at' = IF ret' = ERROR THEN "failed" ELSE "ls_read"
    /\ UNCHANGED <<fd, search, screen, count>>

ls_read ==
    /\ at = "ls_read"
    /\ Read(dir_fd, FNAME_SIZE)
    /\ screen' = IF ret' = 0 THEN screen ELSE Append(screen, NameRead)
    /\ at' = IF ret' = 0 THEN "ls_done" ELSE "ls_read"
    /\ UNCHANGED <<dir_fd, fd, search, count>>

-----------------------------------------------------------------------------
(* cat *)

cat == start("cat") /\ UNCHANGED search

cat_open(name) ==
    /\ at = "cat"
    /\ Open(name)
    /\ fd' = IF ret' = ERROR THEN fd ELSE ret'
    /\ at' = IF ret' = ERROR THEN "failed" ELSE "cat_read"
    /\ UNCHANGED <<dir_fd, search, screen, count>>

\* MUTANT of BytesRead: the last byte is taken for a NUL and left out.
BytesRead_but_last == SubSeq(got'[fd], Len(got[fd]) + 1, Len(got'[fd]) - 1)

\* The bytes this step's read of fd has put into the program's buffer.
BytesRead == SubSeq(got'[fd], Len(got[fd]) + 1, Len(got'[fd]))

cat_read ==
    /\ at = "cat_read"
    /\ Read(fd, BUFSIZE)
    /\ screen' = IF ret' > 0 THEN screen \o BytesRead ELSE screen
    /\ at' = CASE ret' = 0 -> "cat_done" [] ret' = ERROR -> "failed" [] OTHER -> "cat_read"
    /\ UNCHANGED <<dir_fd, fd, search, count>>

-----------------------------------------------------------------------------
(* grep: the search of one buffer *)

Search == BUFSIZE + 1

WithPattern(p, byte) ==
    [k \in 0 .. BUFSIZE + 1 + Len(p) |->
        IF k <= BUFSIZE THEN byte ELSE IF k <= BUFSIZE + Len(p) THEN p[k - BUFSIZE] ELSE 0]

LineEnd(d, from, to) ==
    CHOOSE e \in from .. to : (e = to \/ d[e] = NL) /\ \A k \in from .. e - 1 : d[k] # NL

Matches(d, from, to) ==
    \E check \in from .. to - 1 :
        d[check] = d[Search] /\ ece391_strncmp(d, check, Search, strlen(d, Search)) = 0

\* MUTANT of SearchLine: a line without its end is not kept for the next read.
SearchLine_no_carry(st, cnt) ==
    LET e == LineEnd(st.data, st.start, st.last)
        d == [st.data EXCEPT ![e] = 0]
    IN  [data |-> d, start |-> e + 1, done |-> e + 1 >= st.last,
         last |-> IF e + 1 >= st.last THEN 0 ELSE st.last,
         shown |-> IF Matches(d, st.start, e) THEN Append(st.shown, puts(d, st.start))
                   ELSE st.shown]

\* A line is searched and shown, or moved to the front if its end has not been
\* read; a line from the front on is searched whether it has an end or not.
SearchLine(st, cnt) ==
    LET e == LineEnd(st.data, st.start, st.last)
        d == [st.data EXCEPT ![e] = 0]
    IN  IF st.data[e] # NL /\ cnt # 0 /\ st.start # 0
        THEN [st EXCEPT !.data = ece391_strcpy(d, 0, st.start), !.last = @ - st.start,
                        !.done = TRUE]
        ELSE [data |-> d, start |-> e + 1, done |-> e + 1 >= st.last,
              last |-> IF e + 1 >= st.last THEN 0 ELSE st.last,
              shown |-> IF Matches(d, st.start, e) THEN Append(st.shown, puts(d, st.start))
                        ELSE st.shown]

\* The lines of the buffer one by one; each takes at least a byte.
SearchBuffer(d, to, cnt) ==
    LET rounds[k \in 0 .. BUFSIZE + 1] ==
            IF k = 0 THEN [data |-> d, start |-> 0, last |-> to, done |-> FALSE, shown |-> << >>]
            ELSE LET st == rounds[k - 1] IN IF st.done THEN st ELSE SearchLine(st, cnt)
    IN  rounds[BUFSIZE + 1]

-----------------------------------------------------------------------------
(* grep: main and do_one_file *)

grep_start(p) ==
    /\ start("grep")
    /\ data' = WithPattern(p, 0) /\ last' = 0 /\ residue' = 0

grep_open ==
    /\ at = "grep"
    /\ Open(".")
    /\ dir_fd' = IF ret' = ERROR THEN dir_fd ELSE ret'
    /\ at' = IF ret' = ERROR THEN "failed" ELSE "grep_dir"
    /\ UNCHANGED <<fd, search, screen, count>>

\* A name that begins with a dot is passed over.
grep_dir ==
    /\ at = "grep_dir"
    /\ Read(dir_fd, FNAME_SIZE)
    /\ at' = CASE ret' = 0 -> "grep_done"
               [] NameRead \in DotNames -> "grep_dir"
               [] OTHER -> "grep_file"
    /\ UNCHANGED <<dir_fd, fd, search, screen, count>>

\* The name of the read before; the buffer has what the stack had there.
NameToSearch == Dentries[file_desc[dir_fd].file_pos \div FNAME_SIZE].name

grep_file ==
    /\ at = "grep_file"
    /\ Open(NameToSearch)
    /\ fd' = IF ret' = ERROR THEN fd ELSE ret'
    /\ at' = IF ret' = ERROR THEN "failed" ELSE "grep_read"
    /\ residue' \in Residues
    /\ data' = [k \in DOMAIN data |-> IF k <= BUFSIZE THEN residue' ELSE data[k]]
    /\ last' = 0
    /\ screen' = << >>
    /\ UNCHANGED <<dir_fd, count>>

\* The buffer d with the bytes b of a read behind the l carried ones.
WithBytes(d, l, b, cleared) ==
    [k \in DOMAIN d |-> IF k \in l .. l + Len(b) - 1 THEN b[k - l + 1]
                       ELSE IF k \in cleared THEN 0 ELSE d[k]]

\* What a read clears first: read_data, all it was asked for.
Cleared == IF file_desc[fd].fops = "file" THEN last .. BUFSIZE - 1 ELSE {}

\* A read that fails ends the program, whatever it left in the buffer.
grep_read ==
    /\ at = "grep_read"
    /\ Read(fd, BUFSIZE - last)
    /\ LET bytes == IF ret' > 0 THEN BytesRead ELSE << >>
           filled == WithBytes(data, last, bytes, Cleared)
           r == SearchBuffer(filled, last + Len(bytes), ret')
       IN  /\ data' = IF ret' = ERROR THEN data ELSE r.data
           /\ last' = IF ret' = ERROR THEN last ELSE r.last
           /\ screen' = IF ret' = ERROR THEN screen ELSE screen \o r.shown
    /\ at' = CASE ret' = 0 -> "grep_close" [] ret' = ERROR -> "failed" [] OTHER -> "grep_read"
    /\ UNCHANGED <<dir_fd, fd, residue, count>>

grep_close ==
    /\ at = "grep_close"
    /\ Close(fd)
    /\ at' = IF ret' = ERROR THEN "failed" ELSE "grep_dir"
    /\ UNCHANGED <<dir_fd, fd, search, screen, count>>

-----------------------------------------------------------------------------
(* syserr: a test each, or a loop of calls *)

syserr == \E test \in {"read_neg_fd", "write_big_fd", "open_lots", "open", "close"} :
              start(test) /\ UNCHANGED search

\* A test of one call, which should fail.
err_call ==
    /\ \/ at = "read_neg_fd" /\ Read(-1, 1)
       \/ at = "write_big_fd" /\ Write(MAX_FILE_NUM, 1)
       \/ at = "open" /\ \E name \in Missing : Open(name)
       \/ at = "close" /\ Close(MAX_FILE_NUM - 1)
    /\ screen' = <<IF ret' = ERROR THEN "PASS" ELSE "FAIL">>
    /\ at' = "syserr_done"
    /\ UNCHANGED <<dir_fd, fd, search, count>>

\* One more open than there are free descriptors, of which one should fail.
err_open_lots ==
    /\ at = "open_lots"
    /\ IF count.calls < MAX_FILE_NUM - 1
       THEN /\ Open(".")
            /\ count' = [calls |-> count.calls + 1,
                         failed |-> count.failed + (IF ret' = ERROR THEN 1 ELSE 0)]
            /\ UNCHANGED <<at, screen>>
       ELSE /\ screen' = <<IF count.failed > 1 THEN "FAIL" ELSE "PASS">>
            /\ at' = "syserr_done"
            /\ UNCHANGED <<vars, count>>
    /\ UNCHANGED <<dir_fd, fd, search>>

-----------------------------------------------------------------------------
ProgramsNext ==
    \/ ls \/ ls_open \/ ls_read
    \/ cat \/ (\E name \in UserFiles : cat_open(name)) \/ cat_read
    \/ (\E p \in Patterns : grep_start(p)) \/ grep_open \/ grep_dir \/ grep_file
    \/ grep_read \/ grep_close
    \/ syserr \/ err_call \/ err_open_lots
    \/ exit

ProgramsSpec == ProgramsInit /\ [][ProgramsNext]_programVars

-----------------------------------------------------------------------------
\* cat writes a file from its first byte to its last.  ls writes the names of the
\* directory from the first on, in order and each once.  All of them, says the
\* header of dir_read (fs.c:181); its code returns 0 with the last one, so that
\* ls leaves it out: at most that one may be missing.
PrintsWhole ==
    /\ at = "ls_done" => \E n \in {Len(Dentries) - 1, Len(Dentries)} :
                            screen = [k \in 1 .. n |-> Dentries[k].name]
    /\ at = "cat_done" /\ file_desc[fd].fops = "file" /\ Sound(file_desc[fd].inode)
           => screen = Content(file_desc[fd].inode)

\* A text's lines end before a newline or with the text.
LineEnds(c) == {k \in 1 .. Len(c) + 1 : k = Len(c) + 1 \/ c[k] = NL}

LineBefore(c, k) ==
    LET first == CHOOSE a \in 1 .. k : (a = 1 \/ c[a - 1] = NL) /\ \A j \in a .. k - 1 : c[j] # NL
    IN  SubSeq(c, first, k - 1)

HasPattern(line, p) ==
    \E k \in 1 .. Len(line) - Len(p) + 1 : SubSeq(line, k, k + Len(p) - 1) = p

\* The lines with the pattern that end before one of the first n positions, in order.
LinesUpTo(c, p, n) ==
    LET found[k \in 0 .. Len(c) + 1] ==
            IF k = 0 THEN << >>
            ELSE IF k \in LineEnds(c) /\ HasPattern(LineBefore(c, k), p)
                 THEN Append(found[k - 1], LineBefore(c, k))
                 ELSE found[k - 1]
    IN  found[n]

\* grep shows every line of a text that has the pattern, whole and once, however
\* its lines lie across its reads, if each fits the buffer with its newline and no
\* block of the file is damaged; a text has no NUL.  The byte behind the buffer,
\* which grep tests and has not set, must be no newline.
LinesFound ==
    at = "grep_close" /\ file_desc[fd].fops = "file" /\ Sound(file_desc[fd].inode) /\ residue # NL =>
        LET c == Content(file_desc[fd].inode)
            p == puts(data, Search)
        IN  0 \notin Range(c) /\ (\A k \in LineEnds(c) : Len(LineBefore(c, k)) < BUFSIZE)
                => screen = LinesUpTo(c, p, Len(c) + 1)

\* The repository's tests of failing calls report PASS, whatever programs ran
\* in the control block before.
SelfTestsPass == at = "syserr_done" => screen = <<"PASS">>
=============================================================================
