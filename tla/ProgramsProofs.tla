--------------------------- MODULE ProgramsProofs ---------------------------
(***************************************************************************)
(* ls and cat print all they should, grep every line with the pattern, and *)
(* the tests of failing calls pass, for every image, every size of buffers *)
(* and names, and whatever programs had the control block before.          *)
(*                                                                         *)
(* The inductive invariant says of each place in a program what the        *)
(* descriptors it uses are like, and how what it has printed follows from  *)
(* the positions and the bytes read so far.  It includes the invariant of  *)
(* the descriptors, PositionsInv of FilesProofs, and for that needs of     *)
(* grep that its carried bytes leave room in the buffer.  GrepOK adds what *)
(* grep has found of a text when it has read some of its bytes.            *)
(***************************************************************************)
EXTENDS Programs, FilesProofs

\* The program's places that the invariant says something of.
Places == {"ls", "ls_read", "ls_done", "cat", "cat_read", "cat_done", "open_lots", "close",
           "syserr_done"}

\* What ls has printed: the first names of the directory.
FirstNames ==
  /\ screen \in Seq(STRING)
  /\ Len(screen) <= Len(Dentries) - 1
  /\ \A k \in 1 .. Len(screen) : screen[k] = Dentries[k].name

\* ls reads one name after the other.
ListOK ==
  /\ at = "ls" => screen = << >>
  /\ at = "ls_read" => /\ dir_fd \in opened
                       /\ file_desc[dir_fd].fops = "dir"
                       /\ file_desc[dir_fd].file_pos = Len(screen) * FNAME_SIZE
                       /\ FirstNames
  /\ at = "ls_done" => FirstNames /\ Len(screen) = Len(Dentries) - 1

\* cat has printed what it has read.
CatOK ==
  /\ at = "cat" => screen = << >>
  /\ at \in {"cat_read", "cat_done"} => fd \in opened /\ screen = got[fd]
  /\ at = "cat_done" => (file_desc[fd].fops = "file" => ended[fd])

\* Every call of the loop of opens has taken a descriptor, but for the last.
TestsOK ==
  /\ at = "open_lots" =>
       /\ count.calls \in 0 .. MAX_FILE_NUM - 1
       /\ IF count.calls < MAX_FILE_NUM - 1
          THEN opened = 2 .. count.calls + 1 /\ count.failed = 0
          ELSE count.failed = 1
  /\ at = "close" => opened = {}
  /\ at = "syserr_done" => screen = <<"PASS">>

\* The inductive invariant.
SessionInv ==
  /\ PositionsInv /\ SearchOK
  /\ running <=> at # "none"
  /\ ListOK /\ CatOK /\ TestsOK

\* Where grep's buffer has the pattern behind it.
GrepPlaces == {"grep", "grep_dir", "grep_file", "grep_read", "grep_close"}

HasBehind(d, p) ==
  /\ DOMAIN d = 0 .. BUFSIZE + 1 + Len(p)
  /\ \A k \in 1 .. Len(p) : d[BUFSIZE + k] = p[k]
  /\ d[BUFSIZE + 1 + Len(p)] = 0

\* No byte of the buffer, used or not, is taken for the end of a line.
NoNewline(d) == \A k \in 0 .. BUFSIZE : d[k] # NL

\* A text whose lines fit the buffer.
Searchable(c) ==
  /\ c \in Seq(Nat) /\ 0 \notin Range(c)
  /\ \A k \in LineEnds(c) : Len(LineBefore(c, k)) < BUFSIZE

LineStart(c, q) == q = 0 \/ c[q] = NL

\* After n bytes of the text c all lines have been searched that end in them, and
\* the l bytes behind the last one are carried in the buffer; or the last line,
\* which has no newline, has been searched too.
Progress(c, p, d, l, shown, n) ==
  \/ /\ l <= n /\ LineStart(c, n - l)
     /\ shown = LinesUpTo(c, p, n - l)
     /\ \A k \in 0 .. l - 1 : d[k] = c[n - l + k + 1]
  \/ l = 0 /\ n = Len(c) /\ shown = LinesUpTo(c, p, Len(c) + 1)

\* What the invariant says while the file is searched.
SearchedSoFar(p) ==
  LET c == Content(file_desc[fd].inode)
  IN  file_desc[fd].fops = "file" /\ Sound(file_desc[fd].inode) /\ residue # NL /\ Searchable(c)
        => /\ NoNewline(data)
           /\ at = "grep_read" => Progress(c, p, data, last, screen, file_desc[fd].file_pos)
           /\ at = "grep_close" => screen = LinesUpTo(c, p, Len(c) + 1)

\* The invariant of grep.
GrepOK ==
  at \in GrepPlaces =>
    \E p \in Patterns :
      /\ HasBehind(data, p)
      /\ at \in {"grep_read", "grep_close"} => fd \in opened /\ SearchedSoFar(p)

\* Where the invariant says nothing of the place.
LEMMA OtherPlaces ==
  ASSUME PositionsInv', SearchOK', running' <=> at' # "none", at' \notin Places
  PROVE  SessionInv'
BY DEF SessionInv, ListOK, CatOK, TestsOK, Places

-----------------------------------------------------------------------------
(* System calls, as the programs make them *)

\* The directory is found, and is a directory.
LEMMA DirectoryFound ==
  Found(".") /\ read_dentry_by_name(".").type = "dir"
<1>1. 1 \in DOMAIN Dentries /\ DOMAIN Dentries = 1 .. Len(Dentries)
  BY FilesAssumption, ProgramsAssumption
<1> DEFINE Earliest(k) == Dentries[k].name = "." /\ \A j \in 1 .. k - 1 : Dentries[j].name # "."
           c == CHOOSE k \in DOMAIN Dentries : Earliest(k)
<1>2. Earliest(1)
  BY ProgramsAssumption
<1>3. c \in DOMAIN Dentries /\ Earliest(c)
  <2> HIDE DEF Earliest
  <2> QED
    BY <1>1, <1>2
<1>4. c = 1
  <2>1. c = 1 \/ 1 \in 1 .. c - 1
    BY <1>1, <1>3
  <2> QED
    BY <1>3, <2>1, ProgramsAssumption
<1>5. read_dentry_by_name(".") = Dentries[c]
  BY DEF read_dentry_by_name
<1> QED
  BY <1>1, <1>4, <1>5, ProgramsAssumption DEF Found

\* An open that succeeds takes the first unused descriptor and starts at 0.
LEMMA Opened ==
  ASSUME PositionsInv, NEW name, Open(name)
  PROVE  /\ PositionsInv' /\ running' = running /\ running
         /\ CanOpen(name) => /\ ret' = FirstUnused /\ ret' \in Fds /\ ret' # ERROR
                             /\ opened' = opened \cup {ret'}
                             /\ file_desc'[ret'].fops = read_dentry_by_name(name).type
                             /\ file_desc'[ret'].file_pos = 0
                             /\ got'[ret'] = << >>
         /\ ~CanOpen(name) => ret' = ERROR /\ UNCHANGED opened
<1>1. PositionsInv'
  BY OpenKeeps DEF Open
<1>2. running' = running /\ running
  BY DEF Open, open, open_error, Fails
<1>3. CASE CanOpen(name)
  <2> DEFINE d == read_dentry_by_name(name)
             u == FirstUnused
             new == [fops |-> d.type, file_pos |-> 0, flags |-> 1,
                     inode |-> IF d.type = "file" THEN d.inode ELSE 0]
  <2>1. open(name)
    BY <1>3 DEF Open, open_error
  <2>2. u \in Fds
    BY <1>3, FirstUnusedIsUnused DEF CanOpen
  <2>3. /\ file_desc' = [file_desc EXCEPT ![u] = new] /\ ret' = u
        /\ opened' = opened \cup {u} /\ got' = [got EXCEPT ![u] = << >>]
    BY <2>1 DEF open
  <2>4. DOMAIN file_desc = Fds /\ DOMAIN got = Fds
    BY DEF PositionsInv, TypeOK
  <2>5. new.fops = d.type /\ new.file_pos = 0
    OBVIOUS
  <2> HIDE DEF d, u, new
  <2>6. file_desc'[u] = new /\ got'[u] = << >>
    BY <2>2, <2>3, <2>4
  <2>7. u # ERROR
    BY <2>2, Numbers DEF ERROR
  <2> QED
    BY <1>1, <1>2, <1>3, <2>2, <2>3, <2>5, <2>6, <2>7 DEF d, u
<1>4. CASE ~CanOpen(name)
  <2>1. ret' = ERROR /\ UNCHANGED opened
    BY <1>4 DEF Open, open, open_error, Fails, history
  <2> QED
    BY <1>1, <1>2, <1>4, <2>1
<1> QED
  BY <1>3, <1>4

\* A read keeps the invariant, whatever the descriptor.
LEMMA ReadCall ==
  ASSUME PositionsInv, NEW i, NEW n \in Nat, Read(i, n)
  PROVE  /\ PositionsInv' /\ running' = running /\ running /\ opened' = opened
         /\ Readable(i) => read(i, n)
         /\ ~Readable(i) => ret' = ERROR
<1>1. CASE read(i, n)
  BY <1>1, ReadKeeps, ReadResult DEF read
<1>2. CASE running /\ ~Readable(i) /\ Fails
  BY <1>2, FailsKeeps DEF Fails, history
<1> QED
  BY <1>1, <1>2 DEF Read, read

\* What a program opened it can read.
LEMMA OpenedReadable ==
  ASSUME PositionsInv, running, NEW i \in opened
  PROVE  i \in Fds /\ Readable(i) /\ file_desc[i].fops \in {"rtc", "dir", "file"}
BY Numbers DEF PositionsInv, DescriptorsInv, DescriptorsAreOpened, Readable

-----------------------------------------------------------------------------
(* Beginning and end of a program *)

\* A program begins with its descriptors closed and nothing printed.
LEMMA StartStep ==
  ASSUME SessionInv, NEW label, label # "none", start(label), SearchOK',
         label \notin {"ls_read", "ls_done", "cat_read", "cat_done", "syserr_done"}
  PROVE  SessionInv'
<1>1. /\ at' = label /\ screen' = << >> /\ running' = TRUE /\ opened' = {} /\ execute
      /\ count' = [calls |-> 0, failed |-> 0]
  BY DEF start, execute
<1>2. PositionsInv'
  BY <1>1, ExecuteKeeps DEF SessionInv
<1>3. count'.calls = 0 /\ count'.failed = 0
  BY <1>1
<1>4. 0 \in 0 .. MAX_FILE_NUM - 1 /\ 0 < MAX_FILE_NUM - 1 /\ 2 .. 0 + 1 = {}
  BY Numbers
<1>5. TestsOK'
  BY <1>1, <1>3, <1>4 DEF TestsOK
<1>6. ListOK' /\ CatOK'
  BY <1>1 DEF ListOK, CatOK
<1> QED
  BY <1>1, <1>2, <1>5, <1>6 DEF SessionInv

\* At its end the kernel takes the control block back.
LEMMA ExitStep ==
  ASSUME SessionInv, exit
  PROVE  SessionInv'
<1>1. halt /\ at' = "none" /\ last' = 0 /\ running' = FALSE
  BY DEF exit, halt
<1>2. PositionsInv'
  BY <1>1, HaltKeeps DEF SessionInv
<1>3. SearchOK'
  BY <1>1, ProgramsAssumption DEF SearchOK
<1> QED
  BY <1>1, <1>2, <1>3, OtherPlaces DEF Places

-----------------------------------------------------------------------------
(* ls *)

\* ls opens the directory.
LEMMA ListOpenStep ==
  ASSUME SessionInv, ls_open
  PROVE  SessionInv'
<1>1. /\ at = "ls" /\ Open(".") /\ screen' = screen /\ last' = last
      /\ dir_fd' = IF ret' = ERROR THEN dir_fd ELSE ret'
      /\ at' = IF ret' = ERROR THEN "failed" ELSE "ls_read"
  BY DEF ls_open, search
<1>2. SearchOK' /\ PositionsInv' /\ running' /\ screen' = << >>
  BY <1>1, Opened DEF SessionInv, SearchOK, ListOK
<1>3. CASE CanOpen(".")
  <2>1. /\ at' = "ls_read" /\ dir_fd' \in opened' /\ file_desc'[dir_fd'].fops = "dir"
        /\ file_desc'[dir_fd'].file_pos = 0
    BY <1>1, <1>3, Opened, DirectoryFound DEF SessionInv
  <2>2. Len(screen') = 0 /\ screen' \in Seq(STRING) /\ 0 * FNAME_SIZE = 0 /\ 1 .. 0 = {}
    BY <1>2, ProgramsAssumption
  <2>3. 0 <= Len(Dentries) - 1
    <3>1. Dentries # << >> /\ Dentries \in Seq([name : STRING, type : Types, inode : Nat])
      BY FilesAssumption, ProgramsAssumption
    <3> QED
      BY <3>1
  <2>4. FirstNames'
    BY <2>2, <2>3 DEF FirstNames
  <2>5. ListOK'
    BY <2>1, <2>2, <2>4 DEF ListOK
  <2>6. CatOK' /\ TestsOK'
    BY <2>1 DEF CatOK, TestsOK
  <2> QED
    BY <1>2, <2>1, <2>5, <2>6 DEF SessionInv
<1>4. CASE ~CanOpen(".")
  <2>1. at' = "failed"
    BY <1>1, <1>4, Opened DEF SessionInv
  <2> QED
    BY <1>2, <2>1, OtherPlaces DEF Places
<1> QED
  BY <1>3, <1>4

\* A name is printed for every read that is not the last.
LEMMA ListReadStep ==
  ASSUME SessionInv, ls_read
  PROVE  SessionInv'
<1> DEFINE F == FNAME_SIZE
           N == Len(Dentries)
           k == Len(screen)
<1>1. /\ at = "ls_read" /\ Read(dir_fd, F) /\ last' = last /\ dir_fd' = dir_fd
      /\ screen' = IF ret' = 0 THEN screen ELSE Append(screen, NameRead)
      /\ at' = IF ret' = 0 THEN "ls_done" ELSE "ls_read"
  BY DEF ls_read, search
<1>2. /\ running /\ PositionsInv /\ SearchOK /\ FirstNames /\ dir_fd \in opened
      /\ file_desc[dir_fd].fops = "dir" /\ file_desc[dir_fd].file_pos = k * F
  BY <1>1 DEF SessionInv, ListOK
<1>3. /\ F \in Nat /\ F > 0 /\ N \in Nat /\ k \in Nat /\ k <= N - 1 /\ DirLength = N * F
      /\ screen \in Seq(STRING)
  BY <1>2, FilesAssumption, ProgramsAssumption DEF FirstNames
<1>4. /\ PositionsInv' /\ running' /\ SearchOK' /\ opened' = opened
      /\ dir_fd \in Fds /\ read(dir_fd, F)
  BY <1>1, <1>2, <1>3, ReadCall, OpenedReadable DEF SearchOK
<1>5. dir_read(dir_fd, F)
  BY <1>2, <1>4 DEF read, file_read, device_read
<1>6. k * F + F = (k + 1) * F /\ (k + 1) * F \in Nat /\ k * F \in Nat /\ N * F \in Nat
  <2> HIDE DEF F, N, k
  <2> QED
    BY <1>3, Times
<1>7. DOMAIN file_desc = Fds /\ \A i \in Fds : file_desc[i] \in Descriptor
  BY <1>2 DEF PositionsInv, TypeOK, Descriptor
<1>8. CASE k * F + F >= N * F
  <2>1. ret' = 0 /\ at' = "ls_done" /\ screen' = screen
    BY <1>1, <1>2, <1>3, <1>5, <1>8 DEF dir_read
  <2>2. k = N - 1
    <3> SUFFICES ASSUME k + 1 < N PROVE FALSE
      <4> HIDE DEF k, N
      <4> QED
        BY <1>3
    <3> HIDE DEF F, N, k
    <3>1. (k + 1) * F + F <= N * F
      BY <1>3, Times
    <3> QED
      BY <1>3, <1>6, <1>8, <3>1
  <2>3. FirstNames' /\ Len(screen') = N - 1
    BY <1>2, <2>1, <2>2 DEF FirstNames
  <2>4. ListOK' /\ CatOK' /\ TestsOK'
    BY <2>1, <2>3 DEF ListOK, CatOK, TestsOK
  <2> QED
    BY <1>4, <2>1, <2>4 DEF SessionInv
<1>9. CASE ~ (k * F + F >= N * F)
  <2>1. ret' = F /\ file_desc' = [file_desc EXCEPT ![dir_fd].file_pos = k * F + F]
    BY <1>2, <1>3, <1>5, <1>9 DEF dir_read
  <2>2. at' = "ls_read" /\ screen' = Append(screen, NameRead)
    BY <1>1, <1>3, <2>1
  <2>3. k + 1 <= N - 1
    <3> SUFFICES ASSUME N <= k + 1 PROVE FALSE
      <4> HIDE DEF k, N
      <4> QED
        BY <1>3
    <3> HIDE DEF F, N, k
    <3>1. N * F <= (k + 1) * F
      BY <1>3, Times
    <3> QED
      BY <1>3, <1>6, <1>9, <3>1
  <2>4. NameRead = Dentries[k + 1].name
    <3>1. (k * F) \div F = k
      <4> HIDE DEF F, k
      <4> QED
        BY <1>3
    <3> QED
      BY <1>2, <3>1 DEF NameRead
  <2>5. Dentries[k + 1].name \in STRING
    <3> DEFINE E == [name : STRING, type : Types, inode : Nat]
    <3>1. Dentries \in Seq(E) /\ k + 1 \in 1 .. N
      <4> HIDE DEF k, N
      <4>1. k + 1 \in 1 .. N
        BY <1>3, <2>3
      <4> QED
        BY <4>1, FilesAssumption
    <3> HIDE DEF E, k
    <3>2. Dentries[k + 1] \in E
      BY <3>1, ElementOfSeq
    <3> QED
      BY <3>2 DEF E
  <2> DEFINE e == Dentries[k + 1].name
  <2>6. /\ screen' = Append(screen, e) /\ e \in STRING
    BY <2>2, <2>4, <2>5
  <2> HIDE DEF e
  <2>7. /\ screen' \in Seq(STRING) /\ Len(screen') = k + 1
        /\ \A j \in 1 .. k : screen'[j] = screen[j]
        /\ screen'[k + 1] = e
    <3> DEFINE long == Append(screen, e)
    <3>1. /\ long \in Seq(STRING) /\ Len(long) = Len(screen) + 1
          /\ \A j \in 1 .. Len(screen) : long[j] = screen[j]
          /\ long[Len(screen) + 1] = e
      <4> DEFINE S == STRING
      <4>1. screen \in Seq(S) /\ e \in S
        BY <1>3, <2>6
      <4> HIDE DEF S, k
      <4>2. /\ long \in Seq(S) /\ Len(long) = Len(screen) + 1
            /\ \A j \in 1 .. Len(screen) : long[j] = screen[j]
            /\ long[Len(screen) + 1] = e
        BY <4>1, AppendProperties
      <4> QED
        BY <4>2 DEF S
    <3> QED
      BY <2>6, <3>1, Zenon
  <2>8. FirstNames'
    <3>1. \A j \in 1 .. k + 1 : screen'[j] = Dentries[j].name
      <4>1. \A j \in 1 .. k + 1 : j \in 1 .. k \/ j = k + 1
        BY <1>3
      <4> QED
        BY <1>2, <2>7, <4>1 DEF FirstNames, e
    <3> QED
      BY <2>3, <2>7, <3>1 DEF FirstNames
  <2>9. file_desc'[dir_fd].fops = "dir" /\ file_desc'[dir_fd].file_pos = k * F + F
    <3> HIDE DEF F, k
    <3> QED
      BY <1>2, <1>4, <1>7, <2>1 DEF Descriptor
  <2>10. ListOK'
    BY <1>1, <1>2, <1>4, <1>6, <2>2, <2>7, <2>8, <2>9 DEF ListOK
  <2>11. CatOK' /\ TestsOK'
    BY <2>2 DEF CatOK, TestsOK
  <2> QED
    BY <1>4, <2>2, <2>10, <2>11 DEF SessionInv
<1> QED
  BY <1>8, <1>9, <1>3

-----------------------------------------------------------------------------
(* cat *)

\* cat opens the file it is given.
LEMMA CatOpenStep ==
  ASSUME SessionInv, NEW name, cat_open(name)
  PROVE  SessionInv'
<1>1. /\ at = "cat" /\ Open(name) /\ screen' = screen /\ last' = last
      /\ fd' = IF ret' = ERROR THEN fd ELSE ret'
      /\ at' = IF ret' = ERROR THEN "failed" ELSE "cat_read"
  BY DEF cat_open, search
<1>2. SearchOK' /\ PositionsInv' /\ running' /\ screen' = << >>
  BY <1>1, Opened DEF SessionInv, SearchOK, CatOK
<1>3. CASE CanOpen(name)
  <2>1. /\ at' = "cat_read" /\ fd' \in opened' /\ got'[fd'] = << >>
    BY <1>1, <1>3, Opened DEF SessionInv
  <2> QED
    BY <1>2, <2>1 DEF SessionInv, ListOK, CatOK, TestsOK
<1>4. CASE ~CanOpen(name)
  <2>1. at' = "failed"
    BY <1>1, <1>4, Opened DEF SessionInv
  <2> QED
    BY <1>2, <2>1, OtherPlaces DEF Places
<1> QED
  BY <1>3, <1>4

\* The bytes of one read, and nothing if it returned none.
LEMMA Appended ==
  ASSUME NEW a \in Seq(Nat), NEW b \in Seq(Nat)
  PROVE  SubSeq(a \o b, Len(a) + 1, Len(a \o b)) = b
<1> DEFINE c == a \o b
<1>1. /\ c \in Seq(Nat) /\ Len(c) = Len(a) + Len(b)
      /\ \A j \in 1 .. Len(c) : c[j] = IF j <= Len(a) THEN a[j] ELSE b[j - Len(a)]
      /\ Len(a) \in Nat /\ Len(b) \in Nat
  BY ConcatProperties
<1> DEFINE s == SubSeq(c, Len(a) + 1, Len(c))
<1> HIDE DEF c
<1>2. s = [j \in 1 .. Len(b) |-> c[Len(a) + j]]
  <2>1. Len(c) - (Len(a) + 1) + 1 = Len(b)
    BY <1>1
  <2>2. \A j \in 1 .. Len(b) : Len(a) + 1 + j - 1 = Len(a) + j
    BY <1>1
  <2> QED
    BY <1>1, <2>1, <2>2
<1>3. \A j \in 1 .. Len(b) : c[Len(a) + j] = b[j]
  <2> TAKE j \in 1 .. Len(b)
  <2>1. Len(a) + j \in 1 .. Len(c) /\ ~ (Len(a) + j <= Len(a)) /\ (Len(a) + j) - Len(a) = j
    BY <1>1
  <2> QED
    BY <1>1, <2>1
<1>4. b = [j \in 1 .. Len(b) |-> b[j]]
  BY <1>1
<1> QED
  BY <1>2, <1>3, <1>4 DEF c

\* What is printed is what has been read; the read that returns 0 is the last.
LEMMA CatReadStep ==
  ASSUME SessionInv, cat_read
  PROVE  SessionInv'
<1>1. /\ at = "cat_read" /\ Read(fd, BUFSIZE) /\ last' = last /\ fd' = fd
      /\ screen' = IF ret' > 0 THEN screen \o BytesRead ELSE screen
  BY DEF cat_read, search
<1>2. /\ ret' = 0 => at' = "cat_done"
      /\ ret' # 0 => at' \in {"failed", "cat_read"}
  BY DEF cat_read, ERROR
<1>3. /\ running /\ PositionsInv /\ SearchOK /\ fd \in opened /\ screen = got[fd]
      /\ BUFSIZE \in Nat /\ BUFSIZE > 0
  BY <1>1, ProgramsAssumption DEF SessionInv, CatOK
<1>4. /\ PositionsInv' /\ running' /\ SearchOK' /\ opened' = opened
      /\ fd \in Fds /\ read(fd, BUFSIZE)
  BY <1>1, <1>3, ReadCall, OpenedReadable DEF SearchOK
<1>5. got[fd] \in Seq(Nat)
  BY <1>3, <1>4 DEF PositionsInv, TypeOK
<1>6. PICK bytes \in Seq(Nat) : /\ got'[fd] = got[fd] \o bytes
                                /\ ~ (ret' > 0) => bytes = << >>
  BY <1>3, <1>4, ReadResult
<1>7. BytesRead = bytes
  BY <1>5, <1>6, Appended, Zenon DEF BytesRead
<1>8. screen' = got'[fd]
  <2>1. CASE ret' > 0
    BY <1>1, <1>3, <1>6, <1>7, <2>1, Zenon
  <2>2. CASE ~ (ret' > 0)
    <3>1. got[fd] \o << >> = got[fd]
      BY <1>5
    <3> QED
      BY <1>1, <1>3, <1>6, <2>2, <3>1, Zenon
  <2> QED
    BY <2>1, <2>2
<1>9. CASE ret' = 0
  <2>1. file_desc[fd].fops = "file" => ended'[fd]
    BY <1>3, <1>4, <1>9, ReadResult
  <2>2. file_desc'[fd].fops = file_desc[fd].fops
    BY <1>3, <1>4, ReadResult
  <2>3. CatOK'
    BY <1>1, <1>2, <1>3, <1>4, <1>8, <1>9, <2>1, <2>2 DEF CatOK
  <2>4. ListOK' /\ TestsOK'
    BY <1>2, <1>9 DEF ListOK, TestsOK
  <2> QED
    BY <1>2, <1>4, <1>9, <2>3, <2>4 DEF SessionInv
<1>10. CASE ret' # 0
  <2>1. CatOK'
    BY <1>1, <1>2, <1>3, <1>4, <1>8, <1>10 DEF CatOK
  <2>2. ListOK' /\ TestsOK'
    BY <1>2, <1>10 DEF ListOK, TestsOK
  <2> QED
    BY <1>2, <1>4, <1>10, <2>1, <2>2 DEF SessionInv
<1> QED
  BY <1>9, <1>10

-----------------------------------------------------------------------------
(* grep: what is carried to the next read leaves room for it *)

\* A state of the search of a buffer, as far as this is about it.
SearchState(st) ==
  /\ DOMAIN st = {"data", "start", "last", "done", "shown"}
  /\ st.last \in 0 .. BUFSIZE
  /\ st.start \in Nat
  /\ st.done \/ st.start <= st.last

\* A line ends at the first newline, or with the bytes there are.
LEMMA LineEndIs ==
  ASSUME NEW d, NEW from \in Nat, NEW to \in Nat, from <= to
  PROVE  LET e == LineEnd(d, from, to)
         IN  /\ e \in from .. to
             /\ e = to \/ d[e] = NL
             /\ \A k \in from .. e - 1 : d[k] # NL
<1> DEFINE T == {k \in from .. to : k = to \/ d[k] = NL}
           Is(e) == (e = to \/ d[e] = NL) /\ \A k \in from .. e - 1 : d[k] # NL
<1>1. T \subseteq Nat /\ to \in T
  OBVIOUS
<1>2. PICK e \in T : \A k \in T : ~ (k < e)
  BY <1>1, LeastNat
<1>3. Is(e)
  <2>1. \A k \in from .. e - 1 : k \in from .. to /\ k < e
    BY <1>2
  <2> QED
    BY <1>2, <2>1
<1>4. LineEnd(d, from, to) \in from .. to /\ Is(LineEnd(d, from, to))
  <2> HIDE DEF Is
  <2>1. LineEnd(d, from, to) = CHOOSE k \in from .. to : Is(k)
    BY DEF LineEnd, Is
  <2> QED
    BY <1>2, <1>3, <2>1
<1> QED
  BY <1>4

\* The search of a line leaves such a state.
LEMMA SearchLineState ==
  ASSUME NEW st, NEW cnt, SearchState(st), ~ st.done
  PROVE  SearchState(SearchLine(st, cnt))
<1> DEFINE e == LineEnd(st.data, st.start, st.last)
           d == [st.data EXCEPT ![e] = 0]
           shown == IF Matches(d, st.start, e) THEN Append(st.shown, puts(d, st.start))
                    ELSE st.shown
           carried == ece391_strcpy(d, 0, st.start)
<1>1. /\ BUFSIZE \in Nat /\ st.last \in Nat /\ st.start \in Nat /\ st.start <= st.last
      /\ st.last <= BUFSIZE
  BY ProgramsAssumption DEF SearchState
<1>2. e \in st.start .. st.last
  BY <1>1, LineEndIs
<1>3. CASE st.data[e] # NL /\ cnt # 0 /\ st.start # 0
  <2> DEFINE new == [st EXCEPT !.data = carried, !.last = @ - st.start, !.done = TRUE]
  <2>1. SearchLine(st, cnt) = new
    BY <1>3, Zenon DEF SearchLine
  <2> HIDE DEF carried
  <2>2. /\ DOMAIN new = DOMAIN st /\ new.last = st.last - st.start
        /\ new.start = st.start /\ new.done = TRUE
    BY DEF SearchState
  <2> HIDE DEF new
  <2> QED
    BY <1>1, <2>1, <2>2 DEF SearchState
<1>4. CASE ~ (st.data[e] # NL /\ cnt # 0 /\ st.start # 0)
  <2> DEFINE over == e + 1 >= st.last
             rest == IF over THEN 0 ELSE st.last
             new == [data |-> d, start |-> e + 1, done |-> over, last |-> rest,
                     shown |-> shown]
  <2>1. SearchLine(st, cnt) = new
    BY <1>4, Zenon DEF SearchLine
  <2>2. rest \in 0 .. BUFSIZE /\ e + 1 \in Nat /\ (over \/ e + 1 <= rest)
    <3> HIDE DEF e
    <3> QED
      BY <1>1, <1>2
  <2> HIDE DEF d, e, over, rest, shown
  <2>3. /\ DOMAIN new = {"data", "start", "last", "done", "shown"}
        /\ new.last = rest /\ new.start = e + 1 /\ (new.done <=> over)
    OBVIOUS
  <2> HIDE DEF new
  <2> QED
    BY <2>1, <2>2, <2>3 DEF SearchState
<1> QED
  BY <1>3, <1>4

FirstRound(d, to) == [data |-> d, start |-> 0, last |-> to, done |-> FALSE, shown |-> << >>]
NextRound(st, cnt) == IF st.done THEN st ELSE SearchLine(st, cnt)

\* The rounds of SearchBuffer.
LEMMA SearchRounds ==
  ASSUME NEW d, NEW to, NEW cnt
  PROVE  \E f : /\ f[0] = FirstRound(d, to)
                /\ \A k \in 1 .. BUFSIZE + 1 : f[k] = NextRound(f[k - 1], cnt)
                /\ SearchBuffer(d, to, cnt) = f[BUFSIZE + 1]
<1> DEFINE base == FirstRound(d, to)
           Next1(st) == NextRound(st, cnt)
           Eq(f, n) == f = [k \in 0 .. n |-> IF k = 0 THEN base ELSE Next1(f[k - 1])]
           m == BUFSIZE + 1
           c == CHOOSE f : Eq(f, m)
           Exist == {n \in Nat : \E f : Eq(f, n)}
<1>1. m \in Nat
  BY ProgramsAssumption
<1>2. SearchBuffer(d, to, cnt) = c[m]
  BY DEF SearchBuffer, FirstRound, NextRound
<1> HIDE DEF Next1, base
<1>3. 0 \in Exist
  <2>1. Eq([k \in 0 .. 0 |-> base], 0)
    OBVIOUS
  <2> QED
    BY <2>1
<1>4. ASSUME NEW n \in Nat, n \in Exist PROVE n + 1 \in Exist
  <2>1. PICK f : Eq(f, n)
    BY <1>4
  <2> DEFINE g == [k \in 0 .. n + 1 |-> IF k = n + 1 THEN Next1(f[n]) ELSE f[k]]
  <2>2. \A k \in 0 .. n : f[k] = IF k = 0 THEN base ELSE Next1(f[k - 1])
    BY <2>1
  <2>3. g[n + 1] = Next1(f[n]) /\ \A k \in 0 .. n : g[k] = f[k]
    OBVIOUS
  <2>4. DOMAIN g = 0 .. n + 1 /\ g = [k \in 0 .. n + 1 |-> g[k]]
    OBVIOUS
  <2> HIDE DEF g
  <2>5. \A k \in 0 .. n + 1 : g[k] = IF k = 0 THEN base ELSE Next1(g[k - 1])
    <3> TAKE k \in 0 .. n + 1
    <3>1. CASE k = n + 1
      <4>1. k - 1 = n /\ n \in 0 .. n /\ k # 0
        BY <3>1
      <4> QED
        BY <2>3, <3>1, <4>1, Zenon
    <3>2. CASE k # n + 1 /\ k # 0
      <4>1. k \in 0 .. n /\ k - 1 \in 0 .. n
        BY <3>2
      <4> QED
        BY <2>2, <2>3, <3>2, <4>1, Zenon
    <3>3. CASE k = 0
      <4>1. k \in 0 .. n
        BY <3>3
      <4> QED
        BY <2>2, <2>3, <3>3, <4>1, Zenon
    <3> QED
      BY <3>1, <3>2, <3>3
  <2>6. Eq(g, n + 1)
    BY <2>4, <2>5
  <2> QED
    BY <2>6
<1>5. \E f : Eq(f, m)
  <2>1. Nat \subseteq Exist
    <3> HIDE DEF Exist
    <3> QED
      BY <1>3, <1>4, AllNat
  <2> QED
    BY <1>1, <2>1
<1>6. Eq(c, m)
  <2> HIDE DEF Eq
  <2> QED
    BY <1>5
<1> HIDE DEF c
<1>7. \A k \in 0 .. m : c[k] = IF k = 0 THEN base ELSE Next1(c[k - 1])
  BY <1>6
<1>8. c[0] = base /\ \A k \in 1 .. m : c[k] = Next1(c[k - 1])
  BY <1>1, <1>7
<1> QED
  BY <1>2, <1>8 DEF base, Next1

\* No round carries more than the buffer holds.
LEMMA SearchBufferState ==
  ASSUME NEW d, NEW to \in 0 .. BUFSIZE, NEW cnt
  PROVE  SearchBuffer(d, to, cnt).last \in 0 .. BUFSIZE
<1> DEFINE m == BUFSIZE + 1
<1>1. PICK c : /\ c[0] = FirstRound(d, to)
               /\ \A k \in 1 .. m : c[k] = NextRound(c[k - 1], cnt)
               /\ SearchBuffer(d, to, cnt) = c[m]
  BY SearchRounds
<1>2. m \in Nat
  BY ProgramsAssumption
<1> DEFINE Good == {k \in Nat : k \in 0 .. m => SearchState(c[k])}
<1>3. 0 \in Good
  <2> DEFINE base == FirstRound(d, to)
  <2>1. /\ DOMAIN base = {"data", "start", "last", "done", "shown"}
        /\ base.last = to /\ base.start = 0
    BY DEF FirstRound
  <2> HIDE DEF base
  <2>2. to \in 0 .. BUFSIZE /\ 0 <= to /\ c[0] = base
    BY <1>1, <1>2 DEF base
  <2> QED
    BY <2>1, <2>2 DEF SearchState
<1>4. ASSUME NEW k \in Nat, k \in Good PROVE k + 1 \in Good
  <2> SUFFICES ASSUME k + 1 \in 0 .. m PROVE SearchState(c[k + 1])
    OBVIOUS
  <2>1. k \in 0 .. m /\ k + 1 \in 1 .. m /\ (k + 1) - 1 = k
    BY <1>2
  <2>2. c[k + 1] = NextRound(c[k], cnt) /\ SearchState(c[k])
    BY <1>1, <1>4, <2>1
  <2> QED
    BY <2>2, SearchLineState, Zenon DEF NextRound
<1>5. SearchState(c[m])
  <2>1. Nat \subseteq Good
    <3> HIDE DEF Good
    <3> QED
      BY <1>3, <1>4, AllNat
  <2> QED
    BY <1>2, <2>1
<1> QED
  BY <1>1, <1>5 DEF SearchState

-----------------------------------------------------------------------------
(* grep: its system calls *)

\* The calls that open the directory, read a name, open the file and close it.
LEMMA GrepCallStep ==
  ASSUME SessionInv, grep_open \/ grep_dir \/ grep_file \/ grep_close
  PROVE  SessionInv'
<1>1. CASE grep_open
  <2>1. at \in {"grep"} /\ Open(".") /\ last' = last /\ at' \in {"failed", "grep_dir"}
    BY <1>1 DEF grep_open, search
  <2>2. PositionsInv' /\ SearchOK' /\ running'
    BY <2>1, Opened DEF SessionInv, SearchOK
  <2> QED
    BY <2>1, <2>2, OtherPlaces DEF Places
<1>2. CASE grep_dir
  <2>1. /\ Read(dir_fd, FNAME_SIZE) /\ last' = last
        /\ at' \in {"grep_done", "grep_dir", "grep_file"}
    BY <1>2 DEF grep_dir, search
  <2>2. PositionsInv' /\ SearchOK' /\ running'
    BY <2>1, ReadCall, ProgramsAssumption DEF SessionInv, SearchOK
  <2> QED
    BY <2>1, <2>2, OtherPlaces DEF Places
<1>3. CASE grep_file
  <2>1. Open(NameToSearch) /\ last' = 0 /\ at' \in {"failed", "grep_read"}
    BY <1>3 DEF grep_file
  <2>2. PositionsInv' /\ running'
    BY <2>1, Opened DEF SessionInv
  <2>3. SearchOK'
    BY <2>1, ProgramsAssumption DEF SearchOK
  <2> QED
    BY <2>1, <2>2, <2>3, OtherPlaces DEF Places
<1>4. CASE grep_close
  <2>1. Close(fd) /\ last' = last /\ at' \in {"failed", "grep_dir"}
    BY <1>4 DEF grep_close, search
  <2>2. PositionsInv' /\ SearchOK' /\ running'
    BY <2>1, CloseKeeps DEF SessionInv, SearchOK, Close, close, close_error, Fails
  <2> QED
    BY <2>1, <2>2, OtherPlaces DEF Places
<1> QED
  BY <1>1, <1>2, <1>3, <1>4

\* A read of a file to search asks for no more than the buffer has room for.
LEMMA GrepReadStep ==
  ASSUME SessionInv, grep_read
  PROVE  SessionInv'
<1> DEFINE bytes == IF ret' > 0 THEN BytesRead ELSE << >>
           filled == WithBytes(data, last, bytes, Cleared)
           r == SearchBuffer(filled, last + Len(bytes), ret')
<1>1. /\ at = "grep_read" /\ Read(fd, BUFSIZE - last)
      /\ last' = IF ret' = ERROR THEN last ELSE r.last
      /\ at' \in {"grep_close", "failed", "grep_read"}
  BY DEF grep_read
<1>2. /\ PositionsInv /\ running /\ last \in 0 .. BUFSIZE /\ BUFSIZE \in Nat
      /\ BUFSIZE - last \in Nat
  BY <1>1, ProgramsAssumption DEF SessionInv, SearchOK
<1>3. /\ PositionsInv' /\ running'
      /\ Readable(fd) => read(fd, BUFSIZE - last)
      /\ ~Readable(fd) => ret' = ERROR
  BY <1>1, <1>2, ReadCall
<1>4. CASE ret' = ERROR
  BY <1>1, <1>2, <1>3, <1>4, OtherPlaces DEF Places, SearchOK
<1>5. CASE ret' # ERROR
  <2>1. read(fd, BUFSIZE - last) /\ fd \in Fds
    BY <1>3, <1>5 DEF read, Readable
  <2>2. got[fd] \in Seq(Nat)
    BY <1>2, <2>1 DEF PositionsInv, TypeOK
  <2>3. PICK b \in Seq(Nat) : got'[fd] = got[fd] \o b /\ Len(b) <= BUFSIZE - last
    BY <1>2, <2>1, ReadResult
  <2>4. BytesRead = b
    BY <2>2, <2>3, Appended, Zenon DEF BytesRead
  <2>5. bytes = b \/ bytes = << >>
    BY <2>4, Zenon
  <2>6. Len(b) \in Nat /\ Len(<< >>) = 0
    BY <2>3
  <2>7. last + Len(bytes) \in 0 .. BUFSIZE
    <3> HIDE DEF bytes
    <3> QED
      BY <1>2, <2>3, <2>5, <2>6
  <2> HIDE DEF bytes, filled
  <2>8. r.last \in 0 .. BUFSIZE
    BY <2>7, SearchBufferState
  <2> HIDE DEF r
  <2>9. SearchOK'
    BY <1>1, <1>5, <2>8 DEF SearchOK
  <2> QED
    BY <1>1, <1>3, <2>9, OtherPlaces DEF Places
<1> QED
  BY <1>4, <1>5

-----------------------------------------------------------------------------
(* The tests of failing calls *)

\* Each of the calls fails.
LEMMA ErrCallStep ==
  ASSUME SessionInv, err_call
  PROVE  SessionInv'
<1>1. /\ last' = last /\ at' = "syserr_done"
      /\ screen' = <<IF ret' = ERROR THEN "PASS" ELSE "FAIL">>
  BY DEF err_call, search
<1>2. MAX_FILE_NUM \notin Fds /\ -1 \notin Fds /\ PositionsInv
  BY Numbers DEF Fds, SessionInv
<1>3. PositionsInv' /\ running' /\ ret' = ERROR
  <2>1. CASE Read(-1, 1)
    <3>1. ~Readable(-1)
      BY <1>2 DEF Readable
    <3> QED
      BY <1>2, <2>1, <3>1, ReadCall
  <2>2. CASE Write(MAX_FILE_NUM, 1)
    <3>1. Fails /\ running
      BY <1>2, <2>2 DEF Write, write, Writable
    <3> QED
      BY <1>2, <3>1, FailsKeeps DEF Fails
  <2>3. CASE \E name \in Missing : Open(name)
    <3>1. PICK name \in Missing : Open(name)
      BY <2>3
    <3>2. ~CanOpen(name)
      BY ProgramsAssumption DEF CanOpen, Found
    <3> QED
      BY <1>2, <3>1, <3>2, Opened
  <2>4. CASE at = "close" /\ Close(MAX_FILE_NUM - 1)
    <3>1. opened = {} /\ running /\ DescriptorsAreOpened
      BY <2>4 DEF SessionInv, TestsOK, PositionsInv, DescriptorsInv
    <3>2. ~Closable(MAX_FILE_NUM - 1)
      BY <3>1 DEF Closable, DescriptorsAreOpened
    <3>3. Fails
      BY <2>4, <3>2 DEF Close, close, close_error
    <3> QED
      BY <1>2, <3>1, <3>3, FailsKeeps DEF Fails
  <2> QED
    BY <2>1, <2>2, <2>3, <2>4 DEF err_call
<1>4. screen' = <<"PASS">>
  BY <1>1, <1>3
<1>5. SearchOK'
  BY <1>1 DEF SessionInv, SearchOK
<1>6. ListOK' /\ CatOK' /\ TestsOK'
  BY <1>1, <1>4 DEF ListOK, CatOK, TestsOK
<1> QED
  BY <1>1, <1>3, <1>5, <1>6 DEF SessionInv

\* Opens take the descriptors in turn, and only the last finds none.
LEMMA ErrOpenLotsStep ==
  ASSUME SessionInv, err_open_lots
  PROVE  SessionInv'
<1> DEFINE c == count.calls
           M == MAX_FILE_NUM
<1>1. at = "open_lots" /\ last' = last
  BY DEF err_open_lots, search
<1>2. /\ PositionsInv /\ running /\ SearchOK /\ c \in 0 .. M - 1 /\ M \in Nat /\ M >= 2
      /\ IF c < M - 1 THEN opened = 2 .. c + 1 /\ count.failed = 0 ELSE count.failed = 1
  BY <1>1, Numbers DEF SessionInv, TestsOK
<1>3. SearchOK'
  BY <1>1, <1>2 DEF SearchOK
<1>4. CASE c < M - 1
  <2>1. /\ Open(".") /\ at' = at /\ screen' = screen
        /\ count' = [calls |-> c + 1,
                     failed |-> count.failed + (IF ret' = ERROR THEN 1 ELSE 0)]
    BY <1>4 DEF err_open_lots
  <2>2. opened = 2 .. c + 1 /\ count.failed = 0
    BY <1>2, <1>4
  <2>3. PositionsInv' /\ running'
    BY <1>2, <2>1, Opened
  <2>4. \A j \in Fds : InUse(j) <=> j \in 0 .. c + 1
    <3>1. InUse(0) /\ InUse(1) /\ {i \in Fds : i >= 2 /\ InUse(i)} = 2 .. c + 1
      BY <1>2, <2>2 DEF PositionsInv, DescriptorsInv, DescriptorsAreOpened, InUse, Stream
    <3> TAKE j \in Fds
    <3>2. j \in Nat /\ (j = 0 \/ j = 1 \/ j >= 2)
      BY Numbers
    <3> HIDE DEF c
    <3> QED
      BY <1>2, <3>1, <3>2
  <2>5. CASE c < M - 2
    <3>1. c + 2 \in Fds /\ ~InUse(c + 2)
      <4>1. c + 2 \in Fds /\ c + 2 \notin 0 .. c + 1
        <5> HIDE DEF c
        <5> QED
          BY <1>2, <2>5 DEF Fds
      <4> QED
        BY <2>4, <4>1
    <3>2. ~Full
      BY <3>1 DEF Full
    <3>3. FirstUnused = c + 2
      <4> DEFINE u == FirstUnused
      <4>1. u \in Fds /\ ~InUse(u) /\ \A j \in 0 .. u - 1 : InUse(j)
        BY <3>2, FirstUnusedIsUnused
      <4>2. u \in Nat /\ u \notin 0 .. c + 1
        BY <2>4, <4>1, Numbers
      <4> HIDE DEF u, c
      <4>3. u >= c + 2 /\ (u > c + 2 => c + 2 \in 0 .. u - 1)
        BY <1>2, <4>2
      <4>4. u = c + 2
        BY <1>2, <3>1, <4>1, <4>2, <4>3
      <4> QED
        BY <4>4 DEF u
    <3>4. CanOpen(".")
      BY <3>2, DirectoryFound DEF CanOpen
    <3>5. ret' # ERROR /\ opened' = opened \cup {c + 2}
      BY <1>2, <2>1, <3>3, <3>4, Opened
    <3>6. count'.calls = c + 1 /\ count'.failed = 0
      BY <2>1, <2>2, <3>5
    <3>7. opened' = 2 .. (c + 1) + 1 /\ c + 1 \in 0 .. M - 1 /\ c + 1 < M - 1
      <4> HIDE DEF c
      <4> QED
        BY <1>2, <2>2, <2>5, <3>5
    <3>8. TestsOK'
      BY <1>1, <2>1, <3>6, <3>7 DEF TestsOK
    <3> QED
      BY <1>1, <1>3, <2>1, <2>3, <3>8 DEF SessionInv, ListOK, CatOK
  <2>6. CASE ~ (c < M - 2)
    <3>1. c = M - 2
      <4> HIDE DEF c
      <4> QED
        BY <1>2, <1>4, <2>6
    <3>2. Full
      <4>1. \A j \in Fds : j \in 0 .. c + 1
        BY <1>2, <3>1 DEF Fds
      <4> QED
        BY <2>4, <4>1 DEF Full
    <3>3. ret' = ERROR
      BY <1>2, <2>1, <3>2, Opened DEF CanOpen
    <3>4. count'.calls = c + 1 /\ count'.failed = 1
      BY <2>1, <2>2, <3>3
    <3>5. c + 1 \in 0 .. M - 1 /\ ~ (c + 1 < M - 1)
      <4> HIDE DEF c
      <4> QED
        BY <1>2, <3>1
    <3>6. TestsOK'
      BY <1>1, <2>1, <3>4, <3>5 DEF TestsOK
    <3> QED
      BY <1>1, <1>3, <2>1, <2>3, <3>6 DEF SessionInv, ListOK, CatOK
  <2> QED
    BY <2>5, <2>6
<1>5. CASE ~ (c < M - 1)
  <2>1. /\ screen' = <<IF count.failed > 1 THEN "FAIL" ELSE "PASS">>
        /\ at' = "syserr_done" /\ UNCHANGED vars
    BY <1>5 DEF err_open_lots
  <2>2. screen' = <<"PASS">>
    BY <1>2, <1>5, <2>1
  <2>3. PositionsInv' /\ running'
    BY <1>2, <2>1, FailsKeeps DEF vars
  <2>4. ListOK' /\ CatOK' /\ TestsOK'
    BY <2>1, <2>2 DEF ListOK, CatOK, TestsOK
  <2> QED
    BY <1>3, <2>1, <2>3, <2>4 DEF SessionInv
<1> QED
  BY <1>4, <1>5

-----------------------------------------------------------------------------
(* grep: the lines of a text *)

\* Behind q, where a line begins, and before k there is no newline.
IsLine(c, q, k) ==
  /\ q \in 0 .. Len(c) /\ k \in q + 1 .. Len(c) + 1
  /\ LineStart(c, q)
  /\ \A j \in q + 1 .. k - 1 : c[j] # NL

\* Every position lies in a line,
LEMMA LineStarts ==
  ASSUME NEW c, c \in Seq(Nat), NEW k \in 1 .. Len(c) + 1
  PROVE  \E q \in 0 .. k - 1 : IsLine(c, q, k)
<1> DEFINE T == {n \in 0 .. k - 1 : LineStart(c, k - 1 - n)}
<1>1. k - 1 \in T /\ T \subseteq Nat
  BY DEF LineStart
<1>2. PICK n \in T : \A m \in T : ~ (m < n)
  BY <1>1, LeastNat
<1>3. k - 1 - n \in 0 .. k - 1 /\ LineStart(c, k - 1 - n)
  BY <1>2
<1>4. ASSUME NEW j \in (k - 1 - n) + 1 .. k - 1 PROVE c[j] # NL
  <2>1. k - 1 - j \in 0 .. k - 1 /\ k - 1 - j < n /\ k - 1 - (k - 1 - j) = j
    BY <1>2
  <2> QED
    BY <1>2, <2>1 DEF LineStart
<1> QED
  BY <1>3, <1>4 DEF IsLine

\* and the line before it is what is behind the line's beginning.
LEMMA LineBeforeIs ==
  ASSUME NEW c, c \in Seq(Nat), NEW q, NEW k, IsLine(c, q, k)
  PROVE  LineBefore(c, k) = SubSeq(c, q + 1, k - 1)
<1> DEFINE Is(a) == (a = 1 \/ c[a - 1] = NL) /\ \A j \in a .. k - 1 : c[j] # NL
           first == CHOOSE a \in 1 .. k : Is(a)
<1>1. q \in Nat /\ k \in Nat /\ q + 1 \in 1 .. k /\ Is(q + 1)
  BY DEF IsLine, LineStart
<1>2. first \in 1 .. k /\ Is(first)
  <2> HIDE DEF Is
  <2> QED
    BY <1>1
<1> HIDE DEF first
<1>3. first = q + 1
  <2>1. CASE first < q + 1
    <3>1. q \in first .. k - 1 /\ q # 0
      BY <1>1, <1>2, <2>1
    <3> QED
      BY <1>2, <3>1 DEF IsLine, LineStart
  <2>2. CASE first > q + 1
    <3>1. first - 1 \in q + 1 .. k - 1 /\ first # 1
      BY <1>1, <1>2, <2>2
    <3> QED
      BY <1>1, <1>2, <3>1
  <2> QED
    BY <1>1, <1>2, <2>1, <2>2
<1> QED
  BY <1>3 DEF LineBefore, first

\* It is a sequence of bytes.
LEMMA LineBeforeTyped ==
  ASSUME NEW c, c \in Seq(Nat), NEW k \in 1 .. Len(c) + 1
  PROVE  LineBefore(c, k) \in Seq(Nat)
<1>1. PICK q \in 0 .. k - 1 : IsLine(c, q, k)
  BY LineStarts
<1>2. LineBefore(c, k) = SubSeq(c, q + 1, k - 1)
  BY <1>1, LineBeforeIs
<1>3. \A i \in q + 1 .. k - 1 : c[i] \in Nat
  OBVIOUS
<1>4. q + 1 \in Int /\ k - 1 \in Int
  OBVIOUS
<1> QED
  BY <1>2, <1>3, <1>4, SubSeqProperties

Texts == Seq(Seq(Nat))

\* What one more position adds to the lines found.
FoundAt(c, p, k, r) ==
  IF k \in LineEnds(c) /\ HasPattern(LineBefore(c, k), p) THEN Append(r, LineBefore(c, k)) ELSE r

\* LinesUpTo is what its recursion says.
LEMMA LinesRecursion ==
  ASSUME NEW c, c \in Seq(Nat), NEW p
  PROVE  /\ LinesUpTo(c, p, 0) = << >>
         /\ \A k \in 0 .. Len(c) + 1 : LinesUpTo(c, p, k) \in Texts
         /\ \A k \in 1 .. Len(c) + 1 :
               LinesUpTo(c, p, k) = FoundAt(c, p, k, LinesUpTo(c, p, k - 1))
<1> DEFINE m == Len(c) + 1
           Eq(f) == f = [k \in 0 .. m |-> IF k = 0 THEN << >> ELSE FoundAt(c, p, k, f[k - 1])]
           step == [k \in Nat |-> [r \in Texts |-> IF k \in 1 .. m THEN FoundAt(c, p, k, r) ELSE r]]
           f0 == CHOOSE f : Eq(f)
<1>1. m \in Nat /\ << >> \in Texts
  BY DEF Texts
<1>2. ASSUME NEW k \in 1 .. m, NEW r \in Texts PROVE FoundAt(c, p, k, r) \in Texts
  <2>1. LineBefore(c, k) \in Seq(Nat)
    BY LineBeforeTyped
  <2>2. Append(r, LineBefore(c, k)) \in Texts
    BY <2>1, AppendProperties DEF Texts
  <2> QED
    BY <2>2, Zenon DEF FoundAt
<1>3. \A k \in Nat, r \in Texts : step[k][r] \in Texts
  <2> HIDE DEF m
  <2> QED
    BY <1>2
<1>4. \A k \in 1 .. m, r \in Texts : step[k][r] = FoundAt(c, p, k, r)
  <2> HIDE DEF m
  <2> QED
    BY <1>1
<1> HIDE DEF step, m
<1>5. \E f : Eq(f)
  <2>1. Computed(Texts, << >>, step, m)
    BY <1>1, <1>3, Recursion
  <2>2. PICK f \in [0 .. m -> Texts] :
           f[0] = << >> /\ \A k \in 1 .. m : f[k] = step[k][f[k - 1]]
    BY <2>1 DEF Computed
  <2>3. \A k \in 0 .. m : k # 0 => k \in 1 .. m /\ f[k - 1] \in Texts
    BY <1>1
  <2>4. \A k \in 0 .. m : k # 0 => f[k] = FoundAt(c, p, k, f[k - 1])
    BY <1>4, <2>2, <2>3
  <2>5. f = [k \in 0 .. m |-> f[k]]
    OBVIOUS
  <2>6. Eq(f)
    BY <2>2, <2>4, <2>5
  <2> QED
    BY <2>6
<1>6. Eq(f0)
  <2> HIDE DEF Eq
  <2> QED
    BY <1>5
<1>7. \A n : LinesUpTo(c, p, n) = f0[n]
  BY DEF LinesUpTo, FoundAt, m
<1> HIDE DEF f0
<1>8. f0[0] = << >> /\ \A k \in 1 .. m : f0[k] = FoundAt(c, p, k, f0[k - 1])
  BY <1>1, <1>6
<1> DEFINE Good == {k \in Nat : k \in 0 .. m => f0[k] \in Texts}
<1>9. Nat \subseteq Good
  <2>1. 0 \in Good
    BY <1>1, <1>8
  <2>2. ASSUME NEW k \in Nat, k \in Good PROVE k + 1 \in Good
    <3> SUFFICES ASSUME k + 1 \in 0 .. m PROVE f0[k + 1] \in Texts
      OBVIOUS
    <3>1. k \in 0 .. m /\ k + 1 \in 1 .. m /\ (k + 1) - 1 = k
      BY <1>1
    <3> QED
      BY <1>2, <1>8, <2>2, <3>1
  <2> HIDE DEF Good
  <2> QED
    BY <2>1, <2>2, AllNat
<1>10. LinesUpTo(c, p, 0) = << >>
  BY <1>7, <1>8
<1>11. \A k \in 0 .. m : LinesUpTo(c, p, k) \in Texts
  <2>1. \A k \in 0 .. m : f0[k] \in Texts
    BY <1>1, <1>9
  <2> QED
    BY <1>7, <2>1
<1>12. \A k \in 1 .. m : LinesUpTo(c, p, k) = FoundAt(c, p, k, LinesUpTo(c, p, k - 1))
  BY <1>7, <1>8, Zenon
<1> QED
  BY <1>10, <1>11, <1>12, Zenon DEF m

\* Nothing is found inside a line,
LEMMA InsideLine ==
  ASSUME NEW c, c \in Seq(Nat), NEW p, NEW q, NEW k, IsLine(c, q, k)
  PROVE  LinesUpTo(c, p, k - 1) = LinesUpTo(c, p, q)
<1> DEFINE U(j) == LinesUpTo(c, p, j)
           Good == {n \in Nat : q + n <= k - 1 => U(q + n) = U(q)}
<1>1. q \in Nat /\ k \in Nat /\ q <= k - 1 /\ k <= Len(c) + 1 /\ Len(c) \in Nat
  BY DEF IsLine
<1>2. 0 \in Good
  BY <1>1
<1>3. ASSUME NEW n \in Nat, n \in Good PROVE n + 1 \in Good
  <2> SUFFICES ASSUME q + (n + 1) <= k - 1 PROVE U(q + (n + 1)) = U(q)
    OBVIOUS
  <2> DEFINE j == q + (n + 1)
  <2>1. j \in 1 .. Len(c) + 1 /\ j \in q + 1 .. k - 1 /\ j - 1 = q + n /\ j # Len(c) + 1
        /\ q + n <= k - 1
    BY <1>1
  <2>2. j \notin LineEnds(c)
    BY <2>1 DEF LineEnds, IsLine
  <2>3. U(j) = FoundAt(c, p, j, U(j - 1))
    BY <2>1, LinesRecursion
  <2> HIDE DEF j
  <2>4. U(j) = U(q + n)
    BY <2>1, <2>2, <2>3, Zenon DEF FoundAt
  <2>5. U(q + n) = U(q)
    BY <1>3, <2>1
  <2> HIDE DEF U
  <2> QED
    BY <2>4, <2>5 DEF j
<1>4. k - 1 - q \in Good
  <2>1. k - 1 - q \in Nat
    BY <1>1
  <2> HIDE DEF Good
  <2> QED
    BY <1>2, <1>3, <2>1, AllNat
<1>5. q + (k - 1 - q) = k - 1
  BY <1>1
<1> HIDE DEF U
<1>6. U(q + (k - 1 - q)) = U(q)
  BY <1>1, <1>4
<1> QED
  BY <1>5, <1>6 DEF U

\* and at its end the line, if it has the pattern.
LEMMA NextLine ==
  ASSUME NEW c, c \in Seq(Nat), NEW p, NEW q, NEW k, IsLine(c, q, k), k \in LineEnds(c)
  PROVE  LET l == SubSeq(c, q + 1, k - 1)
             r == LinesUpTo(c, p, q)
         IN  LinesUpTo(c, p, k) = IF HasPattern(l, p) THEN Append(r, l) ELSE r
<1>1. k \in 1 .. Len(c) + 1
  BY DEF LineEnds
<1>2. LinesUpTo(c, p, k) = FoundAt(c, p, k, LinesUpTo(c, p, k - 1))
  BY <1>1, LinesRecursion
<1>3. LineBefore(c, k) = SubSeq(c, q + 1, k - 1)
  BY LineBeforeIs
<1>4. LinesUpTo(c, p, k - 1) = LinesUpTo(c, p, q)
  BY InsideLine
<1> QED
  BY <1>2, <1>3, <1>4, Zenon DEF FoundAt

\* A pattern is no empty string, and not in an empty line.
LEMMA EmptyLine ==
  ASSUME NEW p, p \in Seq(Nat), p # << >>
  PROVE  ~ HasPattern(<< >>, p)
<1>1. Len(p) \in Nat /\ Len(p) # 0 /\ Len(<< >>) = 0
  BY EmptySeq
<1>2. 1 .. 0 - Len(p) + 1 = {}
  BY <1>1
<1> QED
  BY <1>1, <1>2 DEF HasPattern

\* What follows the last newline, if it is nothing, adds nothing.
LEMMA EmptyLastLine ==
  ASSUME NEW c, c \in Seq(Nat), NEW p, p \in Seq(Nat), p # << >>, LineStart(c, Len(c))
  PROVE  LinesUpTo(c, p, Len(c) + 1) = LinesUpTo(c, p, Len(c))
<1> DEFINE n == Len(c)
<1>1. n \in Nat
  OBVIOUS
<1>2. IsLine(c, n, n + 1) /\ n + 1 \in LineEnds(c)
  BY DEF IsLine, LineEnds
<1>3. SubSeq(c, n + 1, (n + 1) - 1) = << >>
  <2>1. (n + 1) - 1 < n + 1 /\ n + 1 \in Int /\ (n + 1) - 1 \in Int
    BY <1>1
  <2> QED
    BY <2>1, SubSeqEmpty
<1> HIDE DEF n
<1>4. ~ HasPattern(<< >>, p)
  BY EmptyLine
<1> DEFINE r == LinesUpTo(c, p, n)
<1>5. LinesUpTo(c, p, n + 1)
      = IF HasPattern(SubSeq(c, n + 1, (n + 1) - 1), p)
        THEN Append(r, SubSeq(c, n + 1, (n + 1) - 1)) ELSE r
  BY <1>2, NextLine
<1>6. LinesUpTo(c, p, n + 1) = r
  BY <1>3, <1>4, <1>5, Zenon
<1> QED
  BY <1>6 DEF n

\* A line that fits the buffer fits it as far as it has been read.
LEMMA ShortLine ==
  ASSUME NEW c, Searchable(c), NEW q, NEW k, IsLine(c, q, k)
  PROVE  k - 1 - q < BUFSIZE
<1> DEFINE T == {j \in Nat : k + j \in LineEnds(c)}
<1>1. /\ c \in Seq(Nat) /\ Len(c) \in Nat /\ q \in Nat /\ k \in Nat /\ q < k /\ k <= Len(c) + 1
  BY DEF Searchable, IsLine
<1>2. Len(c) + 1 - k \in T /\ T \subseteq Nat
  BY <1>1 DEF LineEnds
<1>3. PICK j \in T : \A i \in T : ~ (i < j)
  BY <1>2, LeastNat
<1> DEFINE e == k + j
<1>4. e \in Nat /\ e >= k /\ e <= Len(c) + 1 /\ e \in LineEnds(c)
  BY <1>1, <1>3 DEF LineEnds
<1>5. IsLine(c, q, e)
  <2>1. ASSUME NEW i \in q + 1 .. e - 1 PROVE c[i] # NL
    <3>1. CASE i < k
      BY <1>1, <2>1, <3>1 DEF IsLine
    <3>2. CASE i >= k
      <4>1. i - k \in Nat /\ i - k < j /\ k + (i - k) = i /\ i \in 1 .. Len(c) + 1
        BY <1>1, <1>4, <2>1, <3>2
      <4>2. i \notin LineEnds(c)
        BY <1>3, <4>1
      <4> QED
        BY <4>1, <4>2 DEF LineEnds
    <3> QED
      BY <1>1, <1>4, <3>1, <3>2
  <2> QED
    BY <1>1, <1>4, <2>1 DEF IsLine
<1>6. LineBefore(c, e) = SubSeq(c, q + 1, e - 1)
  BY <1>1, <1>5, LineBeforeIs
<1>7. Len(SubSeq(c, q + 1, e - 1)) >= e - 1 - q
  <2>1. \A i \in q + 1 .. e - 1 : c[i] \in Nat
    BY <1>1, <1>4
  <2>2. q + 1 \in Int /\ e - 1 \in Int
    BY <1>1, <1>4
  <2> HIDE DEF e
  <2>3. Len(SubSeq(c, q + 1, e - 1)) = IF q + 1 <= e - 1 THEN (e - 1) - (q + 1) + 1 ELSE 0
    BY <2>1, <2>2, SubSeqProperties
  <2> QED
    BY <1>1, <1>4, <2>3
<1>8. Len(LineBefore(c, e)) < BUFSIZE
  BY <1>4 DEF Searchable
<1> HIDE DEF e
<1>9. Len(SubSeq(c, q + 1, e - 1)) \in Int
  <2>1. \A i \in q + 1 .. e - 1 : c[i] \in Nat
    BY <1>1, <1>4
  <2>2. q + 1 \in Int /\ e - 1 \in Int
    BY <1>1, <1>4
  <2>3. SubSeq(c, q + 1, e - 1) \in Seq(Nat)
    BY <2>1, <2>2, SubSeqProperties
  <2> QED
    BY <2>3
<1> QED
  BY <1>1, <1>4, <1>6, <1>7, <1>8, <1>9, ProgramsAssumption

-----------------------------------------------------------------------------
(* grep: strings in its buffer *)

\* A string is as long as it has bytes before its NUL.
LEMMA BytesAsString ==
  ASSUME NEW m, DOMAIN m \subseteq Nat, NEW s \in Nat, NEW n \in Nat,
         s + n \in DOMAIN m, m[s + n] = 0, \A k \in 0 .. n - 1 : m[s + k] # 0
  PROVE  strlen(m, s) = n
<1> DEFINE L == {k - s : k \in DOMAIN m}
           Is(j) == j >= 0 /\ m[s + j] = 0 /\ \A k \in 0 .. j - 1 : m[s + k] # 0
<1>1. n \in L /\ Is(n)
  <2>1. (s + n) - s = n /\ n >= 0
    OBVIOUS
  <2> QED
    BY <2>1
<1>2. strlen(m, s) \in L /\ Is(strlen(m, s))
  <2>1. strlen(m, s) = CHOOSE j \in L : Is(j)
    BY DEF strlen
  <2> HIDE DEF Is, L
  <2> QED
    BY <1>1, <2>1
<1> DEFINE l == strlen(m, s)
<1>3. l \in Nat /\ Is(l)
  <2> HIDE DEF l
  <2>1. L \subseteq Int
    OBVIOUS
  <2> QED
    BY <1>2, <2>1 DEF l
<1> HIDE DEF l
<1>4. l = n
  <2>1. ~ (l < n)
    <3>1. l < n => l \in 0 .. n - 1
      BY <1>3
    <3> QED
      BY <1>3, <3>1
  <2>2. ~ (n < l)
    <3>1. n < l => n \in 0 .. l - 1
      BY <1>3
    <3> QED
      BY <1>3, <3>1
  <2> QED
    BY <1>3, <2>1, <2>2
<1> QED
  BY <1>4 DEF l

\* The pattern behind the buffer is a string.
LEMMA PatternBehind ==
  ASSUME NEW p \in Patterns, NEW d, HasBehind(d, p)
  PROVE  /\ strlen(d, Search) = Len(p) /\ puts(d, Search) = p
         /\ p \in Seq(Nat) /\ p # << >> /\ Len(p) \in Nat /\ Len(p) # 0
         /\ \A k \in 0 .. Len(p) - 1 : d[Search + k] = p[k + 1] /\ p[k + 1] \in Nat \ {0, NL}
<1>1. /\ p \in Seq(Nat \ {0, NL}) /\ p # << >> /\ BUFSIZE \in Nat
  BY ProgramsAssumption
<1>2. Len(p) \in Nat /\ Len(p) # 0 /\ p \in Seq(Nat)
  BY <1>1
<1> DEFINE n == Len(p)
<1>3. Search + n \in DOMAIN d /\ d[Search + n] = 0 /\ DOMAIN d \subseteq Nat /\ Search \in Nat
  BY <1>1, <1>2 DEF HasBehind, Search
<1>4. ASSUME NEW k \in 0 .. n - 1
      PROVE  d[Search + k] = p[k + 1] /\ p[k + 1] \in Nat \ {0, NL}
  <2>1. k + 1 \in 1 .. n /\ Search + k = BUFSIZE + (k + 1)
    BY <1>1, <1>2 DEF Search
  <2> QED
    BY <1>1, <2>1 DEF HasBehind
<1> DEFINE got1 == [k \in 1 .. n |-> d[Search + k - 1]]
<1>5. \A k \in 0 .. n - 1 : d[Search + k] # 0
  BY <1>4
<1> HIDE DEF n
<1>6. strlen(d, Search) = n /\ puts(d, Search) = got1
  <2>1. n \in Nat
    BY <1>2 DEF n
  <2>2. strlen(d, Search) = n
    BY <1>3, <1>5, <2>1, BytesAsString
  <2> QED
    BY <2>2 DEF puts
<1>7. got1 = p
  <2>1. \A k \in 1 .. n : d[Search + k - 1] = p[k]
    <3> TAKE k \in 1 .. n
    <3>1. Search + k - 1 = BUFSIZE + k
      BY <1>1, <1>2 DEF Search, n
    <3> QED
      BY <3>1 DEF HasBehind, n
  <2>2. p = [k \in 1 .. n |-> p[k]]
    BY <1>1 DEF n
  <2> QED
    BY <2>1, <2>2
<1> QED
  BY <1>1, <1>2, <1>4, <1>6, <1>7, Zenon DEF n

\* The line l is in the buffer, with a NUL behind it.
InBuffer(d, from, e, l) ==
  /\ from \in Nat /\ e \in from .. BUFSIZE /\ d[e] = 0
  /\ l \in Seq(Nat) /\ Len(l) = e - from
  /\ \A k \in 1 .. Len(l) : d[from + k - 1] = l[k] /\ l[k] # 0

\* A comparison of the pattern with the line finds no difference where it is.
LEMMA ComparedWith ==
  ASSUME NEW p \in Patterns, NEW d, HasBehind(d, p), NEW from, NEW e, NEW l,
         InBuffer(d, from, e, l), NEW check \in from .. e - 1
  PROVE  ece391_strncmp(d, check, Search, strlen(d, Search)) = 0
            <=> /\ check + Len(p) <= e
                /\ \A i \in 0 .. Len(p) - 1 : l[check - from + 1 + i] = p[i + 1]
<1> DEFINE n == Len(p)
           S == Stops(d, check, Search, n)
           Same == check + n <= e /\ \A i \in 0 .. n - 1 : l[check - from + 1 + i] = p[i + 1]
<1>1. /\ strlen(d, Search) = n /\ n \in Nat /\ n # 0
      /\ \A k \in 0 .. n - 1 : d[Search + k] = p[k + 1] /\ p[k + 1] \in Nat \ {0, NL}
  BY PatternBehind
<1>2. /\ from \in Nat /\ e \in Nat /\ check \in Nat /\ from <= check /\ check < e
      /\ e <= BUFSIZE /\ BUFSIZE \in Nat /\ Len(l) = e - from /\ d[e] = 0 /\ l \in Seq(Nat)
  BY ProgramsAssumption DEF InBuffer
<1>3. /\ DOMAIN d = 0 .. BUFSIZE + 1 + n /\ Search = BUFSIZE + 1
  BY DEF HasBehind, Search
<1> HIDE DEF n
<1>4. ASSUME NEW i \in Nat, check + i < e
      PROVE  /\ d[check + i] = l[check - from + 1 + i] /\ d[check + i] # 0
             /\ d[check + i] \in Nat
  <2> DEFINE k == check - from + 1 + i
  <2>1. k \in 1 .. Len(l) /\ from + k - 1 = check + i
    BY <1>2, <1>4
  <2>2. l[k] \in Nat
    BY <1>2, <2>1
  <2> HIDE DEF k
  <2>3. d[from + k - 1] = l[k] /\ l[k] # 0
    BY <2>1 DEF InBuffer
  <2> QED
    BY <2>1, <2>2, <2>3 DEF k
<1>5. ASSUME NEW i \in 0 .. n - 1, check + i <= e
      PROVE  i \in S <=> check + i = e \/ l[check - from + 1 + i] # p[i + 1]
  <2>1. {check + i, Search + i} \subseteq DOMAIN d /\ d[Search + i] = p[i + 1] /\ i \in Nat
    BY <1>1, <1>2, <1>3, <1>5
  <2>2. i \in S <=> d[check + i] # p[i + 1] \/ d[check + i] = 0
    BY <2>1 DEF Stops
  <2>3. CASE check + i = e
    BY <1>2, <2>2, <2>3
  <2>4. CASE check + i < e
    BY <1>4, <2>1, <2>2, <2>4, <1>2
  <2> QED
    BY <1>2, <1>5, <2>1, <2>3, <2>4
<1>6. S \subseteq 0 .. n - 1
  BY DEF Stops
<1>7. ASSUME Same PROVE S = {}
  <2> SUFFICES ASSUME NEW i \in S PROVE FALSE
    OBVIOUS
  <2>1. i \in 0 .. n - 1 /\ check + i <= e /\ check + i # e
    BY <1>1, <1>2, <1>6, <1>7
  <2>2. l[check - from + 1 + i] = p[i + 1]
    BY <1>7, <2>1
  <2> HIDE DEF S, Same
  <2> QED
    BY <1>5, <2>1, <2>2
<1>8. ASSUME S = {} PROVE Same
  <2>1. check + n <= e
    <3> SUFFICES ASSUME e < check + n PROVE FALSE
      BY <1>1, <1>2
    <3>1. e - check \in 0 .. n - 1 /\ check + (e - check) = e
      BY <1>1, <1>2
    <3> QED
      BY <1>2, <1>5, <1>8, <3>1
  <2>2. ASSUME NEW i \in 0 .. n - 1 PROVE l[check - from + 1 + i] = p[i + 1]
    <3>1. check + i <= e
      BY <1>1, <1>2, <2>1
    <3> QED
      BY <1>5, <1>8, <3>1
  <2> QED
    BY <2>1, <2>2
<1> DEFINE first == Least(S)
<1>9. ASSUME S # {} PROVE d[check + first] - d[Search + first] # 0
  <2>1. S \subseteq Nat /\ first = CHOOSE i \in S : \A j \in S : i <= j
    BY <1>1, <1>6 DEF Least
  <2>2. \E i \in S : \A j \in S : i <= j
    <3>1. PICK i \in S : \A j \in S : ~ (j < i)
      BY <1>9, <2>1, LeastNat
    <3> HIDE DEF S
    <3> QED
      BY <2>1, <3>1
  <2>3. first \in S /\ \A j \in S : first <= j
    <3> HIDE DEF S
    <3> QED
      BY <2>1, <2>2
  <2> HIDE DEF first
  <2>4. first \in 0 .. n - 1 /\ first \in Nat
    BY <1>6, <2>1, <2>3
  <2>5. check + first <= e
    <3> SUFFICES ASSUME e < check + first PROVE FALSE
      BY <1>2, <2>4
    <3>1. e - check \in 0 .. n - 1 /\ check + (e - check) = e
      BY <1>1, <1>2, <2>4
    <3>2. e - check \in S
      BY <1>2, <1>5, <3>1
    <3> HIDE DEF S
    <3> QED
      BY <1>2, <2>3, <2>4, <3>2
  <2>6. d[Search + first] = p[first + 1] /\ p[first + 1] \in Nat \ {0, NL}
    BY <1>1, <2>4
  <2>7. CASE check + first = e
    BY <1>2, <2>6, <2>7
  <2>8. CASE check + first < e
    <3>1. d[check + first] = l[check - from + 1 + first] /\ d[check + first] \in Nat
      BY <1>4, <2>4, <2>8
    <3>2. l[check - from + 1 + first] # p[first + 1]
      BY <1>2, <1>5, <2>3, <2>4, <2>5, <2>8
    <3> QED
      BY <2>6, <3>1, <3>2
  <2> QED
    BY <1>2, <2>4, <2>5, <2>7, <2>8
<1>10. ece391_strncmp(d, check, Search, n)
       = IF S = {} THEN 0 ELSE d[check + first] - d[Search + first]
  <2> HIDE DEF S
  <2>1. ece391_strncmp(d, check, Search, n)
        = IF n = 0 \/ S = {} THEN 0 ELSE d[check + first] - d[Search + first]
    BY DEF ece391_strncmp, S
  <2> QED
    BY <1>1, <2>1
<1> HIDE DEF S, first
<1>11. ece391_strncmp(d, check, Search, n) = 0 <=> S = {}
  BY <1>9, <1>10
<1>12. ece391_strncmp(d, check, Search, n) = 0 <=> Same
  BY <1>7, <1>8, <1>11
<1> QED
  BY <1>1, <1>12 DEF n

\* grep shows the line if the pattern is in it.
LEMMA MatchesIs ==
  ASSUME NEW p \in Patterns, NEW d, HasBehind(d, p), NEW from, NEW e, NEW l,
         InBuffer(d, from, e, l)
  PROVE  /\ Matches(d, from, e) <=> HasPattern(l, p)
         /\ puts(d, from) = l
<1> DEFINE n == Len(p)
<1>1. /\ n \in Nat /\ n # 0 /\ p \in Seq(Nat)
      /\ \A k \in 0 .. n - 1 : d[Search + k] = p[k + 1] /\ p[k + 1] \in Nat \ {0, NL}
  BY PatternBehind
<1>2. /\ from \in Nat /\ e \in Nat /\ from <= e /\ e <= BUFSIZE /\ BUFSIZE \in Nat
      /\ Len(l) = e - from /\ d[e] = 0 /\ l \in Seq(Nat)
      /\ DOMAIN d = 0 .. BUFSIZE + 1 + n
  BY ProgramsAssumption DEF InBuffer, HasBehind
<1> HIDE DEF n
<1>3. ASSUME NEW k \in 1 .. Len(l) - n + 1
      PROVE  SubSeq(l, k, k + n - 1) = p <=> \A i \in 0 .. n - 1 : l[k + i] = p[i + 1]
  <2> DEFINE s == SubSeq(l, k, k + n - 1)
  <2>1. s = [j \in 1 .. n |-> l[k + j - 1]]
    <3>1. (k + n - 1) - k + 1 = n /\ k \in Int /\ k + n - 1 \in Int
      BY <1>1, <1>2
    <3>2. SubSeq(l, k, k + n - 1) = [j \in 1 .. (k + n - 1) - k + 1 |-> l[k + j - 1]]
      BY <1>2, <3>1
    <3> QED
      BY <3>1, <3>2
  <2>2. p = [j \in 1 .. n |-> p[j]]
    BY <1>1 DEF n
  <2> HIDE DEF s
  <2>3. ASSUME s = p, NEW i \in 0 .. n - 1 PROVE l[k + i] = p[i + 1]
    <3>1. i + 1 \in 1 .. n /\ k + (i + 1) - 1 = k + i
      BY <1>1, <1>2
    <3>2. s[i + 1] = l[k + (i + 1) - 1]
      BY <2>1, <3>1
    <3> QED
      BY <2>3, <3>1, <3>2
  <2>4. ASSUME \A i \in 0 .. n - 1 : l[k + i] = p[i + 1] PROVE s = p
    <3>1. \A j \in 1 .. n : l[k + j - 1] = p[j]
      <4> TAKE j \in 1 .. n
      <4>1. j - 1 \in 0 .. n - 1 /\ k + (j - 1) = k + j - 1 /\ (j - 1) + 1 = j
        BY <1>1, <1>2
      <4> QED
        BY <2>4, <4>1
    <3> QED
      BY <2>1, <2>2, <3>1
  <2> QED
    BY <2>3, <2>4 DEF s
<1>4. ASSUME Matches(d, from, e) PROVE HasPattern(l, p)
  <2>1. PICK check \in from .. e - 1 :
           ece391_strncmp(d, check, Search, strlen(d, Search)) = 0
    BY <1>4 DEF Matches
  <2>2. /\ check + n <= e
        /\ \A i \in 0 .. n - 1 : l[check - from + 1 + i] = p[i + 1]
    BY <2>1, ComparedWith DEF n
  <2>3. check - from + 1 \in 1 .. Len(l) - n + 1
    BY <1>1, <1>2, <2>2
  <2>4. SubSeq(l, check - from + 1, check - from + 1 + n - 1) = p
    BY <1>3, <2>2, <2>3
  <2> QED
    BY <2>3, <2>4 DEF HasPattern, n
<1>5. ASSUME HasPattern(l, p) PROVE Matches(d, from, e)
  <2>1. PICK k \in 1 .. Len(l) - n + 1 : SubSeq(l, k, k + n - 1) = p
    BY <1>5 DEF HasPattern, n
  <2> DEFINE check == from + k - 1
  <2>2. check \in from .. e - 1 /\ check - from + 1 = k /\ check + n <= e
    BY <1>1, <1>2
  <2> HIDE DEF check
  <2>3. \A i \in 0 .. n - 1 : l[k + i] = p[i + 1]
    BY <1>3, <2>1
  <2>4. ece391_strncmp(d, check, Search, strlen(d, Search)) = 0
    BY <2>2, <2>3, ComparedWith DEF n
  <2>5. d[check] = d[Search]
    <3>1. 0 \in 0 .. n - 1 /\ Search + 0 = Search /\ k + 0 = k /\ k \in 1 .. Len(l)
      BY <1>1, <1>2 DEF Search
    <3>2. d[Search] = p[0 + 1] /\ l[k] = p[0 + 1]
      BY <1>1, <2>3, <3>1
    <3>3. d[from + k - 1] = l[k]
      BY <3>1 DEF InBuffer
    <3> QED
      BY <3>2, <3>3 DEF check
  <2> QED
    BY <2>2, <2>4, <2>5 DEF Matches
<1>6. puts(d, from) = l
  <2> DEFINE len == e - from
  <2>1. /\ len \in Nat /\ from + len = e /\ len = Len(l)
        /\ e \in DOMAIN d /\ DOMAIN d \subseteq Nat
    BY <1>1, <1>2
  <2> HIDE DEF len
  <2>2. \A k \in 0 .. len - 1 : d[from + k] # 0
    <3> TAKE k \in 0 .. len - 1
    <3>1. k + 1 \in 1 .. Len(l) /\ from + (k + 1) - 1 = from + k
      BY <1>2, <2>1
    <3>2. d[from + (k + 1) - 1] = l[k + 1] /\ l[k + 1] # 0
      BY <3>1 DEF InBuffer
    <3> QED
      BY <3>1, <3>2
  <2>3. puts(d, from) = [k \in 1 .. len |-> d[from + k - 1]]
    <3>1. strlen(d, from) = len
      BY <1>2, <2>1, <2>2, BytesAsString
    <3> QED
      BY <3>1 DEF puts
  <2>4. \A k \in 1 .. len : d[from + k - 1] = l[k]
    BY <2>1 DEF InBuffer
  <2>5. l = [k \in 1 .. len |-> l[k]]
    BY <1>2, <2>1
  <2> QED
    BY <2>3, <2>4, <2>5
<1> QED
  BY <1>4, <1>5, <1>6

-----------------------------------------------------------------------------
(* grep: a line is moved to the front of the buffer *)

IsMap(m) == m = [k \in DOMAIN m |-> m[k]]

\* The first n bytes are those from s on.
AtFront(m, s, n) == [k \in DOMAIN m |-> IF k \in 0 .. n - 1 THEN m[s + k] ELSE m[k]]

\* Bytes copied to the front one after the other are what they were before.
LEMMA FrontMoves ==
  ASSUME NEW m, NEW s \in Nat, NEW n \in Nat,
         IsMap(m), \A k \in 0 .. s + n - 1 : k \in DOMAIN m
  PROVE  Forward(m, 0, s, n) = AtFront(m, s, n)
<1> USE DEF IsMap
<1> DEFINE Moved(i) == [k \in DOMAIN m |-> IF k \in 0 .. i - 1 THEN m[s + k] ELSE m[k]]
           Next1(b, i) == [b EXCEPT ![0 + i - 1] = b[s + i - 1]]
           Eq(f) == f = [i \in 0 .. n |-> IF i = 0 THEN m ELSE Next1(f[i - 1], i)]
           f0 == CHOOSE f : Eq(f)
           M0 == [i \in 0 .. n |-> Moved(i)]
<1>1. ASSUME NEW i \in 1 .. n PROVE Next1(Moved(i - 1), i) = Moved(i)
  <2> DEFINE b == Moved(i - 1)
             left(k) == IF k = 0 + i - 1 THEN b[s + i - 1] ELSE b[k]
             right(k) == IF k \in 0 .. i - 1 THEN m[s + k] ELSE m[k]
  <2>1. DOMAIN b = DOMAIN m /\ i - 1 \in DOMAIN m /\ s + i - 1 \in DOMAIN m
    OBVIOUS
  <2>2. b[s + i - 1] = m[s + i - 1]
    <3>1. s + i - 1 \notin 0 .. (i - 1) - 1
      OBVIOUS
    <3> QED
      BY <2>1, <3>1
  <2>3. Next1(b, i) = [k \in DOMAIN m |-> left(k)]
    <3> HIDE DEF b
    <3> QED
      BY <2>1 DEF left
  <2>4. ASSUME NEW k \in DOMAIN m PROVE left(k) = right(k)
    <3>1. CASE k = i - 1
      <4>1. k \in 0 .. i - 1 /\ s + i - 1 = s + k /\ 0 + i - 1 = k
        BY <3>1
      <4> HIDE DEF b
      <4> QED
        BY <2>2, <3>1, <4>1
    <3>2. CASE k # i - 1
      <4>1. k \in 0 .. i - 1 <=> k \in 0 .. (i - 1) - 1
        BY <3>2
      <4>2. left(k) = b[k]
        <5> HIDE DEF b
        <5>1. k # 0 + i - 1
          BY <3>2
        <5> QED
          BY <5>1
      <4>3. b[k] = IF k \in 0 .. (i - 1) - 1 THEN m[s + k] ELSE m[k]
        OBVIOUS
      <4> HIDE DEF b, left
      <4> QED
        BY <4>1, <4>2, <4>3
    <3> QED
      BY <3>1, <3>2
  <2> HIDE DEF left, right
  <2>5. [k \in DOMAIN m |-> left(k)] = [k \in DOMAIN m |-> right(k)]
    BY <2>4
  <2> QED
    BY <2>3, <2>5 DEF right
<1>2. Moved(0) = m
  <2>1. \A k \in DOMAIN m : k \notin 0 .. 0 - 1
    OBVIOUS
  <2> QED
    BY <2>1
<1>3. Eq(M0)
  <2>1. \A i \in 0 .. n : i # 0 => i \in 1 .. n /\ M0[i - 1] = Moved(i - 1)
    OBVIOUS
  <2>2. \A i \in 0 .. n : M0[i] = IF i = 0 THEN m ELSE Next1(M0[i - 1], i)
    <3> HIDE DEF Next1, Moved
    <3> QED
      BY <1>1, <1>2, <2>1
  <2> HIDE DEF Next1, Moved
  <2> QED
    BY <2>2
<1>4. Eq(f0)
  <2> HIDE DEF Eq, M0
  <2> QED
    BY <1>3
<1> HIDE DEF f0
<1>5. \A i \in 0 .. n : f0[i] = IF i = 0 THEN m ELSE Next1(f0[i - 1], i)
  BY <1>4
<1> DEFINE Good == {i \in Nat : i \in 0 .. n => f0[i] = Moved(i)}
<1> HIDE DEF Next1, Moved
<1>6. 0 \in Good
  BY <1>2, <1>5
<1>7. ASSUME NEW i \in Nat, i \in Good PROVE i + 1 \in Good
  <2> SUFFICES ASSUME i + 1 \in 0 .. n PROVE f0[i + 1] = Moved(i + 1)
    OBVIOUS
  <2>1. i \in 0 .. n /\ i + 1 \in 1 .. n /\ (i + 1) - 1 = i /\ i + 1 # 0
    OBVIOUS
  <2> QED
    BY <1>1, <1>5, <1>7, <2>1
<1>8. f0[n] = Moved(n)
  <2> HIDE DEF Good
  <2>1. n \in Good
    BY <1>6, <1>7, AllNat
  <2> QED
    BY <2>1 DEF Good
<1>9. Forward(m, 0, s, n) = f0[n]
  BY DEF Forward, f0, Next1
<1> QED
  BY <1>8, <1>9 DEF Moved, AtFront

\* r is d with the bytes from s to e in front.
InFront(r, d, s, e, top) ==
  /\ IsMap(r) /\ DOMAIN r = 0 .. top
  /\ \A k \in 0 .. e - s : r[k] = d[s + k]
  /\ \A k \in e - s + 1 .. top : r[k] = d[k]

\* The carried line is in front, and everything else is where it was.
LEMMA Carried ==
  ASSUME NEW d, IsMap(d), NEW top \in Nat, DOMAIN d = 0 .. top,
         BUFSIZE <= top, NEW s, NEW e, NEW l, InBuffer(d, s, e, l)
  PROVE  InFront(ece391_strcpy(d, 0, s), d, s, e, top)
<1> DEFINE n == e - s
<1>1. /\ s \in Nat /\ e \in Nat /\ s <= e /\ e <= BUFSIZE /\ BUFSIZE \in Nat /\ d[e] = 0
      /\ Len(l) = e - s /\ l \in Seq(Nat) /\ n \in Nat /\ s + n = e
  BY ProgramsAssumption DEF InBuffer
<1>2. strlen(d, s) = n
  <2> HIDE DEF n
  <2>1. \A k \in 0 .. n - 1 : d[s + k] # 0
    <3> TAKE k \in 0 .. n - 1
    <3>1. k + 1 \in 1 .. Len(l) /\ s + (k + 1) - 1 = s + k
      BY <1>1 DEF n
    <3>2. d[s + (k + 1) - 1] = l[k + 1] /\ l[k + 1] # 0
      BY <3>1 DEF InBuffer
    <3> QED
      BY <3>1, <3>2
  <2>2. s + n \in DOMAIN d /\ d[s + n] = 0 /\ DOMAIN d \subseteq Nat
    BY <1>1
  <2> QED
    BY <1>1, <2>1, <2>2, BytesAsString
<1> HIDE DEF n
<1>3. n + 1 \in Nat /\ \A k \in 0 .. s + (n + 1) - 1 : k \in DOMAIN d
  BY <1>1
<1>4. Forward(d, 0, s, n + 1) = AtFront(d, s, n + 1)
  BY <1>1, <1>3, FrontMoves
<1> DEFINE r == Forward(d, 0, s, n + 1)
<1>5. /\ DOMAIN r = 0 .. top /\ IsMap(r)
      /\ \A k \in 0 .. top : r[k] = IF k \in 0 .. n THEN d[s + k] ELSE d[k]
  <2>1. (n + 1) - 1 = n
    BY <1>1
  <2>2. IsMap(AtFront(d, s, n + 1))
    BY DEF IsMap, AtFront
  <2> QED
    BY <1>4, <2>1, <2>2 DEF AtFront
<1> HIDE DEF r
<1>6. \A k \in 0 .. n : k \in 0 .. top
  BY <1>1
<1>7. \A k \in n + 1 .. top : k \in 0 .. top /\ k \notin 0 .. n
  BY <1>1
<1>8. ece391_strcpy(d, 0, s) = r
  BY <1>2 DEF ece391_strcpy, r
<1> QED
  BY <1>5, <1>6, <1>7, <1>8 DEF n, InFront

-----------------------------------------------------------------------------
(* grep: the search of a buffer *)

\* What the search of a buffer needs: the buffer begins o bytes into the text,
\* and reaches its end if the last read was short or returned nothing.
SearchCtx(c, p, pre, o, to, cnt) ==
  /\ p \in Patterns /\ Searchable(c) /\ pre \in Texts
  /\ o \in Nat /\ to \in 0 .. BUFSIZE /\ o + to <= Len(c)
  /\ cnt = 0 \/ to < BUFSIZE => o + to = Len(c)

\* The lines from s on have not been searched.
Waiting(c, p, pre, o, to, d, s, shown) ==
  /\ HasBehind(d, p) /\ IsMap(d) /\ shown \in Texts
  /\ s \in 0 .. to
  /\ \A j \in s .. to - 1 : d[j] = c[o + j + 1]
  /\ \A j \in 0 .. BUFSIZE : j \notin s .. to - 1 => d[j] # NL
  /\ \/ LineStart(c, o + s) /\ pre \o shown = LinesUpTo(c, p, o + s)
     \/ to = 0 /\ o = Len(c) /\ pre \o shown = LinesUpTo(c, p, Len(c) + 1)

\* All lines that end in the buffer have been searched, and l bytes are carried.
Over(c, p, pre, o, to, cnt, d, l, shown) ==
  /\ HasBehind(d, p) /\ IsMap(d) /\ shown \in Texts
  /\ l \in 0 .. BUFSIZE /\ NoNewline(d) /\ (cnt = 0 => l = 0)
  /\ Progress(c, p, d, l, pre \o shown, o + to)

\* The bytes of a line, its end, and the buffer with a NUL there.
TheLine(c, o, s, e) == SubSeq(c, o + s + 1, o + e)
Ended(d, e) == [d EXCEPT ![e] = 0]
ShownWith(d, s, e, shown) == IF Matches(d, s, e) THEN Append(shown, puts(d, s)) ELSE shown

\* What is appended at the end is appended to the whole.
LEMMA AppendBehind ==
  ASSUME NEW a \in Texts, NEW b \in Texts, NEW x \in Seq(Nat)
  PROVE  a \o Append(b, x) = Append(a \o b, x)
<1> DEFINE S == Seq(Nat)
<1>1. a \in Seq(S) /\ b \in Seq(S) /\ x \in S
  BY DEF Texts
<1> HIDE DEF S
<1> QED
  BY <1>1

\* The first line that waits, in the buffer.
LEMMA WaitingLine ==
  ASSUME NEW c, NEW p, NEW pre, NEW o, NEW to, NEW cnt, SearchCtx(c, p, pre, o, to, cnt),
         NEW d, NEW s, NEW shown, Waiting(c, p, pre, o, to, d, s, shown),
         NEW e, e = LineEnd(d, s, to)
  PROVE  /\ e \in s .. to /\ (e = to \/ d[e] = NL)
         /\ \A j \in s .. e - 1 : d[j] # NL
         /\ DOMAIN Ended(d, e) = DOMAIN d /\ IsMap(Ended(d, e)) /\ HasBehind(Ended(d, e), p)
         /\ Ended(d, e)[e] = 0 /\ \A k \in DOMAIN d : k # e => Ended(d, e)[k] = d[k]
         /\ InBuffer(Ended(d, e), s, e, TheLine(c, o, s, e))
         /\ LineStart(c, o + s) => IsLine(c, o + s, o + e + 1)
<1>1. /\ c \in Seq(Nat) /\ 0 \notin Range(c) /\ o \in Nat /\ to \in Nat /\ to <= BUFSIZE
      /\ BUFSIZE \in Nat /\ o + to <= Len(c) /\ Len(c) \in Nat /\ p \in Seq(Nat)
      /\ Len(p) \in Nat
  <2>1. p \in Seq(Nat \ {0, NL}) /\ BUFSIZE \in Nat
    BY ProgramsAssumption DEF SearchCtx
  <2> QED
    BY <2>1 DEF SearchCtx, Searchable
<1>2. s \in Nat /\ s <= to /\ HasBehind(d, p) /\ IsMap(d)
  BY <1>1 DEF Waiting
<1>3. e \in s .. to /\ (e = to \/ d[e] = NL) /\ \A j \in s .. e - 1 : d[j] # NL
  BY <1>1, <1>2, LineEndIs
<1>4. /\ e \in Nat /\ s \in Nat /\ to \in Nat /\ o \in Nat /\ BUFSIZE \in Nat
      /\ Len(c) \in Nat /\ Len(p) \in Nat
      /\ s <= e /\ e <= to /\ to <= BUFSIZE /\ o + to <= Len(c)
  BY <1>1, <1>2, <1>3
<1>5. DOMAIN d = 0 .. BUFSIZE + 1 + Len(p) /\ e \in DOMAIN d
  BY <1>1, <1>2, <1>4 DEF HasBehind
<1> DEFINE dd == Ended(d, e)
<1>6. /\ DOMAIN dd = DOMAIN d /\ IsMap(dd)
      /\ dd[e] = 0 /\ \A k \in DOMAIN d : k # e => dd[k] = d[k]
  BY <1>5 DEF Ended, IsMap
<1> HIDE DEF dd
<1>7. HasBehind(dd, p)
  <2>1. \A k \in 1 .. Len(p) : BUFSIZE + k \in DOMAIN d /\ BUFSIZE + k # e
    BY <1>1, <1>4, <1>5
  <2>2. BUFSIZE + 1 + Len(p) \in DOMAIN d /\ BUFSIZE + 1 + Len(p) # e
    BY <1>1, <1>4, <1>5
  <2> QED
    BY <1>2, <1>6, <2>1, <2>2 DEF HasBehind
<1> DEFINE l == TheLine(c, o, s, e)
<1>8. /\ l \in Seq(Nat) /\ Len(l) = e - s
      /\ \A k \in 1 .. Len(l) : l[k] = c[o + s + k]
  <2> DEFINE a == o + s + 1
             b == o + e
  <2>1. a \in Nat /\ b \in Nat /\ a >= 1 /\ b <= Len(c) /\ b - a + 1 = e - s /\ e - s \in Nat
    BY <1>4
  <2>2. \A k \in 1 .. e - s : a + k - 1 = o + s + k
    BY <1>4
  <2> HIDE DEF a, b, l
  <2>3. l = SubSeq(c, a, b)
    BY DEF l, TheLine, a, b
  <2>4. \A i \in a .. b : c[i] \in Nat
    BY <1>1, <2>1
  <2>5. l \in Seq(Nat)
    BY <2>1, <2>3, <2>4, SubSeqProperties
  <2>6. l = [k \in 1 .. b - a + 1 |-> c[a + k - 1]]
    BY <1>1, <2>1, <2>3
  <2>7. l = [k \in 1 .. e - s |-> c[a + k - 1]]
    BY <2>1, <2>6
  <2>8. Len(l) = e - s
    BY <2>1, <2>7
  <2> QED
    BY <2>2, <2>5, <2>7, <2>8
<1> HIDE DEF l
<1>9. InBuffer(dd, s, e, l)
  <2>1. ASSUME NEW k \in 1 .. Len(l) PROVE dd[s + k - 1] = l[k] /\ l[k] # 0
    <3> DEFINE j == s + k - 1
    <3>1. k \in Nat /\ k >= 1 /\ k <= e - s
      BY <1>4, <1>8
    <3>2. /\ j \in s .. to - 1 /\ j # e /\ j \in 0 .. BUFSIZE + 1 + Len(p)
          /\ o + j + 1 = o + s + k /\ o + s + k \in 1 .. Len(c)
      BY <1>4, <3>1
    <3> HIDE DEF j
    <3>3. dd[j] = c[o + j + 1]
      BY <1>5, <1>6, <3>2 DEF Waiting
    <3>4. c[o + s + k] # 0
      <4> DEFINE x == o + s + k
      <4>1. x \in DOMAIN c
        BY <1>1, <3>2
      <4> HIDE DEF x
      <4>2. c[x] \in Range(c)
        BY <4>1 DEF Range
      <4> QED
        BY <1>1, <4>2 DEF x
    <3> QED
      BY <1>8, <3>2, <3>3, <3>4 DEF j
  <2>2. e \in s .. BUFSIZE
    BY <1>1, <1>4
  <2> QED
    BY <1>2, <1>6, <1>8, <2>1, <2>2 DEF InBuffer
<1>10. ASSUME LineStart(c, o + s) PROVE IsLine(c, o + s, o + e + 1)
  <2>1. o + s \in 0 .. Len(c) /\ o + e + 1 \in o + s + 1 .. Len(c) + 1
    BY <1>1, <1>2, <1>4
  <2>2. ASSUME NEW j \in o + s + 1 .. o + e + 1 - 1 PROVE c[j] # NL
    <3> DEFINE i == j - o - 1
    <3>1. i \in s .. e - 1 /\ i \in s .. to - 1 /\ o + i + 1 = j
      BY <1>1, <1>2, <1>4
    <3> HIDE DEF i
    <3>2. d[i] = c[j]
      BY <3>1 DEF Waiting
    <3> QED
      BY <1>3, <3>1, <3>2
  <2> DEFINE q == o + s
             z == o + e + 1
  <2> HIDE DEF q, z
  <2>3. IsLine(c, q, z)
    <3>1. LineStart(c, q) /\ q \in 0 .. Len(c) /\ z \in q + 1 .. Len(c) + 1
      BY <1>10, <2>1 DEF q, z
    <3>2. \A j \in q + 1 .. z - 1 : c[j] # NL
      <4>1. z - 1 = o + e + 1 - 1 /\ q + 1 = o + s + 1
        BY <1>4 DEF q, z
      <4> QED
        BY <2>2, <4>1
    <3> QED
      BY <3>1, <3>2 DEF IsLine
  <2> QED
    BY <2>3 DEF q, z
<1> QED
  BY <1>3, <1>6, <1>7, <1>9, <1>10 DEF dd, l

\* It is shown if the pattern is in it.
LEMMA ShownLine ==
  ASSUME NEW c, NEW p, NEW pre, NEW o, NEW to, NEW cnt, SearchCtx(c, p, pre, o, to, cnt),
         NEW d, NEW s, NEW e, InBuffer(d, s, e, TheLine(c, o, s, e)), HasBehind(d, p),
         NEW shown \in Texts
  PROVE  /\ ShownWith(d, s, e, shown) \in Texts
         /\ pre \o ShownWith(d, s, e, shown)
            = IF HasPattern(TheLine(c, o, s, e), p)
              THEN Append(pre \o shown, TheLine(c, o, s, e)) ELSE pre \o shown
<1> DEFINE l == TheLine(c, o, s, e)
<1>1. p \in Patterns /\ pre \in Texts /\ l \in Seq(Nat) /\ InBuffer(d, s, e, l)
  BY DEF SearchCtx, InBuffer
<1> HIDE DEF l
<1>2. (Matches(d, s, e) <=> HasPattern(l, p)) /\ puts(d, s) = l
  BY <1>1, MatchesIs
<1>3. ShownWith(d, s, e, shown) = IF HasPattern(l, p) THEN Append(shown, l) ELSE shown
  BY <1>2, Zenon DEF ShownWith
<1>4. Append(shown, l) \in Texts
  BY <1>1, AppendProperties DEF Texts
<1>5. pre \o Append(shown, l) = Append(pre \o shown, l)
  BY <1>1, AppendBehind
<1> QED
  BY <1>3, <1>4, <1>5, Zenon DEF l

\* A line whose end has been read is searched,
LEMMA EndedLine ==
  ASSUME NEW c, NEW p, NEW pre, NEW o, NEW to, NEW cnt, SearchCtx(c, p, pre, o, to, cnt),
         NEW d, NEW s, NEW shown, Waiting(c, p, pre, o, to, d, s, shown),
         NEW e, e = LineEnd(d, s, to), d[e] = NL
  PROVE  LET dd == Ended(d, e)
             new == ShownWith(dd, s, e, shown)
         IN  /\ e + 1 >= to => Over(c, p, pre, o, to, cnt, dd, 0, new)
             /\ e + 1 < to => Waiting(c, p, pre, o, to, dd, e + 1, new)
<1> DEFINE dd == Ended(d, e)
           new == ShownWith(dd, s, e, shown)
           l == TheLine(c, o, s, e)
           k == o + e + 1
<1>1. /\ e \in s .. to /\ (\A j \in s .. e - 1 : d[j] # NL)
      /\ DOMAIN dd = DOMAIN d /\ IsMap(dd) /\ HasBehind(dd, p)
      /\ dd[e] = 0 /\ (\A i \in DOMAIN d : i # e => dd[i] = d[i])
      /\ InBuffer(dd, s, e, l)
      /\ LineStart(c, o + s) => IsLine(c, o + s, k)
  BY WaitingLine
<1>2. /\ c \in Seq(Nat) /\ o \in Nat /\ to \in Nat /\ to <= BUFSIZE /\ BUFSIZE \in Nat
      /\ o + to <= Len(c) /\ Len(c) \in Nat /\ shown \in Texts /\ s \in Nat /\ s <= to
  BY ProgramsAssumption DEF SearchCtx, Searchable, Waiting
<1>3. \A j \in 0 .. BUFSIZE : j \in DOMAIN d
  <2>1. p \in Seq(Nat \ {0, NL})
    BY ProgramsAssumption DEF SearchCtx
  <2> QED
    BY <1>2, <2>1 DEF Waiting, HasBehind
<1> HIDE DEF dd, l
<1>4. e \in Nat /\ s <= e /\ e < to
  <2>1. e # to
    <3>1. to \in 0 .. BUFSIZE /\ to \notin s .. to - 1
      BY <1>2
    <3>2. d[to] # NL
      BY <3>1 DEF Waiting
    <3> QED
      BY <3>2
  <2> QED
    BY <1>1, <1>2, <2>1
<1>5. c[k] = NL /\ k \in 1 .. Len(c) /\ k \in LineEnds(c)
  <2>1. e \in s .. to - 1 /\ k \in 1 .. Len(c)
    BY <1>2, <1>4
  <2>2. d[e] = c[o + e + 1]
    BY <2>1 DEF Waiting
  <2> QED
    BY <1>2, <2>1, <2>2 DEF LineEnds
<1>6. LineStart(c, o + s) /\ pre \o shown = LinesUpTo(c, p, o + s)
  BY <1>4 DEF Waiting
<1> DEFINE r == LinesUpTo(c, p, o + s)
<1>7. LinesUpTo(c, p, k) = IF HasPattern(l, p) THEN Append(r, l) ELSE r
  <2>1. IsLine(c, o + s, k)
    BY <1>1, <1>6
  <2>2. SubSeq(c, o + s + 1, k - 1) = l
    <3>1. k - 1 = o + e
      BY <1>2, <1>4
    <3> QED
      BY <3>1 DEF l, TheLine
  <2> HIDE DEF k
  <2>3. LinesUpTo(c, p, k) = IF HasPattern(SubSeq(c, o + s + 1, k - 1), p)
                             THEN Append(r, SubSeq(c, o + s + 1, k - 1)) ELSE r
    BY <1>2, <1>5, <2>1, NextLine
  <2> QED
    BY <2>2, <2>3, Zenon
<1>8. new \in Texts /\ pre \o new = LinesUpTo(c, p, k)
  <2>1. InBuffer(dd, s, e, TheLine(c, o, s, e)) /\ HasBehind(dd, p) /\ shown \in Texts
    BY <1>1, <1>2 DEF l
  <2>2. /\ new \in Texts
        /\ pre \o new = IF HasPattern(TheLine(c, o, s, e), p)
                        THEN Append(pre \o shown, TheLine(c, o, s, e)) ELSE pre \o shown
    BY <2>1, ShownLine
  <2> QED
    BY <1>6, <1>7, <2>2, Zenon DEF l
<1>9. ASSUME NEW j \in 0 .. BUFSIZE, j \notin e + 1 .. to - 1 PROVE dd[j] # NL
  <2>1. CASE j = e
    BY <1>1, <2>1 DEF NL
  <2>2. CASE j # e /\ j \in s .. e - 1
    BY <1>1, <1>3, <2>2
  <2>3. CASE j # e /\ j \notin s .. e - 1
    <3>1. j \notin s .. to - 1
      BY <1>2, <1>4, <1>9, <2>3
    <3>2. d[j] # NL
      BY <3>1 DEF Waiting
    <3> QED
      BY <1>1, <1>3, <2>3, <3>2
  <2> QED
    BY <2>1, <2>2, <2>3
<1> HIDE DEF new, r
<1>10. ASSUME e + 1 >= to PROVE Over(c, p, pre, o, to, cnt, dd, 0, new)
  <2>1. NoNewline(dd)
    <3>1. e + 1 .. to - 1 = {}
      BY <1>2, <1>4, <1>10
    <3> QED
      BY <1>9, <3>1 DEF NoNewline
  <2>2. k = o + to /\ 0 <= o + to /\ o + to - 0 = k
    BY <1>2, <1>4, <1>10
  <2> HIDE DEF k
  <2>3. LineStart(c, o + to - 0) /\ pre \o new = LinesUpTo(c, p, o + to - 0)
    BY <1>5, <1>8, <2>2 DEF LineStart
  <2>4. Progress(c, p, dd, 0, pre \o new, o + to)
    <3>1. 0 .. 0 - 1 = {}
      OBVIOUS
    <3> QED
      BY <2>2, <2>3, <3>1 DEF Progress
  <2>5. 0 \in 0 .. BUFSIZE
    BY <1>2
  <2> QED
    BY <1>1, <1>8, <2>1, <2>4, <2>5 DEF Over
<1>11. ASSUME e + 1 < to PROVE Waiting(c, p, pre, o, to, dd, e + 1, new)
  <2>1. e + 1 \in 0 .. to
    BY <1>2, <1>4, <1>11
  <2>2. o + (e + 1) = k
    BY <1>2, <1>4
  <2>3. ASSUME NEW j \in e + 1 .. to - 1 PROVE dd[j] = c[o + j + 1]
    <3>1. j \in s .. to - 1 /\ j # e /\ j \in 0 .. BUFSIZE
      BY <1>2, <1>4
    <3>2. dd[j] = d[j]
      BY <1>1, <1>3, <3>1
    <3> QED
      BY <3>1, <3>2 DEF Waiting
  <2> HIDE DEF k
  <2>4. LineStart(c, o + (e + 1)) /\ pre \o new = LinesUpTo(c, p, o + (e + 1))
    BY <1>5, <1>8, <2>2 DEF LineStart
  <2> QED
    BY <1>1, <1>8, <1>9, <2>1, <2>3, <2>4 DEF Waiting
<1> QED
  BY <1>10, <1>11 DEF dd, new

\* the beginning of a line is moved to the front if more will be read,
LEMMA CarriedLine ==
  ASSUME NEW c, NEW p, NEW pre, NEW o, NEW to, NEW cnt, SearchCtx(c, p, pre, o, to, cnt),
         NEW d, NEW s, NEW shown, Waiting(c, p, pre, o, to, d, s, shown),
         NEW e, e = LineEnd(d, s, to), d[e] # NL, cnt # 0, s # 0
  PROVE  /\ e = to
         /\ Over(c, p, pre, o, to, cnt, ece391_strcpy(Ended(d, e), 0, s), to - s, shown)
<1> DEFINE dd == Ended(d, e)
           l == TheLine(c, o, s, e)
           r == ece391_strcpy(dd, 0, s)
           top == BUFSIZE + 1 + Len(p)
<1>1. /\ e = to /\ (\A j \in s .. e - 1 : d[j] # NL)
      /\ DOMAIN dd = DOMAIN d /\ IsMap(dd) /\ HasBehind(dd, p)
      /\ dd[e] = 0 /\ (\A i \in DOMAIN d : i # e => dd[i] = d[i])
      /\ InBuffer(dd, s, e, l)
  BY WaitingLine
<1>2. /\ o \in Nat /\ to \in Nat /\ to <= BUFSIZE /\ BUFSIZE \in Nat
      /\ shown \in Texts /\ s \in Nat /\ s <= to /\ s # 0 /\ e = to /\ Len(p) \in Nat
      /\ top \in Nat /\ BUFSIZE <= top
  <2>1. p \in Seq(Nat \ {0, NL})
    BY ProgramsAssumption DEF SearchCtx
  <2> QED
    BY <1>1, <2>1, ProgramsAssumption DEF SearchCtx, Waiting
<1>3. DOMAIN d = 0 .. top
  BY DEF Waiting, HasBehind
<1> HIDE DEF dd, l, top
<1>4. /\ IsMap(r) /\ DOMAIN r = 0 .. top
      /\ \A k \in 0 .. e - s : r[k] = dd[s + k]
      /\ \A k \in e - s + 1 .. top : r[k] = dd[k]
  <2>1. DOMAIN dd = 0 .. top
    BY <1>1, <1>3
  <2>2. InFront(r, dd, s, e, top)
    BY <1>1, <1>2, <2>1, Carried
  <2> QED
    BY <2>2 DEF InFront
<1> HIDE DEF r
<1>5. HasBehind(r, p)
  <2>1. ASSUME NEW k \in BUFSIZE + 1 .. top PROVE r[k] = dd[k]
    <3>1. k \in e - s + 1 .. top
      BY <1>2
    <3> QED
      BY <1>4, <3>1
  <2>2. \A k \in 1 .. Len(p) : BUFSIZE + k \in BUFSIZE + 1 .. top
    BY <1>2 DEF top
  <2>3. BUFSIZE + 1 + Len(p) \in BUFSIZE + 1 .. top
    BY <1>2 DEF top
  <2> QED
    BY <1>1, <1>4, <2>1, <2>2, <2>3 DEF HasBehind, top
<1>6. NoNewline(r)
  <2> SUFFICES ASSUME NEW k \in 0 .. BUFSIZE PROVE r[k] # NL
    BY DEF NoNewline
  <2>1. CASE k \in 0 .. e - s
    <3>1. r[k] = dd[s + k]
      BY <1>4, <2>1
    <3>2. CASE s + k = e
      BY <1>1, <3>1, <3>2 DEF NL
    <3>3. CASE s + k # e
      <4>1. s + k \in s .. e - 1 /\ s + k \in 0 .. top
        BY <1>2, <2>1, <3>3
      <4>2. dd[s + k] = d[s + k] /\ d[s + k] # NL
        BY <1>1, <1>3, <3>3, <4>1
      <4> QED
        BY <3>1, <4>2
    <3> QED
      BY <3>2, <3>3
  <2>2. CASE k \notin 0 .. e - s
    <3>1. k \in e - s + 1 .. top /\ k \in 0 .. top
      BY <1>2, <2>2
    <3>2. r[k] = dd[k]
      BY <1>4, <3>1
    <3>3. CASE k = e
      BY <1>1, <3>2, <3>3 DEF NL
    <3>4. CASE k # e
      <4>1. dd[k] = d[k]
        BY <1>1, <1>3, <3>1, <3>4
      <4>2. CASE k \in s .. e - 1
        BY <1>1, <3>2, <4>1, <4>2
      <4>3. CASE k \notin s .. e - 1
        <5>1. d[k] # NL
          BY <1>1, <4>3 DEF Waiting
        <5> QED
          BY <3>2, <4>1, <5>1
      <4> QED
        BY <4>2, <4>3
    <3> QED
      BY <3>3, <3>4
  <2> QED
    BY <2>1, <2>2
<1>7. Progress(c, p, r, to - s, pre \o shown, o + to)
  <2>1. LineStart(c, o + s) /\ pre \o shown = LinesUpTo(c, p, o + s)
    BY <1>2 DEF Waiting
  <2>2. o + to - (to - s) = o + s /\ to - s <= o + to
    BY <1>2
  <2>3. ASSUME NEW k \in 0 .. to - s - 1 PROVE r[k] = c[o + s + k + 1]
    <3>1. /\ k \in 0 .. e - s /\ s + k \in s .. to - 1 /\ s + k # e /\ s + k \in 0 .. top
          /\ o + (s + k) + 1 = o + s + k + 1
      BY <1>2
    <3>2. r[k] = d[s + k]
      BY <1>1, <1>3, <1>4, <3>1
    <3>3. d[s + k] = c[o + (s + k) + 1]
      BY <3>1 DEF Waiting
    <3> QED
      BY <3>1, <3>2, <3>3
  <2> DEFINE n == o + to
             w == to - s
             q == o + s
  <2> HIDE DEF n, w, q
  <2>4. w <= n /\ n - w = q /\ LineStart(c, q) /\ pre \o shown = LinesUpTo(c, p, q)
    BY <1>2, <2>1, <2>2 DEF n, w, q
  <2>5. \A k \in 0 .. w - 1 : r[k] = c[q + k + 1]
    BY <2>3 DEF w, q
  <2>6. Progress(c, p, r, w, pre \o shown, n)
    BY <2>4, <2>5 DEF Progress
  <2> QED
    BY <2>6 DEF n, w
<1>8. to - s \in 0 .. BUFSIZE
  BY <1>2
<1> QED
  BY <1>1, <1>2, <1>4, <1>5, <1>6, <1>7, <1>8 DEF Over, r, dd

\* and what is behind the last newline of the text is searched as well.
LEMMA LastLine ==
  ASSUME NEW c, NEW p, NEW pre, NEW o, NEW to, NEW cnt, SearchCtx(c, p, pre, o, to, cnt),
         NEW d, NEW s, NEW shown, Waiting(c, p, pre, o, to, d, s, shown),
         NEW e, e = LineEnd(d, s, to), d[e] # NL, cnt = 0 \/ s = 0
  PROVE  /\ e = to
         /\ Over(c, p, pre, o, to, cnt, Ended(d, e), 0, ShownWith(Ended(d, e), s, e, shown))
<1> DEFINE dd == Ended(d, e)
           l == TheLine(c, o, s, e)
           new == ShownWith(dd, s, e, shown)
<1>1. /\ e = to /\ (\A j \in s .. e - 1 : d[j] # NL)
      /\ DOMAIN dd = DOMAIN d /\ IsMap(dd) /\ HasBehind(dd, p)
      /\ dd[e] = 0 /\ (\A i \in DOMAIN d : i # e => dd[i] = d[i])
      /\ InBuffer(dd, s, e, l)
      /\ LineStart(c, o + s) => IsLine(c, o + s, o + e + 1)
  BY WaitingLine
<1>2. /\ o \in Nat /\ to \in Nat /\ to <= BUFSIZE /\ BUFSIZE \in Nat
      /\ shown \in Texts /\ s \in Nat /\ s <= to /\ e = to /\ o + to <= Len(c)
      /\ Len(c) \in Nat
  BY <1>1, ProgramsAssumption DEF SearchCtx, Waiting, Searchable
<1>3. c \in Seq(Nat) /\ Searchable(c) /\ p \in Patterns
  BY DEF SearchCtx, Searchable
<1>4. \A j \in 0 .. BUFSIZE : j \in DOMAIN d
  <2>1. p \in Seq(Nat \ {0, NL})
    BY <1>3, ProgramsAssumption
  <2> QED
    BY <1>2, <2>1 DEF Waiting, HasBehind
<1> HIDE DEF dd, l, new
<1>5. o + to = Len(c)
  <2>1. CASE cnt = 0 \/ to < BUFSIZE
    BY <2>1 DEF SearchCtx
  <2>2. CASE ~ (cnt = 0 \/ to < BUFSIZE)
    <3>1. s = 0 /\ to = BUFSIZE /\ to # 0
      BY <1>2, <2>2, ProgramsAssumption
    <3>2. LineStart(c, o + s)
      BY <3>1 DEF Waiting
    <3>3. o + e + 1 - 1 - (o + s) < BUFSIZE
      <4> DEFINE q == o + s
                 k == o + e + 1
      <4>1. IsLine(c, q, k)
        BY <1>1, <3>2
      <4> HIDE DEF q, k
      <4>2. k - 1 - q < BUFSIZE
        BY <1>3, <4>1, ShortLine
      <4> QED
        BY <1>2, <4>2 DEF q, k
    <3> QED
      BY <1>2, <3>1, <3>3
  <2> QED
    BY <2>1, <2>2
<1>6. NoNewline(dd)
  <2> SUFFICES ASSUME NEW k \in 0 .. BUFSIZE PROVE dd[k] # NL
    BY DEF NoNewline
  <2>1. CASE k = e
    BY <1>1, <2>1 DEF NL
  <2>2. CASE k # e /\ k \in s .. e - 1
    BY <1>1, <1>4, <2>2
  <2>3. CASE k # e /\ k \notin s .. e - 1
    <3>1. d[k] # NL
      BY <1>1, <2>3 DEF Waiting
    <3> QED
      BY <1>1, <1>4, <2>3, <3>1
  <2> QED
    BY <2>1, <2>2, <2>3
<1>7. new \in Texts /\ pre \o new = LinesUpTo(c, p, Len(c) + 1)
  <2>1. /\ new \in Texts
        /\ pre \o new = IF HasPattern(TheLine(c, o, s, e), p)
                        THEN Append(pre \o shown, TheLine(c, o, s, e)) ELSE pre \o shown
    <3>1. InBuffer(dd, s, e, TheLine(c, o, s, e)) /\ HasBehind(dd, p) /\ shown \in Texts
      BY <1>1, <1>2 DEF l
    <3> QED
      BY <3>1, ShownLine DEF new
  <2>2. CASE LineStart(c, o + s) /\ pre \o shown = LinesUpTo(c, p, o + s)
    <3> DEFINE q == o + s
               k == o + e + 1
               r == LinesUpTo(c, p, q)
    <3>1. IsLine(c, q, k) /\ k = Len(c) + 1 /\ k \in LineEnds(c)
      BY <1>1, <1>2, <1>5, <2>2 DEF LineEnds
    <3>2. SubSeq(c, q + 1, k - 1) = l
      <4>1. k - 1 = o + e
        BY <1>2
      <4> QED
        BY <4>1 DEF l, TheLine
    <3> HIDE DEF q, k
    <3>3. LinesUpTo(c, p, k) = IF HasPattern(SubSeq(c, q + 1, k - 1), p)
                               THEN Append(r, SubSeq(c, q + 1, k - 1)) ELSE r
      BY <1>3, <3>1, NextLine
    <3>4. pre \o shown = r
      BY <2>2 DEF q
    <3>5. pre \o new = IF HasPattern(l, p) THEN Append(pre \o shown, l) ELSE pre \o shown
      BY <2>1 DEF l
    <3> HIDE DEF r
    <3> QED
      BY <2>1, <3>1, <3>2, <3>3, <3>4, <3>5, Zenon
  <2>3. CASE to = 0 /\ o = Len(c) /\ pre \o shown = LinesUpTo(c, p, Len(c) + 1)
    <3>1. s .. e - 1 = {}
      BY <1>2, <2>3
    <3>2. ~ Matches(dd, s, e)
      BY <3>1 DEF Matches
    <3>3. new = shown
      BY <3>2, Zenon DEF new, ShownWith
    <3> QED
      BY <2>1, <2>3, <3>3
  <2> QED
    BY <2>2, <2>3 DEF Waiting
<1>8. Progress(c, p, dd, 0, pre \o new, o + to)
  BY <1>5, <1>7 DEF Progress
<1>9. 0 \in 0 .. BUFSIZE
  BY <1>2
<1> QED
  BY <1>1, <1>6, <1>7, <1>8, <1>9 DEF Over, dd, new

\* The state of the search after k rounds: each has taken at least a byte.
SearchedTo(c, p, pre, o, to, cnt, st, k) ==
  /\ DOMAIN st = {"data", "start", "last", "done", "shown"}
  /\ IF st.done THEN Over(c, p, pre, o, to, cnt, st.data, st.last, st.shown)
     ELSE st.last = to /\ st.start >= k /\ Waiting(c, p, pre, o, to, st.data, st.start, st.shown)

\* A round searches a line more, or ends the search.
LEMMA SearchLineFinds ==
  ASSUME NEW c, NEW p, NEW pre, NEW o, NEW to, NEW cnt, SearchCtx(c, p, pre, o, to, cnt),
         NEW k \in Nat, NEW st, SearchedTo(c, p, pre, o, to, cnt, st, k), ~ st.done
  PROVE  SearchedTo(c, p, pre, o, to, cnt, SearchLine(st, cnt), k + 1)
<1> DEFINE d == st.data
           s == st.start
           shown == st.shown
           e == LineEnd(d, s, to)
           dd == Ended(d, e)
           new == ShownWith(dd, s, e, shown)
           carried == ece391_strcpy(dd, 0, s)
<1>1. /\ DOMAIN st = {"data", "start", "last", "done", "shown"}
      /\ st.last = to /\ s >= k /\ Waiting(c, p, pre, o, to, d, s, shown)
  BY Zenon DEF SearchedTo
<1>2. to \in Nat /\ s \in Nat /\ e \in s .. to
  <2>1. to \in Nat /\ s \in Nat
    BY <1>1, ProgramsAssumption DEF SearchCtx, Waiting
  <2> QED
    BY <1>1, <2>1, WaitingLine
<1>3. CASE d[e] # NL /\ cnt # 0 /\ s # 0
  <2> DEFINE after == [st EXCEPT !.data = carried, !.last = @ - st.start, !.done = TRUE]
  <2>1. SearchLine(st, cnt) = after
    BY <1>1, <1>3, Zenon DEF SearchLine, Ended
  <2>2. Over(c, p, pre, o, to, cnt, carried, to - s, shown)
    <3> HIDE DEF d, s, shown
    <3> QED
      BY <1>1, <1>3, CarriedLine
  <2> HIDE DEF carried
  <2>3. /\ DOMAIN after = DOMAIN st /\ after.data = carried /\ after.last = st.last - st.start
        /\ after.shown = st.shown /\ after.done = TRUE
    BY <1>1
  <2> HIDE DEF after
  <2> QED
    BY <1>1, <2>1, <2>2, <2>3 DEF SearchedTo
<1>4. CASE ~ (d[e] # NL /\ cnt # 0 /\ s # 0)
  <2> DEFINE over == e + 1 >= to
             rest == IF over THEN 0 ELSE to
             after == [data |-> dd, start |-> e + 1, done |-> over, last |-> rest,
                       shown |-> new]
  <2>1. SearchLine(st, cnt) = after
    BY <1>1, <1>4, Zenon DEF SearchLine, Ended, ShownWith
  <2>2. over => Over(c, p, pre, o, to, cnt, dd, 0, new)
    <3> HIDE DEF d, s, shown
    <3>1. CASE d[e] = NL
      BY <1>1, <3>1, EndedLine
    <3>2. CASE d[e] # NL
      BY <1>1, <1>4, <3>2, LastLine
    <3> QED
      BY <3>1, <3>2
  <2>3. ~ over => Waiting(c, p, pre, o, to, dd, e + 1, new)
    <3> SUFFICES ASSUME ~ over PROVE Waiting(c, p, pre, o, to, dd, e + 1, new)
      OBVIOUS
    <3> HIDE DEF d, s, shown
    <3>1. e + 1 < to /\ e # to
      <4> HIDE DEF e
      <4> QED
        BY <1>2
    <3>2. CASE d[e] = NL
      BY <1>1, <3>1, <3>2, EndedLine
    <3>3. CASE d[e] # NL
      BY <1>1, <1>4, <3>1, <3>3, LastLine
    <3> QED
      BY <3>2, <3>3
  <2>4. e + 1 >= k + 1
    <3> HIDE DEF e, s
    <3> QED
      BY <1>1, <1>2
  <2> HIDE DEF d, s, shown, e, dd, over, rest, new
  <2>5. /\ DOMAIN after = {"data", "start", "last", "done", "shown"}
        /\ after.last = rest /\ after.start = e + 1 /\ (after.done <=> over)
        /\ after.data = dd /\ after.shown = new
    OBVIOUS
  <2>6. rest = IF over THEN 0 ELSE to
    BY DEF rest
  <2> HIDE DEF after
  <2> QED
    BY <2>1, <2>2, <2>3, <2>4, <2>5, <2>6 DEF SearchedTo
<1> QED
  BY <1>3, <1>4

\* The search of a buffer finds all lines that end in it.
LEMMA SearchBufferFinds ==
  ASSUME NEW c, NEW p, NEW pre, NEW o, NEW to, NEW cnt, SearchCtx(c, p, pre, o, to, cnt),
         NEW d, Waiting(c, p, pre, o, to, d, 0, << >>)
  PROVE  LET r == SearchBuffer(d, to, cnt)
         IN  Over(c, p, pre, o, to, cnt, r.data, r.last, r.shown)
<1> DEFINE m == BUFSIZE + 1
           Inv(st, k) == SearchedTo(c, p, pre, o, to, cnt, st, k)
<1>1. m \in Nat /\ BUFSIZE \in Nat /\ to \in 0 .. BUFSIZE
  BY ProgramsAssumption DEF SearchCtx
<1>2. PICK f : /\ f[0] = FirstRound(d, to)
               /\ \A k \in 1 .. m : f[k] = NextRound(f[k - 1], cnt)
               /\ SearchBuffer(d, to, cnt) = f[m]
  BY SearchRounds
<1> DEFINE Good == {k \in Nat : k \in 0 .. m => Inv(f[k], k)}
<1>3. 0 \in Good
  <2> DEFINE st == FirstRound(d, to)
  <2>1. /\ DOMAIN st = {"data", "start", "last", "done", "shown"}
        /\ st.data = d /\ st.last = to /\ st.start = 0 /\ st.shown = << >> /\ st.done = FALSE
    BY DEF FirstRound
  <2> HIDE DEF st
  <2>2. Inv(st, 0)
    BY <2>1 DEF SearchedTo
  <2> QED
    BY <1>2, <2>2 DEF st
<1>4. ASSUME NEW k \in Nat, k \in Good PROVE k + 1 \in Good
  <2> SUFFICES ASSUME k + 1 \in 0 .. m PROVE Inv(f[k + 1], k + 1)
    OBVIOUS
  <2>1. k \in 0 .. m /\ k + 1 \in 1 .. m /\ (k + 1) - 1 = k
    BY <1>1
  <2>2. f[k + 1] = NextRound(f[k], cnt) /\ Inv(f[k], k)
    BY <1>2, <1>4, <2>1
  <2> DEFINE st == f[k]
  <2> HIDE DEF st
  <2>3. f[k + 1] = NextRound(st, cnt) /\ Inv(st, k)
    BY <2>2 DEF st
  <2>4. CASE st.done
    <3>1. f[k + 1] = st
      BY <2>3, <2>4, Zenon DEF NextRound
    <3> QED
      BY <2>3, <2>4, <3>1 DEF SearchedTo
  <2>5. CASE ~ st.done
    <3>1. f[k + 1] = SearchLine(st, cnt)
      BY <2>3, <2>5, Zenon DEF NextRound
    <3>2. Inv(SearchLine(st, cnt), k + 1)
      BY <2>3, <2>5, SearchLineFinds
    <3> QED
      BY <3>1, <3>2, Zenon
  <2> QED
    BY <2>4, <2>5
<1>5. Inv(f[m], m)
  <2> HIDE DEF Good, m
  <2>1. m \in Good
    BY <1>1, <1>3, <1>4, AllNat
  <2>2. m \in 0 .. m
    BY <1>1
  <2> QED
    BY <2>1, <2>2 DEF Good
<1> DEFINE r == f[m]
<1> HIDE DEF r
<1>6. r.done
  <2> SUFFICES ASSUME ~ r.done PROVE FALSE
    OBVIOUS
  <2>1. r.start >= m /\ r.start \in 0 .. to
    BY <1>5 DEF SearchedTo, Waiting, r
  <2> QED
    BY <1>1, <2>1
<1>7. Over(c, p, pre, o, to, cnt, r.data, r.last, r.shown)
  BY <1>5, <1>6 DEF SearchedTo, r
<1> QED
  BY <1>2, <1>7 DEF r

\* Whatever the bytes are, the pattern stays behind the buffer.
PatternState(st, p) ==
  /\ DOMAIN st = {"data", "start", "last", "done", "shown"}
  /\ HasBehind(st.data, p) /\ IsMap(st.data)
  /\ st.last \in 0 .. BUFSIZE /\ st.start \in Nat
  /\ st.done \/ st.start <= st.last

\* A line that is searched leaves the pattern where it is.
LEMMA PatternKept ==
  ASSUME NEW p \in Patterns, NEW st, PatternState(st, p), ~ st.done, NEW cnt
  PROVE  PatternState(SearchLine(st, cnt), p)
<1> DEFINE d == st.data
           s == st.start
           e == LineEnd(d, s, st.last)
           dd == Ended(d, e)
           new == ShownWith(dd, s, e, st.shown)
           carried == ece391_strcpy(dd, 0, s)
           top == BUFSIZE + 1 + Len(p)
<1>1. /\ BUFSIZE \in Nat /\ st.last \in Nat /\ s \in Nat /\ s <= st.last /\ st.last <= BUFSIZE
      /\ DOMAIN st = {"data", "start", "last", "done", "shown"} /\ HasBehind(d, p) /\ IsMap(d)
      /\ p \in Seq(Nat \ {0, NL}) /\ Len(p) \in Nat /\ top \in Nat /\ DOMAIN d = 0 .. top
  <2>1. BUFSIZE \in Nat /\ p \in Seq(Nat \ {0, NL})
    BY ProgramsAssumption
  <2>2. /\ st.last \in Nat /\ s \in Nat /\ s <= st.last /\ st.last <= BUFSIZE
        /\ DOMAIN st = {"data", "start", "last", "done", "shown"}
        /\ HasBehind(d, p) /\ IsMap(d)
    BY <2>1 DEF PatternState
  <2>3. DOMAIN d = 0 .. top
    BY <2>2 DEF HasBehind
  <2> QED
    BY <2>1, <2>2, <2>3
<1>2. e \in s .. st.last
  BY <1>1, LineEndIs
<1>3. e \in Nat /\ s <= e /\ e <= st.last /\ e <= BUFSIZE /\ e \in DOMAIN d
  <2> HIDE DEF e
  <2> QED
    BY <1>1, <1>2
<1> HIDE DEF d, e
<1>4. /\ DOMAIN dd = 0 .. top /\ IsMap(dd) /\ dd[e] = 0
      /\ \A k \in 0 .. top : k # e => dd[k] = d[k]
  BY <1>1, <1>3 DEF Ended, IsMap
<1> HIDE DEF dd
<1>5. \A k \in BUFSIZE + 1 .. top : dd[k] = d[k]
  BY <1>1, <1>3, <1>4
<1>6. \A x : DOMAIN x = 0 .. top /\ (\A k \in BUFSIZE + 1 .. top : x[k] = d[k]) => HasBehind(x, p)
  <2>1. /\ \A k \in 1 .. Len(p) : BUFSIZE + k \in BUFSIZE + 1 .. top
        /\ BUFSIZE + 1 + Len(p) \in BUFSIZE + 1 .. top
    BY <1>1
  <2> QED
    BY <1>1, <2>1 DEF HasBehind
<1>7. HasBehind(dd, p)
  BY <1>4, <1>5, <1>6
<1>8. HasBehind(carried, p) /\ IsMap(carried)
  <2> DEFINE n == strlen(dd, s)
             L == {k - s : k \in DOMAIN dd}
             Is(j) == j >= 0 /\ dd[s + j] = 0 /\ \A k \in 0 .. j - 1 : dd[s + k] # 0
  <2>1. \E j \in 0 .. e - s : dd[s + j] = 0 /\ \A k \in 0 .. j - 1 : dd[s + k] # 0
    <3> DEFINE T == {j \in 0 .. e - s : dd[s + j] = 0}
    <3>1. e - s \in T /\ T \subseteq Nat
      BY <1>1, <1>3, <1>4
    <3>2. PICK j \in T : \A i \in T : ~ (i < j)
      BY <3>1, LeastNat
    <3>3. \A k \in 0 .. j - 1 : k \in 0 .. e - s /\ k < j
      BY <3>1, <3>2
    <3> QED
      BY <3>2, <3>3
  <2>2. PICK j \in 0 .. e - s : dd[s + j] = 0 /\ \A k \in 0 .. j - 1 : dd[s + k] # 0
    BY <2>1
  <2>3. j \in Nat /\ s + j \in DOMAIN dd /\ DOMAIN dd \subseteq Nat /\ s + j <= e
    BY <1>1, <1>3, <1>4
  <2>4. n = j
    BY <1>1, <2>2, <2>3, BytesAsString
  <2> HIDE DEF n
  <2>5. n + 1 \in Nat /\ \A k \in 0 .. s + (n + 1) - 1 : k \in DOMAIN dd
    BY <1>1, <1>3, <1>4, <2>3, <2>4
  <2>6. Forward(dd, 0, s, n + 1) = AtFront(dd, s, n + 1)
    BY <1>1, <1>4, <2>5, FrontMoves
  <2>7. carried = AtFront(dd, s, n + 1)
    BY <2>6 DEF ece391_strcpy, n
  <2>8. /\ IsMap(carried) /\ DOMAIN carried = 0 .. top
        /\ \A k \in 0 .. top : k \notin 0 .. (n + 1) - 1 => carried[k] = dd[k]
    BY <1>4, <2>7 DEF IsMap, AtFront
  <2>9. \A k \in BUFSIZE + 1 .. top : k \in 0 .. top /\ k \notin 0 .. (n + 1) - 1
    BY <1>1, <1>3, <2>3, <2>4
  <2>10. \A k \in BUFSIZE + 1 .. top : carried[k] = d[k]
    BY <1>5, <2>8, <2>9
  <2> HIDE DEF carried
  <2> QED
    BY <1>6, <2>8, <2>10
<1> HIDE DEF carried, top
<1>9. CASE d[e] # NL /\ cnt # 0 /\ s # 0
  <2> DEFINE after == [st EXCEPT !.data = carried, !.last = @ - st.start, !.done = TRUE]
  <2>1. SearchLine(st, cnt) = after
    BY <1>9, Zenon DEF SearchLine, Ended, carried, d, e, dd
  <2>2. /\ DOMAIN after = DOMAIN st /\ after.data = carried /\ after.last = st.last - st.start
        /\ after.start = st.start /\ after.done = TRUE
    BY <1>1
  <2>3. st.last - st.start \in 0 .. BUFSIZE
    BY <1>1
  <2> HIDE DEF after
  <2> QED
    BY <1>1, <1>8, <2>1, <2>2, <2>3 DEF PatternState
<1>10. CASE ~ (d[e] # NL /\ cnt # 0 /\ s # 0)
  <2> DEFINE over == e + 1 >= st.last
             rest == IF over THEN 0 ELSE st.last
             after == [data |-> dd, start |-> e + 1, done |-> over, last |-> rest,
                       shown |-> new]
  <2>1. SearchLine(st, cnt) = after
    BY <1>10, Zenon DEF SearchLine, Ended, ShownWith, d, e, dd
  <2>2. rest \in 0 .. BUFSIZE /\ e + 1 \in Nat /\ (over \/ e + 1 <= rest)
    BY <1>1, <1>3
  <2> HIDE DEF over, rest, new
  <2>3. /\ DOMAIN after = {"data", "start", "last", "done", "shown"}
        /\ after.last = rest /\ after.start = e + 1 /\ (after.done <=> over) /\ after.data = dd
    OBVIOUS
  <2> HIDE DEF after
  <2> QED
    BY <1>4, <1>7, <2>1, <2>2, <2>3 DEF PatternState
<1> QED
  BY <1>9, <1>10

\* and so it does in the search of a buffer.
LEMMA SearchKeepsPattern ==
  ASSUME NEW p \in Patterns, NEW d, HasBehind(d, p), IsMap(d), NEW to \in 0 .. BUFSIZE, NEW cnt
  PROVE  HasBehind(SearchBuffer(d, to, cnt).data, p)
<1> DEFINE m == BUFSIZE + 1
<1>1. m \in Nat /\ BUFSIZE \in Nat
  BY ProgramsAssumption
<1>2. PICK f : /\ f[0] = FirstRound(d, to)
               /\ \A k \in 1 .. m : f[k] = NextRound(f[k - 1], cnt)
               /\ SearchBuffer(d, to, cnt) = f[m]
  BY SearchRounds
<1> DEFINE Good == {k \in Nat : k \in 0 .. m => PatternState(f[k], p)}
<1>3. 0 \in Good
  <2> DEFINE st == FirstRound(d, to)
  <2>1. /\ DOMAIN st = {"data", "start", "last", "done", "shown"}
        /\ st.data = d /\ st.last = to /\ st.start = 0
    BY DEF FirstRound
  <2>2. 0 <= to /\ 0 \in Nat
    BY <1>1
  <2> HIDE DEF st
  <2>3. PatternState(st, p)
    BY <2>1, <2>2 DEF PatternState
  <2> QED
    BY <1>2, <2>3 DEF st
<1>4. ASSUME NEW k \in Nat, k \in Good PROVE k + 1 \in Good
  <2> SUFFICES ASSUME k + 1 \in 0 .. m PROVE PatternState(f[k + 1], p)
    OBVIOUS
  <2>1. k \in 0 .. m /\ k + 1 \in 1 .. m /\ (k + 1) - 1 = k
    BY <1>1
  <2>2. f[k + 1] = NextRound(f[k], cnt) /\ PatternState(f[k], p)
    BY <1>2, <1>4, <2>1
  <2> QED
    BY <2>2, PatternKept, Zenon DEF NextRound
<1>5. PatternState(f[m], p)
  <2> HIDE DEF Good, m
  <2>1. m \in Good
    BY <1>1, <1>3, <1>4, AllNat
  <2>2. m \in 0 .. m
    BY <1>1
  <2> QED
    BY <2>1, <2>2 DEF Good
<1> QED
  BY <1>2, <1>5 DEF PatternState

-----------------------------------------------------------------------------
(* grep: its invariant *)

\* Where a byte of the last l of n bytes is kept in the buffer.
LEMMA CarriedPlace ==
  ASSUME NEW n \in Nat, NEW l \in Nat, NEW b \in Nat, l <= b,
         NEW j \in (n - l) + 1 .. n + 1 - 1
  PROVE  j - (n - l) - 1 \in 0 .. l - 1 /\ j - (n - l) - 1 \in 0 .. b
         /\ n - l + (j - (n - l) - 1) + 1 = j
OBVIOUS

\* The carried bytes are the beginning of a line, and shorter than the buffer.
LEMMA CarriedShort ==
  ASSUME NEW c, Searchable(c), NEW p, NEW d, NEW l \in 0 .. BUFSIZE, NoNewline(d),
         NEW shown, NEW n \in Nat, n <= Len(c), Progress(c, p, d, l, shown, n)
  PROVE  l < BUFSIZE /\ l <= n /\ shown \in Texts
<1>1. /\ c \in Seq(Nat) /\ Len(c) \in Nat /\ BUFSIZE \in Nat /\ BUFSIZE # 0 /\ l \in Nat
      /\ l <= BUFSIZE
  BY ProgramsAssumption DEF Searchable
<1>2. CASE /\ l <= n /\ LineStart(c, n - l)
           /\ shown = LinesUpTo(c, p, n - l)
           /\ \A k \in 0 .. l - 1 : d[k] = c[n - l + k + 1]
  <2> DEFINE q == n - l
  <2>1. q \in 0 .. Len(c) /\ q \in 0 .. Len(c) + 1 /\ n + 1 \in q + 1 .. Len(c) + 1
    BY <1>1, <1>2
  <2>2. ASSUME NEW j \in q + 1 .. n + 1 - 1 PROVE c[j] # NL
    <3>1. j - q - 1 \in 0 .. l - 1 /\ j - q - 1 \in 0 .. BUFSIZE /\ n - l + (j - q - 1) + 1 = j
      BY <1>1, CarriedPlace
    <3> QED
      BY <1>2, <3>1 DEF NoNewline
  <2> DEFINE k == n + 1
  <2>3. k - 1 - q = l
    BY <1>1, <1>2
  <2> HIDE DEF q
  <2>4. IsLine(c, q, k)
    BY <1>2, <2>1, <2>2 DEF IsLine, q
  <2> HIDE DEF k
  <2>5. k - 1 - q < BUFSIZE
    BY <2>4, ShortLine
  <2>6. shown \in Texts
    BY <1>1, <1>2, <2>1, LinesRecursion DEF q
  <2> QED
    BY <1>2, <2>3, <2>5, <2>6
<1>3. CASE l = 0 /\ n = Len(c) /\ shown = LinesUpTo(c, p, Len(c) + 1)
  <2>1. Len(c) + 1 \in 0 .. Len(c) + 1
    BY <1>1
  <2>2. shown \in Texts
    BY <1>1, <1>3, <2>1, LinesRecursion
  <2> QED
    BY <1>1, <1>3, <2>2
<1> QED
  BY <1>2, <1>3 DEF Progress

\* At the end of the text, when nothing is carried, all its lines have been found.
LEMMA AllFound ==
  ASSUME NEW c, c \in Seq(Nat), NEW p \in Patterns, NEW d, NEW shown,
         Progress(c, p, d, 0, shown, Len(c))
  PROVE  shown = LinesUpTo(c, p, Len(c) + 1)
<1>1. p \in Seq(Nat) /\ p # << >>
  <2>1. p \in Seq(Nat \ {0, NL}) /\ p # << >>
    BY ProgramsAssumption
  <2> QED
    BY <2>1
<1>2. CASE LineStart(c, Len(c) - 0) /\ shown = LinesUpTo(c, p, Len(c) - 0)
  <2>1. Len(c) - 0 = Len(c)
    OBVIOUS
  <2>2. LineStart(c, Len(c)) /\ shown = LinesUpTo(c, p, Len(c))
    BY <1>2, <2>1
  <2> QED
    BY <1>1, <2>2, EmptyLastLine
<1>3. CASE shown = LinesUpTo(c, p, Len(c) + 1)
  BY <1>3
<1> QED
  BY <1>2, <1>3 DEF Progress

\* What a read may make of the buffer: it clears some of the rest or leaves it.
AfterRead(x, d, l, b) == \E z \in SUBSET (l .. BUFSIZE - 1) : x = WithBytes(d, l, b, z)

\* The bytes read leave the pattern behind the buffer alone.
LEMMA PatternStays ==
  ASSUME NEW p \in Patterns, NEW d, HasBehind(d, p), NEW l \in Nat, NEW b \in Seq(Nat),
         l + Len(b) <= BUFSIZE, NEW x, AfterRead(x, d, l, b)
  PROVE  HasBehind(x, p) /\ IsMap(x)
<1> PICK z \in SUBSET (l .. BUFSIZE - 1) : x = WithBytes(d, l, b, z)
  BY DEF AfterRead
<1> DEFINE to == l + Len(b)
           top == BUFSIZE + 1 + Len(p)
<1>1. BUFSIZE \in Nat /\ Len(p) \in Nat /\ l \in Nat /\ to \in Nat /\ to <= BUFSIZE
  <2>1. p \in Seq(Nat \ {0, NL}) /\ Len(b) \in Nat
    BY ProgramsAssumption
  <2> QED
    BY <2>1, ProgramsAssumption
<1>2. DOMAIN x = 0 .. top /\ DOMAIN d = 0 .. top /\ IsMap(x)
  BY DEF HasBehind, WithBytes, IsMap
<1>3. \A k \in 0 .. top : x[k] = IF k \in l .. to - 1 THEN b[k - l + 1]
                               ELSE IF k \in z THEN 0 ELSE d[k]
  BY <1>2 DEF WithBytes
<1> HIDE DEF to
<1>4. \A k \in 1 .. Len(p) : /\ BUFSIZE + k \in 0 .. top
                            /\ BUFSIZE + k \notin l .. to - 1 /\ BUFSIZE + k \notin z
  BY <1>1
<1>5. /\ BUFSIZE + 1 + Len(p) \in 0 .. top
      /\ BUFSIZE + 1 + Len(p) \notin l .. to - 1 /\ BUFSIZE + 1 + Len(p) \notin z
  BY <1>1
<1>6. HasBehind(x, p)
  BY <1>2, <1>3, <1>4, <1>5 DEF HasBehind
<1> QED
  BY <1>2, <1>6

\* The bytes read go on where the carried ones end: what is known of a read.
ReadOn(c, p, d, l, shown, pos, b, x) ==
  /\ Searchable(c) /\ p \in Patterns /\ HasBehind(d, p) /\ NoNewline(d)
  /\ l \in 0 .. BUFSIZE /\ pos \in Nat /\ Progress(c, p, d, l, shown, pos)
  /\ b \in Seq(Nat) /\ Len(b) <= BUFSIZE - l /\ pos + Len(b) <= Len(c)
  /\ \A j \in 1 .. Len(b) : b[j] = c[pos + j]
  /\ Len(b) < BUFSIZE - l => pos + Len(b) = Len(c)
  /\ AfterRead(x, d, l, b)

\* What is known of the result of the search after a read.
ReadOver(c, p, shown, pos, b, r) ==
  /\ NoNewline(r.data) /\ (Len(b) = 0 => r.last = 0)
  /\ Progress(c, p, r.data, r.last, shown \o r.shown, pos + Len(b))
  /\ Len(b) = 0 => pos = Len(c)

\* The bytes read are searched with the carried ones.
LEMMA ReadFinds ==
  ASSUME NEW c, NEW p, NEW d, NEW l, NEW shown, NEW pos, NEW b, NEW x,
         ReadOn(c, p, d, l, shown, pos, b, x)
  PROVE  ReadOver(c, p, shown, pos, b, SearchBuffer(x, l + Len(b), Len(b)))
<1> USE DEF ReadOn
<1>0. PICK z \in SUBSET (l .. BUFSIZE - 1) : x = WithBytes(d, l, b, z)
  BY DEF AfterRead
<1> DEFINE n == Len(b)
           to == l + n
           o == pos - l
           top == BUFSIZE + 1 + Len(p)
<1>1. /\ c \in Seq(Nat) /\ Len(c) \in Nat /\ BUFSIZE \in Nat /\ BUFSIZE # 0 /\ l \in Nat
      /\ l <= BUFSIZE /\ n \in Nat /\ Len(p) \in Nat /\ top \in Nat
  <2>1. p \in Seq(Nat \ {0, NL})
    BY ProgramsAssumption
  <2> QED
    BY <2>1, ProgramsAssumption DEF Searchable
<1>2. l < BUFSIZE /\ l <= pos /\ shown \in Texts
  <2>1. pos <= Len(c)
    BY <1>1
  <2> QED
    BY <2>1, CarriedShort
<1>3. /\ o \in Nat /\ to \in 0 .. BUFSIZE /\ o + to = pos + n /\ o + to <= Len(c)
      /\ pos \in Nat /\ n <= BUFSIZE - l
      /\ n < BUFSIZE - l => pos + n = Len(c)
  <2> HIDE DEF n
  <2>1. n <= BUFSIZE - l /\ pos + n <= Len(c) /\ (n < BUFSIZE - l => pos + n = Len(c))
    BY DEF n
  <2> QED
    BY <1>1, <1>2, <2>1
<1>4. DOMAIN x = 0 .. top /\ DOMAIN d = 0 .. top /\ IsMap(x)
  BY <1>0 DEF HasBehind, WithBytes, IsMap
<1>5. \A k \in 0 .. top : x[k] = IF k \in l .. to - 1 THEN b[k - l + 1]
                               ELSE IF k \in z THEN 0 ELSE d[k]
  BY <1>0, <1>4 DEF WithBytes
<1>6. HasBehind(x, p)
  <2>1. l \in Nat /\ l + Len(b) <= BUFSIZE
    BY <1>1, <1>3
  <2> QED
    BY <2>1, PatternStays
<1> HIDE DEF n, top
<1>7. \A k \in 0 .. BUFSIZE : k \in 0 .. top
  BY <1>1 DEF top
<1>8. ASSUME NEW j \in 0 .. to - 1 PROVE x[j] = c[o + j + 1]
  <2>1. j \in 0 .. BUFSIZE
    BY <1>1, <1>3
  <2>2. CASE j < l
    <3>1. j \notin l .. to - 1 /\ j \in 0 .. l - 1 /\ l # 0 /\ j \notin z
      BY <1>0, <1>1, <2>2
    <3>2. x[j] = d[j]
      BY <1>5, <1>7, <2>1, <3>1
    <3>3. d[j] = c[pos - l + j + 1]
      BY <3>1 DEF Progress
    <3> QED
      BY <3>2, <3>3
  <2>3. CASE ~ (j < l)
    <3>1. j \in l .. to - 1 /\ j - l + 1 \in 1 .. n /\ pos + (j - l + 1) = o + j + 1
      BY <1>1, <1>3, <2>3
    <3>2. x[j] = b[j - l + 1]
      BY <1>5, <1>7, <2>1, <3>1
    <3>3. b[j - l + 1] = c[pos + (j - l + 1)]
      BY <3>1 DEF n
    <3> QED
      BY <3>1, <3>2, <3>3
  <2> QED
    BY <2>2, <2>3
<1>9. ASSUME NEW j \in 0 .. BUFSIZE, j \notin 0 .. to - 1 PROVE x[j] # NL
  <2>1. j \notin l .. to - 1
    BY <1>1, <1>9
  <2>2. x[j] = 0 \/ x[j] = d[j]
    BY <1>5, <1>7, <2>1
  <2>3. 0 # NL
    BY DEF NL
  <2> QED
    BY <2>2, <2>3 DEF NoNewline
<1>10. \/ LineStart(c, o + 0) /\ shown \o << >> = LinesUpTo(c, p, o + 0)
       \/ to = 0 /\ o = Len(c) /\ shown \o << >> = LinesUpTo(c, p, Len(c) + 1)
  <2>1. shown \o << >> = shown /\ o + 0 = pos - l
    <3> DEFINE S == Seq(Nat)
    <3>1. shown \in Seq(S)
      BY <1>2 DEF Texts
    <3> HIDE DEF S
    <3> QED
      BY <1>3, <3>1
  <2>2. CASE LineStart(c, pos - l) /\ shown = LinesUpTo(c, p, pos - l)
    BY <2>1, <2>2
  <2>3. CASE l = 0 /\ pos = Len(c) /\ shown = LinesUpTo(c, p, Len(c) + 1)
    <3>1. to = 0 /\ o = Len(c)
      BY <1>1, <1>3, <2>3
    <3> QED
      BY <2>1, <2>3, <3>1
  <2> QED
    BY <2>2, <2>3 DEF Progress
<1>11. SearchCtx(c, p, shown, o, to, n)
  <2>1. n = 0 \/ to < BUFSIZE => o + to = Len(c)
    <3>1. n = 0 \/ to < BUFSIZE => n < BUFSIZE - l
      BY <1>1, <1>2
    <3> QED
      BY <1>3, <3>1
  <2> QED
    BY <1>2, <1>3, <2>1 DEF SearchCtx
<1>12. n = 0 => pos = Len(c)
  BY <1>1, <1>2, <1>3
<1> HIDE DEF to, o
<1>13. Waiting(c, p, shown, o, to, x, 0, << >>)
  <2>1. << >> \in Texts /\ 0 \in 0 .. to
    BY <1>3 DEF Texts
  <2> QED
    BY <1>4, <1>6, <1>8, <1>9, <1>10, <2>1 DEF Waiting
<1> DEFINE r == SearchBuffer(x, to, n)
<1>14. Over(c, p, shown, o, to, n, r.data, r.last, r.shown)
  BY <1>11, <1>13, SearchBufferFinds
<1> HIDE DEF r
<1>15. /\ NoNewline(r.data) /\ (n = 0 => r.last = 0)
       /\ Progress(c, p, r.data, r.last, shown \o r.shown, pos + n)
  <2>1. o + to = pos + n
    BY <1>3
  <2> QED
    BY <1>14, <2>1 DEF Over
<1> QED
  BY <1>12, <1>15 DEF ReadOver, r, to, n

\* Where the program is not in grep, or has left it, there is nothing to keep.
LEMMA NotInGrep ==
  ASSUME at' \notin GrepPlaces
  PROVE  GrepOK'
BY DEF GrepOK

\* Between two files only the pattern matters.
LEMMA PatternOnly ==
  ASSUME NEW p \in Patterns, HasBehind(data', p), at' \notin {"grep_read", "grep_close"}
  PROVE  GrepOK'
BY DEF GrepOK

\* While a file is searched its descriptor is open.
LEMMA Searching ==
  ASSUME NEW p \in Patterns, HasBehind(data', p), fd' \in opened', SearchedSoFar(p)'
  PROVE  GrepOK'
BY DEF GrepOK, SearchedSoFar

\* The calls that open the directory and read a name keep the pattern, and so
\* does the close.
LEMMA GrepCallFinds ==
  ASSUME GrepOK, grep_open \/ grep_dir \/ grep_close
  PROVE  GrepOK'
<1>1. /\ at \in {"grep", "grep_dir", "grep_close"} /\ data' = data
      /\ at' \notin {"grep_read", "grep_close"}
  BY DEF grep_open, grep_dir, grep_close, search
<1>2. PICK p \in Patterns : HasBehind(data, p)
  BY <1>1 DEF GrepOK, GrepPlaces
<1> QED
  BY <1>1, <1>2, PatternOnly

\* A file is searched from its beginning, with nothing carried.
LEMMA GrepFileFinds ==
  ASSUME SessionInv, GrepOK, grep_file
  PROVE  GrepOK'
<1>1. /\ at = "grep_file" /\ Open(NameToSearch) /\ last' = 0 /\ screen' = << >>
      /\ data' = [k \in DOMAIN data |-> IF k <= BUFSIZE THEN residue' ELSE data[k]]
      /\ fd' = IF ret' = ERROR THEN fd ELSE ret'
      /\ at' = IF ret' = ERROR THEN "failed" ELSE "grep_read"
  BY DEF grep_file
<1>2. PICK p \in Patterns : HasBehind(data, p)
  BY <1>1 DEF GrepOK, GrepPlaces
<1>3. BUFSIZE \in Nat /\ p \in Seq(Nat \ {0, NL}) /\ Len(p) \in Nat
  <2>1. BUFSIZE \in Nat /\ p \in Seq(Nat \ {0, NL})
    BY ProgramsAssumption
  <2> QED
    BY <2>1
<1> DEFINE top == BUFSIZE + 1 + Len(p)
<1>4. DOMAIN data = 0 .. top
  BY <1>2 DEF HasBehind
<1>5. /\ DOMAIN data' = 0 .. top
      /\ \A k \in 0 .. top : data'[k] = IF k <= BUFSIZE THEN residue' ELSE data[k]
  BY <1>1, <1>4
<1> HIDE DEF top
<1>6. HasBehind(data', p)
  <2>1. \A k \in 1 .. Len(p) : BUFSIZE + k \in 0 .. top /\ ~ (BUFSIZE + k <= BUFSIZE)
    BY <1>3 DEF top
  <2>2. BUFSIZE + 1 + Len(p) \in 0 .. top /\ ~ (BUFSIZE + 1 + Len(p) <= BUFSIZE)
    BY <1>3 DEF top
  <2> QED
    BY <1>2, <1>5, <2>1, <2>2 DEF HasBehind, top
<1>7. CASE ~ CanOpen(NameToSearch)
  <2>1. at' = "failed"
    BY <1>1, <1>7, Opened DEF SessionInv
  <2> QED
    BY <2>1, NotInGrep DEF GrepPlaces
<1>8. CASE CanOpen(NameToSearch)
  <2>1. /\ at' = "grep_read" /\ fd' \in opened' /\ file_desc'[fd'].file_pos = 0
    <3>1. ret' # ERROR /\ ret' \in opened' /\ file_desc'[ret'].file_pos = 0
      BY <1>1, <1>8, Opened DEF SessionInv
    <3> QED
      BY <1>1, <3>1
  <2>2. ASSUME NEW c, Searchable(c), residue' # NL
        PROVE  NoNewline(data') /\ Progress(c, p, data', last', screen', 0)
    <3>1. NoNewline(data')
      <4>1. \A k \in 0 .. BUFSIZE : k \in 0 .. top /\ k <= BUFSIZE
        BY <1>3 DEF top
      <4> QED
        BY <1>5, <2>2, <4>1 DEF NoNewline
    <3>2. LinesUpTo(c, p, 0) = << >>
      BY <2>2, LinesRecursion DEF Searchable
    <3>3. Progress(c, p, data', 0, << >>, 0)
      <4>1. 0 - 0 = 0 /\ 0 <= 0 /\ 0 .. 0 - 1 = {}
        OBVIOUS
      <4> QED
        BY <3>2, <4>1 DEF Progress, LineStart
    <3> QED
      BY <1>1, <3>1, <3>3
  <2>3. SearchedSoFar(p)'
    BY <2>1, <2>2 DEF SearchedSoFar
  <2> QED
    BY <1>6, <2>1, <2>3, Searching
<1> QED
  BY <1>7, <1>8

\* A read of the file is searched with what was carried.
LEMMA GrepReadFinds ==
  ASSUME SessionInv, GrepOK, grep_read
  PROVE  GrepOK'
<1> DEFINE bytes == IF ret' > 0 THEN BytesRead ELSE << >>
           filled == WithBytes(data, last, bytes, Cleared)
           r == SearchBuffer(filled, last + Len(bytes), ret')
           n == BUFSIZE - last
<1>1. /\ at = "grep_read" /\ Read(fd, n) /\ fd' = fd /\ residue' = residue
      /\ data' = IF ret' = ERROR THEN data ELSE r.data
      /\ last' = IF ret' = ERROR THEN last ELSE r.last
      /\ screen' = IF ret' = ERROR THEN screen ELSE screen \o r.shown
  BY DEF grep_read
<1>2. /\ ret' = 0 => at' = "grep_close"
      /\ ret' = ERROR => at' = "failed"
      /\ ret' # 0 /\ ret' # ERROR => at' = "grep_read"
  BY DEF grep_read, ERROR
<1>3. PICK p \in Patterns : HasBehind(data, p) /\ fd \in opened /\ SearchedSoFar(p)
  BY <1>1 DEF GrepOK, GrepPlaces, SearchedSoFar
<1>4. /\ PositionsInv /\ running /\ last \in 0 .. BUFSIZE /\ BUFSIZE \in Nat /\ n \in Nat
      /\ last \in Nat
  BY <1>1, ProgramsAssumption DEF SessionInv, SearchOK
<1>5. /\ PositionsInv' /\ opened' = opened /\ fd \in Fds /\ read(fd, n)
  BY <1>1, <1>3, <1>4, ReadCall, OpenedReadable
<1>6. got[fd] \in Seq(Nat)
  BY <1>4, <1>5 DEF PositionsInv, TypeOK
<1>7. CASE ret' = ERROR
  BY <1>2, <1>7, NotInGrep DEF GrepPlaces
<1>8. CASE ret' # ERROR
  <2>1. PICK b \in Seq(Nat) : /\ got'[fd] = got[fd] \o b /\ Len(b) <= n
                              /\ ~ (ret' > 0) => b = << >>
    BY <1>4, <1>5, ReadResult
  <2>2. BytesRead = b
    BY <1>6, <2>1, Appended, Zenon DEF BytesRead
  <2>3. bytes = b
    BY <2>1, <2>2, Zenon
  <2>4. filled = WithBytes(data, last, b, Cleared) /\ AfterRead(filled, data, last, b)
    BY <2>3 DEF Cleared, AfterRead
  <2> HIDE DEF bytes, filled
  <2> DEFINE x == filled
             full == last + Len(b)
  <2>5. r = SearchBuffer(x, full, ret') /\ full \in 0 .. BUFSIZE
    <3>1. Len(b) \in Nat
      BY <2>1
    <3>2. full \in 0 .. BUFSIZE
      BY <1>4, <2>1, <3>1
    <3> QED
      BY <2>3, <2>4, <3>2
  <2>6. HasBehind(x, p) /\ IsMap(x)
    <3>1. last + Len(b) <= BUFSIZE
      BY <2>5
    <3> QED
      BY <1>3, <1>4, <2>1, <2>4, <3>1, PatternStays
  <2> HIDE DEF r
  <2>7. data' = r.data /\ last' = r.last /\ screen' = screen \o r.shown
    BY <1>1, <1>8
  <2>8. HasBehind(data', p)
    <3> HIDE DEF x, full
    <3>1. HasBehind(SearchBuffer(x, full, ret').data, p)
      BY <2>5, <2>6, SearchKeepsPattern
    <3> QED
      BY <2>5, <2>7, <3>1
  <2>9. /\ file_desc'[fd].fops = file_desc[fd].fops /\ file_desc'[fd].inode = file_desc[fd].inode
    BY <1>4, <1>5, ReadResult
  <2> DEFINE c == Content(file_desc[fd].inode)
             pos == file_desc[fd].file_pos
  <2>10. ASSUME file_desc[fd].fops = "file", Sound(file_desc[fd].inode), residue # NL,
                Searchable(c)
         PROVE  /\ NoNewline(data')
                /\ at' = "grep_read" => Progress(c, p, data', last', screen',
                                                 file_desc'[fd].file_pos)
                /\ at' = "grep_close" => screen' = LinesUpTo(c, p, Len(c) + 1)
    <3>1. NoNewline(data) /\ Progress(c, p, data, last, screen, pos)
      BY <1>1, <1>3, <2>10 DEF SearchedSoFar
    <3>2. PICK s \in Seq(Nat) :
             /\ got'[fd] = got[fd] \o s /\ ret' = Len(s)
             /\ file_desc'[fd].file_pos = pos + Len(s)
             /\ Len(s) <= n /\ pos + Len(s) <= Len(c)
             /\ \A j \in 1 .. Len(s) : s[j] = c[pos + j]
             /\ Len(s) < n => pos + Len(s) = Len(c)
      BY <1>3, <1>4, <1>5, <2>10, SoundRead
    <3>3. pos \in Nat /\ c \in Seq(Nat)
      BY <1>3, <1>4, <1>5, <2>10, SoundRead
    <3>4. s = b
      <4>1. BytesRead = s
        BY <1>6, <3>2, Appended, Zenon DEF BytesRead
      <4> QED
        BY <2>2, <4>1
    <3>5. /\ ret' = Len(b) /\ file_desc'[fd].file_pos = pos + Len(b)
          /\ Len(b) <= BUFSIZE - last /\ pos + Len(b) <= Len(c)
          /\ \A j \in 1 .. Len(b) : b[j] = c[pos + j]
          /\ Len(b) < BUFSIZE - last => pos + Len(b) = Len(c)
      BY <3>2, <3>4
    <3> DEFINE f == SearchBuffer(filled, last + Len(b), Len(b))
    <3>6. f = r
      BY <2>5, <3>5
    <3> HIDE DEF c, pos
    <3>7. /\ NoNewline(f.data) /\ (Len(b) = 0 => f.last = 0)
          /\ Progress(c, p, f.data, f.last, screen \o f.shown, pos + Len(b))
          /\ Len(b) = 0 => pos = Len(c)
      <4>1. ReadOn(c, p, data, last, screen, pos, b, filled)
        BY <1>3, <1>4, <2>1, <2>4, <2>10, <3>1, <3>3, <3>5 DEF ReadOn
      <4>2. ReadOver(c, p, screen, pos, b, f)
        BY <4>1, ReadFinds
      <4> QED
        BY <4>2 DEF ReadOver
    <3> HIDE DEF f
    <3>8. NoNewline(data') /\ Progress(c, p, data', last', screen', file_desc'[fd].file_pos)
      BY <2>7, <3>5, <3>6, <3>7
    <3>9. ASSUME at' = "grep_close" PROVE screen' = LinesUpTo(c, p, Len(c) + 1)
      <4>1. ret' = 0
        BY <1>2, <1>8, <3>9
      <4>2. last' = 0 /\ file_desc'[fd].file_pos = Len(c)
        BY <2>7, <3>3, <3>5, <3>6, <3>7, <4>1
      <4>3. Progress(c, p, data', 0, screen', Len(c))
        BY <3>8, <4>2
      <4> QED
        BY <3>3, <4>3, AllFound
    <3> QED
      BY <3>8, <3>9
  <2>11. SearchedSoFar(p)'
    <3> DEFINE prem == /\ file_desc[fd].fops = "file" /\ Sound(file_desc[fd].inode)
                       /\ residue # NL /\ Searchable(c)
               goal == /\ NoNewline(data')
                       /\ at' = "grep_read" => Progress(c, p, data', last', screen',
                                                        file_desc'[fd].file_pos)
                       /\ at' = "grep_close" => screen' = LinesUpTo(c, p, Len(c) + 1)
    <3>1. prem => goal
      BY <2>10
    <3>2. SearchedSoFar(p)' <=> (prem => goal)
      BY <1>1, <2>9 DEF SearchedSoFar
    <3> QED
      BY <3>1, <3>2
  <2> QED
    BY <1>1, <1>3, <1>5, <2>8, <2>11, Searching
<1> QED
  BY <1>7, <1>8

\* Every step of every program keeps the invariant of grep.
LEMMA GrepStep ==
  ASSUME SessionInv, GrepOK, [ProgramsNext]_programVars
  PROVE  GrepOK'
<1>1. CASE ls \/ cat \/ syserr
  <2>1. at' \notin GrepPlaces
    BY <1>1 DEF ls, cat, syserr, start, GrepPlaces
  <2> QED
    BY <2>1, NotInGrep
<1>2. ASSUME NEW p \in Patterns, grep_start(p) PROVE GrepOK'
  <2>1. at' = "grep" /\ data' = WithPattern(p, 0)
    BY <1>2 DEF grep_start, start
  <2>2. HasBehind(WithPattern(p, 0), p)
    <3>1. BUFSIZE \in Nat /\ p \in Seq(Nat \ {0, NL}) /\ Len(p) \in Nat
      <4>1. BUFSIZE \in Nat /\ p \in Seq(Nat \ {0, NL})
        BY ProgramsAssumption
      <4> QED
        BY <4>1
    <3> DEFINE top == BUFSIZE + 1 + Len(p)
               w == WithPattern(p, 0)
    <3>2. /\ DOMAIN w = 0 .. top
          /\ \A k \in 0 .. top : w[k] = IF k <= BUFSIZE THEN 0
                                        ELSE IF k <= BUFSIZE + Len(p) THEN p[k - BUFSIZE] ELSE 0
      BY DEF WithPattern
    <3>3. ASSUME NEW k \in 1 .. Len(p) PROVE w[BUFSIZE + k] = p[k]
      <4>1. /\ BUFSIZE + k \in 0 .. top /\ ~ (BUFSIZE + k <= BUFSIZE)
            /\ BUFSIZE + k <= BUFSIZE + Len(p) /\ (BUFSIZE + k) - BUFSIZE = k
        BY <3>1
      <4> HIDE DEF w, top
      <4> QED
        BY <3>2, <4>1
    <3>4. w[top] = 0
      <4>1. top \in 0 .. top /\ ~ (top <= BUFSIZE) /\ ~ (top <= BUFSIZE + Len(p))
        BY <3>1
      <4> HIDE DEF w, top
      <4> QED
        BY <3>2, <4>1
    <3> HIDE DEF w
    <3> QED
      BY <3>2, <3>3, <3>4 DEF HasBehind, w
  <2> QED
    BY <2>1, <2>2, PatternOnly
<1>3. CASE ls_open \/ ls_read
  <2>1. at' \notin GrepPlaces
    BY <1>3 DEF ls_open, ls_read, GrepPlaces
  <2> QED
    BY <2>1, NotInGrep
<1>4. ASSUME NEW name \in UserFiles, cat_open(name) PROVE GrepOK'
  <2>1. at' \notin GrepPlaces
    BY <1>4 DEF cat_open, GrepPlaces
  <2> QED
    BY <2>1, NotInGrep
<1>5. CASE cat_read
  <2>1. at' \in {"cat_done", "failed", "cat_read"}
    BY <1>5 DEF cat_read
  <2> QED
    BY <2>1, NotInGrep DEF GrepPlaces
<1>6. CASE grep_open \/ grep_dir \/ grep_close
  BY <1>6, GrepCallFinds
<1>7. CASE grep_file
  BY <1>7, GrepFileFinds
<1>8. CASE grep_read
  BY <1>8, GrepReadFinds
<1>9. CASE err_call \/ err_open_lots \/ exit
  <2>1. at' \notin GrepPlaces
    BY <1>9 DEF err_call, err_open_lots, exit, GrepPlaces
  <2> QED
    BY <2>1, NotInGrep
<1>10. CASE UNCHANGED programVars
  <2>1. UNCHANGED <<at, fd, data, last, residue, screen, file_desc, opened>>
    BY <1>10 DEF programVars, locals, search, vars, history
  <2> QED
    BY <2>1 DEF GrepOK, SearchedSoFar
<1> QED
  BY <1>1, <1>2, <1>3, <1>4, <1>5, <1>6, <1>7, <1>8, <1>9, <1>10 DEF ProgramsNext

\* The search is right from the beginning.
LEMMA GrepInit ==
  ASSUME ProgramsInit
  PROVE  GrepOK
BY DEF ProgramsInit, GrepOK, GrepPlaces

\* What grep has shown of a file before it closes it.
LEMMA GrepOKImplies ==
  ASSUME SessionInv, GrepOK
  PROVE  LinesFound
<1> DEFINE c == Content(file_desc[fd].inode)
<1> SUFFICES ASSUME at = "grep_close", file_desc[fd].fops = "file",
                    Sound(file_desc[fd].inode), residue # NL, 0 \notin Range(c),
                    \A k \in LineEnds(c) : Len(LineBefore(c, k)) < BUFSIZE
             PROVE  screen = LinesUpTo(c, puts(data, Search), Len(c) + 1)
  BY DEF LinesFound
<1>1. PICK p \in Patterns : HasBehind(data, p) /\ fd \in opened /\ SearchedSoFar(p)
  BY DEF GrepOK, GrepPlaces, SearchedSoFar
<1>2. c \in Seq(Nat)
  <2>1. fd \in Fds
    BY <1>1, ProgramsAssumption DEF SessionInv, PositionsInv, DescriptorsInv
  <2> QED
    BY <2>1, ContentTyped DEF SessionInv, PositionsInv, InodesKnown
<1>3. screen = LinesUpTo(c, p, Len(c) + 1)
  BY <1>1, <1>2 DEF SearchedSoFar, Searchable
<1> QED
  BY <1>1, <1>3, PatternBehind

-----------------------------------------------------------------------------
(* The theorems *)

\* The first state, in which no program runs.
LEMMA SessionInit ==
  ASSUME ProgramsInit
  PROVE  SessionInv
<1>1. PositionsInv /\ running = FALSE /\ at = "none" /\ last = 0
  BY PositionsInit DEF ProgramsInit, Init
<1>2. SearchOK
  BY <1>1, ProgramsAssumption DEF SearchOK
<1> QED
  BY <1>1, <1>2 DEF SessionInv, ListOK, CatOK, TestsOK

\* Every step of every program keeps the invariant.
LEMMA SessionStep ==
  ASSUME SessionInv, [ProgramsNext]_programVars
  PROVE  SessionInv'
<1>1. CASE ls \/ cat \/ syserr
  <2>1. PICK label \in {"ls", "cat", "read_neg_fd", "write_big_fd", "open_lots", "open", "close"} :
           start(label) /\ UNCHANGED search
    BY <1>1 DEF ls, cat, syserr
  <2>2. SearchOK'
    BY <2>1 DEF SessionInv, SearchOK, search
  <2> QED
    BY <2>1, <2>2, StartStep
<1>2. ASSUME NEW p \in Patterns, grep_start(p) PROVE SessionInv'
  <2>1. start("grep") /\ last' = 0
    BY <1>2 DEF grep_start
  <2>2. SearchOK'
    BY <2>1, ProgramsAssumption DEF SearchOK
  <2> QED
    BY <2>1, <2>2, StartStep
<1>3. CASE ls_open \/ ls_read
  BY <1>3, ListOpenStep, ListReadStep
<1>4. ASSUME NEW name \in UserFiles, cat_open(name) PROVE SessionInv'
  BY <1>4, CatOpenStep
<1>5. CASE cat_read
  BY <1>5, CatReadStep
<1>6. CASE grep_open \/ grep_dir \/ grep_file \/ grep_close
  BY <1>6, GrepCallStep
<1>7. CASE grep_read
  BY <1>7, GrepReadStep
<1>8. CASE err_call \/ err_open_lots
  BY <1>8, ErrCallStep, ErrOpenLotsStep
<1>9. CASE exit
  BY <1>9, ExitStep
<1>10. CASE UNCHANGED programVars
  <2>1. UNCHANGED vars /\ UNCHANGED <<at, dir_fd, fd, last, screen, count>>
    BY <1>10 DEF programVars, locals, search
  <2>2. PositionsInv'
    BY <2>1, FailsKeeps DEF SessionInv
  <2>3. UNCHANGED <<running, file_desc, opened, got, ended>>
    BY <2>1 DEF vars, history
  <2> QED
    BY <2>1, <2>2, <2>3
       DEF SessionInv, SearchOK, ListOK, CatOK, TestsOK, FirstNames
<1> QED
  BY <1>1, <1>2, <1>3, <1>4, <1>5, <1>6, <1>7, <1>8, <1>9, <1>10 DEF ProgramsNext

\* What the invariant says of what is printed.
LEMMA SessionInvImplies ==
  ASSUME SessionInv
  PROVE  PrintsWhole /\ SelfTestsPass
<1>1. ASSUME at = "ls_done"
      PROVE  \E n \in {Len(Dentries) - 1, Len(Dentries)} :
                screen = [k \in 1 .. n |-> Dentries[k].name]
  <2>1. FirstNames /\ Len(screen) = Len(Dentries) - 1
    BY <1>1 DEF SessionInv, ListOK
  <2> DEFINE n == Len(Dentries) - 1
             S == STRING
  <2>2. screen \in Seq(S) /\ Len(screen) = n /\ \A k \in 1 .. n : screen[k] = Dentries[k].name
    BY <2>1 DEF FirstNames
  <2> HIDE DEF S, n
  <2>3. screen = [k \in 1 .. n |-> screen[k]]
    BY <2>2
  <2>4. screen = [k \in 1 .. n |-> Dentries[k].name]
    BY <2>2, <2>3
  <2> QED
    BY <2>4 DEF n
<1>2. ASSUME at = "cat_done", file_desc[fd].fops = "file", Sound(file_desc[fd].inode)
      PROVE  screen = Content(file_desc[fd].inode)
  <2>1. fd \in opened /\ screen = got[fd] /\ ended[fd] /\ ReadsConsecutive
    BY <1>2 DEF SessionInv, CatOK, PositionsInv
  <2> QED
    BY <1>2, <2>1 DEF ReadsConsecutive
<1> QED
  BY <1>1, <1>2 DEF PrintsWhole, SelfTestsPass, SessionInv, TestsOK

\* The programs keep their invariant.
THEOREM SessionInvariant == ProgramsSpec => []SessionInv
BY SessionInit, SessionStep, PTL DEF ProgramsSpec

\* ls prints the names of the directory in order, each once, and at most the last
\* is missing; cat prints a file whole: the loops of ece391ls.c and ece391cat.c over read.
THEOREM PrintsWholeHolds == ProgramsSpec => []PrintsWhole
<1>1. SessionInv => PrintsWhole
  BY SessionInvImplies
<1> QED
  BY <1>1, SessionInvariant, PTL

\* The tests of ece391syserr.c report PASS, however many descriptors there are
\* and whatever the program before left in the control block.
THEOREM SelfTestsPassHolds == ProgramsSpec => []SelfTestsPass
<1>1. SessionInv => SelfTestsPass
  BY SessionInvImplies
<1> QED
  BY <1>1, SessionInvariant, PTL

\* The search keeps its invariant, with that of the programs.
THEOREM SearchInvariant == ProgramsSpec => [](SessionInv /\ GrepOK)
<1>1. ProgramsInit => SessionInv /\ GrepOK
  BY SessionInit, GrepInit
<1>2. SessionInv /\ GrepOK /\ [ProgramsNext]_programVars => (SessionInv /\ GrepOK)'
  BY SessionStep, GrepStep
<1> QED
  BY <1>1, <1>2, PTL DEF ProgramsSpec

\* grep shows every line of a text that has the pattern, whole and once and in
\* order, wherever its reads of BUFSIZE bytes cut the lines: the loop of
\* ece391grep.c, for every image, size of the buffer and pattern.
THEOREM LinesFoundHolds == ProgramsSpec => []LinesFound
<1>1. SessionInv /\ GrepOK => LinesFound
  BY GrepOKImplies
<1> QED
  BY <1>1, SearchInvariant, PTL
=============================================================================
