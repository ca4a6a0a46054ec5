---------------------------- MODULE FilesProofs ----------------------------
(***************************************************************************)
(* The descriptors in use are the standard streams and what the present    *)
(* program opened, and reads of a file return its bytes in order, for      *)
(* every number of descriptors and every image.                            *)
(*                                                                         *)
(* The first invariant needs the shape of the table and nothing of the     *)
(* positions.  The second needs what read_data returns, which is a loop:   *)
(* its rounds exist and are right by induction over their number, with the *)
(* lemmas of LoopLemmas in the place of an induction rule.                 *)
(***************************************************************************)
EXTENDS Files, LoopLemmas, SequenceTheorems

Fields == {"fops", "inode", "file_pos", "flags"}

\* The shape of the table: every descriptor has its four fields.
TableShape ==
    /\ DOMAIN file_desc = Fds
    /\ \A i \in Fds : /\ DOMAIN file_desc[i] = Fields
                      /\ file_desc[i].flags \in {0, 1}

\* The inductive invariant: the property, and that the program opens no
\* descriptor below 2 and none outside the table.
DescriptorsInv ==
    /\ TableShape
    /\ opened \subseteq {i \in Fds : i >= 2}
    /\ DescriptorsAreOpened

\* open finds the first unused descriptor when there is one.
LEMMA FirstUnusedIsUnused ==
  ASSUME ~Full
  PROVE  /\ FirstUnused \in Fds /\ ~InUse(FirstUnused)
         /\ \A j \in 0 .. FirstUnused - 1 : InUse(j)
<1> DEFINE unused == {i \in Fds : ~InUse(i)}
<1>1. unused \subseteq Nat
  BY FilesAssumption DEF Fds
<1>2. unused # {}
  BY DEF Full
<1>3. PICK i \in unused : \A j \in unused : ~ (j < i)
  BY <1>1, <1>2, LeastNat
<1>4. i \in Fds /\ ~InUse(i) /\ \A j \in 0 .. i - 1 : InUse(j)
  BY <1>3, FilesAssumption DEF Fds
<1> QED
  BY <1>4 DEF FirstUnused

\* A step that changes neither the table nor who runs keeps the invariant.
LEMMA SameTable ==
  ASSUME DescriptorsInv, UNCHANGED <<running, file_desc, opened>>
  PROVE  DescriptorsInv'
BY DEF DescriptorsInv, TableShape, DescriptorsAreOpened, InUse, Fds, Stream

\* execute: the table is reset, whatever the program before left in it.
LEMMA ExecuteStep ==
  ASSUME DescriptorsInv, execute
  PROVE  DescriptorsInv'
<1>1. \A i \in Fds : file_desc'[i] = IF i \in {0, 1} THEN Stream ELSE Unused
  BY DEF execute, initialize_pcb
<1>2. TableShape'
  BY <1>1 DEF execute, initialize_pcb, TableShape, Fields, Stream, Unused, Fds
<1>3. {0, 1} \subseteq Fds
  BY FilesAssumption DEF Fds
<1>4. \A i \in Fds : i >= 2 => i \notin {0, 1}
  BY FilesAssumption DEF Fds
<1>5. DescriptorsAreOpened'
  BY <1>1, <1>3, <1>4 DEF DescriptorsAreOpened, execute, InUse, Unused, Fds
<1> QED
  BY <1>2, <1>5 DEF DescriptorsInv, execute

\* open: the descriptor taken is not a standard stream, because those are in use.
LEMMA OpenStep ==
  ASSUME DescriptorsInv, NEW name, open(name)
  PROVE  DescriptorsInv'
<1> DEFINE d == read_dentry_by_name(name)
           u == FirstUnused
           new == [fops |-> d.type, file_pos |-> 0, flags |-> 1,
                   inode |-> IF d.type = "file" THEN d.inode ELSE 0]
<1>1. u \in Fds /\ ~InUse(u)
  BY FirstUnusedIsUnused DEF open, CanOpen
<1>2. running /\ running' = running /\ d.type \in {"rtc", "dir", "file"}
  BY DEF open, CanOpen
<1>3. file_desc' = [file_desc EXCEPT ![u] = new] /\ opened' = opened \cup {u}
  BY DEF open
<1>4. u >= 2
  <2>1. InUse(0) /\ InUse(1)
    BY <1>2 DEF DescriptorsInv, DescriptorsAreOpened, InUse, Stream
  <2> QED
    BY <1>1, <2>1, FilesAssumption DEF Fds
<1>5. /\ DOMAIN file_desc' = Fds
      /\ file_desc'[u] = new
      /\ \A i \in Fds : i # u => file_desc'[i] = file_desc[i]
  BY <1>1, <1>3 DEF DescriptorsInv, TableShape
<1> HIDE DEF u
<1>6. DOMAIN new = Fields /\ new.flags = 1 /\ new.fops = d.type
  BY DEF Fields
<1> HIDE DEF new, d
<1>7. TableShape'
  BY <1>5, <1>6 DEF DescriptorsInv, TableShape, Fds
<1>8. opened' \subseteq {i \in Fds : i >= 2}
  BY <1>1, <1>3, <1>4 DEF DescriptorsInv
<1>9. \A i \in {0, 1} : file_desc'[i] = Stream
  BY <1>2, <1>4, <1>5, FilesAssumption DEF DescriptorsInv, DescriptorsAreOpened, Fds
<1>10. {i \in Fds : i >= 2 /\ file_desc'[i].flags = 1} = opened'
  BY <1>1, <1>2, <1>3, <1>4, <1>5, <1>6 DEF DescriptorsInv, DescriptorsAreOpened, InUse
<1>11. \A i \in opened' : file_desc'[i].fops \in {"rtc", "dir", "file"}
  BY <1>2, <1>3, <1>5, <1>6, <1>8 DEF DescriptorsInv, DescriptorsAreOpened
<1> QED
  BY <1>7, <1>8, <1>9, <1>10, <1>11 DEF DescriptorsInv, DescriptorsAreOpened, InUse, Fds

\* close: only descriptors from 2 on, so the standard streams stay.
LEMMA CloseStep ==
  ASSUME DescriptorsInv, NEW k, close(k)
  PROVE  DescriptorsInv'
<1>1. k \in Fds /\ k >= 2 /\ running /\ running' = running
  BY DEF close, Closable
<1>2. /\ DOMAIN file_desc' = Fds
      /\ file_desc'[k] = Unused
      /\ \A i \in Fds : i # k => file_desc'[i] = file_desc[i]
      /\ opened' = opened \ {k}
  BY <1>1 DEF close, DescriptorsInv, TableShape
<1>3. TableShape'
  BY <1>2 DEF DescriptorsInv, TableShape, Unused, Fields, Fds
<1>4. \A i \in {0, 1} : file_desc'[i] = Stream
  BY <1>1, <1>2, FilesAssumption DEF DescriptorsInv, DescriptorsAreOpened, Fds
<1>5. {i \in Fds : i >= 2 /\ file_desc'[i].flags = 1} = opened'
  BY <1>1, <1>2 DEF DescriptorsInv, DescriptorsAreOpened, InUse, Unused
<1>6. \A i \in opened' : file_desc'[i].fops \in {"rtc", "dir", "file"}
  BY <1>1, <1>2 DEF DescriptorsInv, DescriptorsAreOpened
<1> QED
  BY <1>2, <1>3, <1>4, <1>5, <1>6 DEF DescriptorsInv, DescriptorsAreOpened, InUse, Fds

\* A read moves a position at most; standard input is no file or directory.
LEMMA PositionStep ==
  ASSUME DescriptorsInv, running, UNCHANGED <<running, opened>>,
         NEW k \in Fds, file_desc[k].fops # "terminal",
         NEW pos, file_desc' = [file_desc EXCEPT ![k].file_pos = pos]
  PROVE  DescriptorsInv'
<1>1. /\ DOMAIN file_desc' = Fds
      /\ \A i \in Fds : i # k => file_desc'[i] = file_desc[i]
      /\ file_desc'[k] = [file_desc[k] EXCEPT !.file_pos = pos]
  BY DEF DescriptorsInv, TableShape
<1>2. /\ DOMAIN file_desc'[k] = Fields
      /\ file_desc'[k].flags = file_desc[k].flags
      /\ file_desc'[k].fops = file_desc[k].fops
  BY <1>1 DEF DescriptorsInv, TableShape, Fields
<1>3. TableShape'
  BY <1>1, <1>2 DEF DescriptorsInv, TableShape, Fds
<1>4. \A i \in {0, 1} : i # k /\ i \in Fds
  BY FilesAssumption DEF DescriptorsInv, DescriptorsAreOpened, Stream, Fds
<1>5. \A i \in {0, 1} : file_desc'[i] = Stream
  BY <1>1, <1>4 DEF DescriptorsInv, DescriptorsAreOpened
<1>6. \A i \in Fds : /\ file_desc'[i].flags = file_desc[i].flags
                     /\ file_desc'[i].fops = file_desc[i].fops
  BY <1>1, <1>2
<1>7. {i \in Fds : i >= 2 /\ file_desc'[i].flags = 1} = opened'
  BY <1>6 DEF DescriptorsInv, DescriptorsAreOpened, InUse
<1>8. \A i \in opened' : file_desc'[i].fops \in {"rtc", "dir", "file"}
  BY <1>6 DEF DescriptorsInv, DescriptorsAreOpened
<1> QED
  BY <1>3, <1>5, <1>7, <1>8 DEF DescriptorsInv, DescriptorsAreOpened, InUse, Fds

\* read, whichever of the four read functions it calls.
LEMMA ReadStep ==
  ASSUME DescriptorsInv, NEW k, NEW n, read(k, n)
  PROVE  DescriptorsInv'
<1>1. k \in Fds /\ running
  BY DEF read, Readable
<1>2. CASE file_read(k, n)
  <2> DEFINE r == read_data(file_desc[k].inode, file_desc[k].file_pos, n)
  <2>1. \E value, bytes : Returns(k, n, value, bytes)
    BY <1>2 DEF file_read
  <2>2. PICK value, bytes : Returns(k, n, value, bytes)
    BY <2>1
  <2>3. /\ UNCHANGED <<running, opened>>
        /\ file_desc' = [file_desc EXCEPT ![k].file_pos = (file_desc[k].file_pos + value) % WORD]
    BY <2>2 DEF Returns
  <2>4. file_desc[k].fops # "terminal"
    BY <1>2 DEF file_read
  <2> QED
    BY <1>1, <2>3, <2>4, PositionStep
<1>3. CASE dir_read(k, n)
  <2>1. /\ UNCHANGED <<running, opened>>
        /\ file_desc[k].fops # "terminal"
        /\ \E pos : file_desc' = [file_desc EXCEPT ![k].file_pos = pos]
    BY <1>3 DEF dir_read, history
  <2> QED
    BY <1>1, <2>1, PositionStep
<1>4. CASE device_read(k, n)
  BY <1>4, SameTable DEF device_read, history
<1> QED
  BY <1>2, <1>3, <1>4 DEF read

\* Every step keeps the invariant.
LEMMA DescriptorsStep ==
  ASSUME DescriptorsInv, [Next]_vars
  PROVE  DescriptorsInv'
<1>1. CASE execute
  BY <1>1, ExecuteStep
<1>2. CASE halt
  BY <1>2 DEF halt, history, DescriptorsInv, TableShape, DescriptorsAreOpened, Fds
<1>3. CASE argument_error
  BY <1>3, SameTable DEF argument_error, Fails, history
<1>4. ASSUME NEW name \in FileNames, open(name) \/ open_error(name)
      PROVE  DescriptorsInv'
  BY <1>4, OpenStep, SameTable DEF open_error, Fails, history
<1>5. ASSUME NEW k \in -1 .. MAX_FILE_NUM, close(k) \/ close_error(k)
      PROVE  DescriptorsInv'
  BY <1>5, CloseStep, SameTable DEF close_error, Fails, history
<1>6. ASSUME NEW k \in -1 .. MAX_FILE_NUM, NEW n \in Counts, read(k, n)
      PROVE  DescriptorsInv'
  BY <1>6, ReadStep
<1>7. ASSUME NEW k \in -1 .. MAX_FILE_NUM, NEW n \in Counts, write(k, n)
      PROVE  DescriptorsInv'
  BY <1>7, SameTable DEF write, history
<1>8. CASE UNCHANGED vars
  BY <1>8, SameTable DEF vars, history
<1> QED
  BY <1>1, <1>2, <1>3, <1>4, <1>5, <1>6, <1>7, <1>8 DEF Next

\* The descriptors in use are the standard streams and those the running
\* program opened and did not close, whatever programs had the control block
\* before it.
THEOREM DescriptorsAreOpenedHolds == Spec => []DescriptorsAreOpened
<1>1. Init => DescriptorsInv
  BY DEF Init, DescriptorsInv, TableShape, DescriptorsAreOpened, Unused, Fields
<1>2. DescriptorsInv /\ [Next]_vars => DescriptorsInv'
  BY DescriptorsStep
<1>3. DescriptorsInv => DescriptorsAreOpened
  BY DEF DescriptorsInv
<1> QED
  BY <1>1, <1>2, <1>3, PTL DEF Spec

-----------------------------------------------------------------------------
(* The loop of read_data *)

\* What a round of it leaves: the bytes so far, and whether it goes on.
Rounds == [bytes : Seq(Nat), bad : BOOLEAN, end_of_file : BOOLEAN]

\* One round of the loop of read_data.
Round(n, offset, k, r) ==
  LET at == offset + k - 1
  IN  IF r.bad \/ r.end_of_file THEN r
      ELSE IF BlockOf(n, at) \notin DOMAIN Blocks THEN [r EXCEPT !.bad = TRUE]
      ELSE [bytes |-> Append(r.bytes, Blocks[BlockOf(n, at)][(at % BLOCK_SIZE) + 1]),
            bad |-> FALSE,
            end_of_file |-> at + 1 >= Inodes[n].length]

\* What it starts with.
First(n, offset) ==
  [bytes |-> << >>, bad |-> FALSE, end_of_file |-> offset >= Inodes[n].length]

\* A round makes a round of a round.
LEMMA RoundTyped ==
  ASSUME NEW n \in DOMAIN Inodes, NEW offset \in Nat, NEW k \in Nat, k # 0, NEW r \in Rounds
  PROVE  Round(n, offset, k, r) \in Rounds
<1> DEFINE at == offset + k - 1
<1>1. at \in Nat /\ BLOCK_SIZE \in Nat /\ BLOCK_SIZE > 0
  BY FilesAssumption
<1>2. (at % BLOCK_SIZE) + 1 \in 1 .. BLOCK_SIZE
  <2> HIDE DEF at
  <2> QED
    BY <1>1
<1>3. CASE r.bad \/ r.end_of_file
  BY <1>3, Zenon DEF Round
<1>4. CASE ~ (r.bad \/ r.end_of_file) /\ BlockOf(n, at) \notin DOMAIN Blocks
  <2>1. Round(n, offset, k, r) = [r EXCEPT !.bad = TRUE]
    BY <1>4, Zenon DEF Round
  <2> QED
    BY <2>1 DEF Rounds
<1>5. CASE ~ (r.bad \/ r.end_of_file) /\ BlockOf(n, at) \in DOMAIN Blocks
  <2> DEFINE byte == Blocks[BlockOf(n, at)][(at % BLOCK_SIZE) + 1]
             more == at + 1 >= Inodes[n].length
  <2>1. byte \in Nat
    <3>1. Blocks[BlockOf(n, at)] \in [1 .. BLOCK_SIZE -> Nat]
      BY <1>5, FilesAssumption
    <3> QED
      BY <1>2, <3>1
  <2>2. Append(r.bytes, byte) \in Seq(Nat)
    <3> HIDE DEF byte
    <3> QED
      BY <2>1, AppendProperties DEF Rounds
  <2>3. more \in BOOLEAN
    BY <1>1, FilesAssumption
  <2>4. Round(n, offset, k, r) = [bytes |-> Append(r.bytes, byte), bad |-> FALSE,
                                  end_of_file |-> more]
    BY <1>5, Zenon DEF Round
  <2> HIDE DEF byte, more
  <2> QED
    BY <2>2, <2>3, <2>4 DEF Rounds
<1> QED
  BY <1>3, <1>4, <1>5, Zenon

\* read_data is what its loop computes: its rounds exist, each is made of the
\* one before.
LEMMA ReadData ==
  ASSUME NEW n \in DOMAIN Inodes, NEW offset \in Nat, NEW length \in Nat
  PROVE  \E f \in [0 .. length -> Rounds] :
            /\ read_data(n, offset, length) = f[length]
            /\ f[0] = First(n, offset)
            /\ \A k \in 1 .. length : f[k] = Round(n, offset, k, f[k - 1])
<1> DEFINE Eq(f) == f = [k \in 0 .. length |-> IF k = 0 THEN First(n, offset)
                                               ELSE Round(n, offset, k, f[k - 1])]
           step == [k \in Nat |-> [r \in Rounds |-> IF k = 0 THEN r ELSE Round(n, offset, k, r)]]
           c == CHOOSE f : Eq(f)
<1>1. First(n, offset) \in Rounds
  <2>1. (offset >= Inodes[n].length) \in BOOLEAN
    BY FilesAssumption
  <2>2. << >> \in Seq(Nat)
    OBVIOUS
  <2> QED
    BY <2>1, <2>2, Zenon DEF First, Rounds
<1>2. \A k \in Nat, r \in Rounds : step[k][r] \in Rounds
  BY RoundTyped
<1>3. \A k \in 1 .. length, r \in Rounds : step[k][r] = Round(n, offset, k, r)
  OBVIOUS
<1>4. \E f : Eq(f)
  <2> HIDE DEF step
  <2> DEFINE base == First(n, offset)
  <2>0. Computed(Rounds, base, step, length)
    <3> HIDE DEF base
    <3> QED
      BY <1>1, <1>2, Recursion DEF base
  <2>1. PICK f \in [0 .. length -> Rounds] :
           f[0] = First(n, offset) /\ \A k \in 1 .. length : f[k] = step[k][f[k - 1]]
    BY <2>0 DEF Computed
  <2>2. \A k \in 0 .. length : k # 0 => k \in 1 .. length /\ f[k - 1] \in Rounds
    OBVIOUS
  <2>3. \A k \in 0 .. length : k # 0 => f[k] = Round(n, offset, k, f[k - 1])
    BY <1>3, <2>1, <2>2
  <2>4. f = [k \in 0 .. length |-> f[k]]
    OBVIOUS
  <2>5. Eq(f)
    BY <2>1, <2>3, <2>4
  <2> QED
    BY <2>5
<1>5. Eq(c)
  <2> HIDE DEF Eq
  <2> QED
    BY <1>4
<1>6. read_data(n, offset, length) = c[length]
  BY DEF read_data, First, Round
<1> HIDE DEF c
<1>7. c[0] = First(n, offset) /\ \A k \in 1 .. length : c[k] = Round(n, offset, k, c[k - 1])
  BY <1>5
<1> DEFINE Good == {k \in Nat : k \in 0 .. length => c[k] \in Rounds}
<1>8. Nat \subseteq Good
  <2>1. 0 \in Good
    BY <1>1, <1>7
  <2>2. ASSUME NEW k \in Nat, k \in Good PROVE k + 1 \in Good
    <3> SUFFICES ASSUME k + 1 \in 0 .. length PROVE c[k + 1] \in Rounds
      OBVIOUS
    <3>1. k \in 0 .. length /\ k + 1 \in 1 .. length /\ (k + 1) - 1 = k /\ k + 1 # 0
      OBVIOUS
    <3>2. c[k] \in Rounds
      BY <2>2, <3>1
    <3>3. c[k + 1] = Round(n, offset, k + 1, c[k])
      BY <1>7, <3>1
    <3> QED
      BY <3>1, <3>2, <3>3, RoundTyped
  <2> HIDE DEF Good
  <2> QED
    BY <2>1, <2>2, AllNat
<1>9. c \in [0 .. length -> Rounds]
  BY <1>5, <1>8
<1> QED
  BY <1>6, <1>7, <1>9

\* An offset inside a file is in one of its blocks.
LEMMA BlockInside ==
  ASSUME NEW b \in Nat \ {0}, NEW m \in Nat, NEW at \in Nat, at < b * m
  PROVE  at \div b \in Nat /\ at % b \in 0 .. b - 1 /\ at \div b + 1 \in 1 .. m
<1> DEFINE q == at \div b
           r == at % b
<1>1. q \in Nat /\ r \in 0 .. b - 1 /\ at = b * q + r
  OBVIOUS
<1> HIDE DEF q, r
<1>2. ~ (m <= q)
  <2> SUFFICES ASSUME m <= q PROVE FALSE
    OBVIOUS
  <2>1. m * b <= q * b
    BY <1>1, Times
  <2>2. b * m = m * b /\ b * q = q * b /\ b * m \in Nat /\ b * q \in Nat
    BY <1>1
  <2> QED
    BY <1>1, <2>1, <2>2
<1>3. q + 1 \in 1 .. m
  BY <1>1, <1>2
<1> QED
  BY <1>1, <1>3 DEF q, r

\* A sound file's content is its bytes.
LEMMA ContentTyped ==
  ASSUME NEW n \in DOMAIN Inodes, Sound(n)
  PROVE  /\ Content(n) \in Seq(Nat)
         /\ Len(Content(n)) = Inodes[n].length
         /\ \A at \in 0 .. Inodes[n].length - 1 :
               /\ BlockOf(n, at) \in DOMAIN Blocks
               /\ Content(n)[at + 1] = Blocks[BlockOf(n, at)][(at % BLOCK_SIZE) + 1]
<1> DEFINE L == Inodes[n].length
           m == Len(Inodes[n].blocks)
<1>1. /\ L \in Nat /\ m \in Nat /\ L <= BLOCK_SIZE * m
      /\ BLOCK_SIZE \in Nat \ {0} /\ BLOCK_SIZE * m \in Nat
  BY FilesAssumption
<1>2. ASSUME NEW at \in 0 .. L - 1
      PROVE  /\ BlockOf(n, at) \in DOMAIN Blocks
             /\ (at % BLOCK_SIZE) + 1 \in 1 .. BLOCK_SIZE
  <2>1. at \in Nat /\ at < BLOCK_SIZE * m
    <3> HIDE DEF L, m
    <3> QED
      BY <1>1
  <2>2. at \div BLOCK_SIZE + 1 \in 1 .. m /\ at % BLOCK_SIZE \in 0 .. BLOCK_SIZE - 1
    <3> HIDE DEF L, m
    <3> QED
      BY <1>1, <2>1, BlockInside
  <2> QED
    BY <1>1, <2>2 DEF BlockOf, Sound
<1>3. ASSUME NEW at \in 0 .. L - 1
      PROVE  Blocks[BlockOf(n, at)][(at % BLOCK_SIZE) + 1] \in Nat
  <2>1. Blocks[BlockOf(n, at)] \in [1 .. BLOCK_SIZE -> Nat]
    BY <1>2, FilesAssumption
  <2> QED
    BY <1>2, <2>1
<1> DEFINE val(at) == Blocks[BlockOf(n, at)][(at % BLOCK_SIZE) + 1]
<1>4. Content(n) = [k \in 1 .. L |-> val(k - 1)]
  BY DEF Content, BlockOf
<1>5. \A k \in 1 .. L : k - 1 \in 0 .. L - 1
  BY <1>1
<1>6. \A k \in 1 .. L : val(k - 1) \in Nat
  BY <1>3, <1>5
<1>7. \A at \in 0 .. L - 1 : at + 1 \in 1 .. L /\ (at + 1) - 1 = at
  BY <1>1
<1> HIDE DEF val, L
<1>8. Content(n) \in [1 .. L -> Nat]
  BY <1>4, <1>6
<1>9. Content(n) \in Seq(Nat) /\ Len(Content(n)) = L
  BY <1>1, <1>8
<1>10. \A at \in 0 .. L - 1 : Content(n)[at + 1] = val(at)
  BY <1>4, <1>7
<1> QED
  BY <1>2, <1>9, <1>10 DEF val, L

\* read_data returns bytes, as many as were asked for at most.
LEMMA ReadTyped ==
  ASSUME NEW n \in DOMAIN Inodes, NEW offset \in Nat, NEW length \in Nat
  PROVE  read_data(n, offset, length) \in Rounds
<1>1. PICK f \in [0 .. length -> Rounds] : read_data(n, offset, length) = f[length]
  BY ReadData
<1> QED
  BY <1>1

\* Those are no more than it was asked for.
LEMMA ReadLength ==
  ASSUME NEW n \in DOMAIN Inodes, NEW offset \in Nat, NEW length \in Nat
  PROVE  Len(read_data(n, offset, length).bytes) <= length
<1>1. PICK f \in [0 .. length -> Rounds] :
         /\ read_data(n, offset, length) = f[length]
         /\ f[0] = First(n, offset)
         /\ \A k \in 1 .. length : f[k] = Round(n, offset, k, f[k - 1])
  BY ReadData
<1> DEFINE Good == {k \in Nat : k \in 0 .. length => Len(f[k].bytes) <= k}
<1>2. 0 \in Good
  <2> DEFINE e == offset >= Inodes[n].length
  <2>1. f[0] = [bytes |-> << >>, bad |-> FALSE, end_of_file |-> e]
    BY <1>1, Zenon DEF First
  <2> HIDE DEF e
  <2>2. f[0].bytes = << >>
    BY <2>1
  <2> QED
    BY <2>2
<1>3. ASSUME NEW k \in Nat, k \in Good PROVE k + 1 \in Good
  <2> SUFFICES ASSUME k + 1 \in 0 .. length PROVE Len(f[k + 1].bytes) <= k + 1
    OBVIOUS
  <2>1. k \in 0 .. length /\ k + 1 \in 1 .. length /\ (k + 1) - 1 = k
    OBVIOUS
  <2> DEFINE r == f[k]
             at == offset + (k + 1) - 1
             byte == Blocks[BlockOf(n, at)][(at % BLOCK_SIZE) + 1]
  <2>2. r \in Rounds /\ Len(r.bytes) <= k /\ f[k + 1] = Round(n, offset, k + 1, r)
    BY <1>1, <1>3, <2>1
  <2>3. r.bytes \in Seq(Nat) /\ f[k + 1] \in Rounds /\ f[k + 1].bytes \in Seq(Nat)
    BY <2>1, <2>2 DEF Rounds
  <2> HIDE DEF r
  <2>4. f[k + 1].bytes \in {r.bytes, Append(r.bytes, byte)}
    <3>1. CASE r.bad \/ r.end_of_file
      BY <2>2, <3>1, Zenon DEF Round
    <3>2. CASE ~ (r.bad \/ r.end_of_file) /\ BlockOf(n, at) \notin DOMAIN Blocks
      <4>1. f[k + 1] = [r EXCEPT !.bad = TRUE]
        BY <2>2, <3>2, Zenon DEF Round
      <4> QED
        BY <2>2, <4>1 DEF Rounds
    <3>3. CASE ~ (r.bad \/ r.end_of_file) /\ BlockOf(n, at) \in DOMAIN Blocks
      <4> DEFINE e == at + 1 >= Inodes[n].length
      <4>1. f[k + 1] = [bytes |-> Append(r.bytes, byte), bad |-> FALSE, end_of_file |-> e]
        BY <2>2, <3>3, Zenon DEF Round
      <4> HIDE DEF e, byte
      <4>2. f[k + 1].bytes = Append(r.bytes, byte)
        BY <4>1
      <4> QED
        BY <4>2
    <3> QED
      BY <3>1, <3>2, <3>3, Zenon
  <2> HIDE DEF byte
  <2>5. Len(Append(r.bytes, byte)) = Len(r.bytes) + 1
    BY <2>3
  <2> QED
    BY <2>2, <2>3, <2>4, <2>5
<1>4. Nat \subseteq Good
  <2> HIDE DEF Good
  <2> QED
    BY <1>2, <1>3, AllNat
<1> QED
  BY <1>1, <1>4

\* read_data from inside a sound file returns the bytes from the offset on, and
\* fewer than were asked for only at the end.
LEMMA ReadSound ==
  ASSUME NEW n \in DOMAIN Inodes, Sound(n), NEW offset \in 0 .. Inodes[n].length,
         NEW length \in Nat
  PROVE  LET r == read_data(n, offset, length)
         IN  /\ ~ r.bad
             /\ r.bytes \in Seq(Nat)
             /\ offset + Len(r.bytes) <= Inodes[n].length
             /\ \A j \in 1 .. Len(r.bytes) : r.bytes[j] = Content(n)[offset + j]
             /\ length > 0 /\ Len(r.bytes) = 0 => offset = Inodes[n].length
             /\ Len(r.bytes) < length => offset + Len(r.bytes) = Inodes[n].length
<1> DEFINE L == Inodes[n].length
           c == Content(n)
<1>1. L \in Nat /\ offset \in 0 .. L /\ offset \in Nat
  BY FilesAssumption
<1>2. /\ c \in Seq(Nat) /\ Len(c) = L
      /\ \A at \in 0 .. L - 1 : /\ BlockOf(n, at) \in DOMAIN Blocks
                                /\ c[at + 1] = Blocks[BlockOf(n, at)][(at % BLOCK_SIZE) + 1]
  BY ContentTyped
<1>3. PICK f \in [0 .. length -> Rounds] :
         /\ read_data(n, offset, length) = f[length]
         /\ f[0] = First(n, offset)
         /\ \A k \in 1 .. length : f[k] = Round(n, offset, k, f[k - 1])
  BY <1>1, ReadData
<1> DEFINE Right(k, r) ==
             /\ ~ r.bad
             /\ Len(r.bytes) <= k /\ offset + Len(r.bytes) <= L
             /\ \A j \in 1 .. Len(r.bytes) : r.bytes[j] = c[offset + j]
             /\ r.end_of_file <=> offset + Len(r.bytes) = L
             /\ ~ r.end_of_file => Len(r.bytes) = k
           Good == {k \in Nat : k \in 0 .. length => Right(k, f[k])}
<1>4. 0 \in Good
  <2> DEFINE e == offset >= L
  <2>0. f[0] = [bytes |-> << >>, bad |-> FALSE, end_of_file |-> e]
    BY <1>3, Zenon DEF First
  <2>1. f[0].bytes = << >> /\ f[0].bad = FALSE /\ (f[0].end_of_file <=> e)
    <3> HIDE DEF e
    <3> QED
      BY <2>0
  <2>2. Len(f[0].bytes) = 0
    BY <2>1
  <2> HIDE DEF L, c
  <2> QED
    BY <1>1, <2>1, <2>2
<1>5. ASSUME NEW k \in Nat, k \in Good PROVE k + 1 \in Good
  <2> SUFFICES ASSUME k + 1 \in 0 .. length PROVE Right(k + 1, f[k + 1])
    OBVIOUS
  <2>1. k \in 0 .. length /\ k + 1 \in 1 .. length /\ (k + 1) - 1 = k
    OBVIOUS
  <2> DEFINE r == f[k]
             at == offset + (k + 1) - 1
             byte == Blocks[BlockOf(n, at)][(at % BLOCK_SIZE) + 1]
  <2>2. r \in Rounds /\ Right(k, r) /\ f[k + 1] = Round(n, offset, k + 1, r)
    BY <1>3, <1>5, <2>1
  <2>3. r.bytes \in Seq(Nat) /\ Len(r.bytes) \in Nat
    BY <2>2 DEF Rounds
  <2> HIDE DEF r, L, c
  <2>4. CASE r.end_of_file
    <3>1. f[k + 1] = r
      BY <2>2, <2>4, Zenon DEF Round
    <3> QED
      BY <2>2, <2>3, <2>4, <3>1
  <2>5. CASE ~ r.end_of_file
    <3>0. Len(r.bytes) = k /\ offset + Len(r.bytes) <= L /\ offset + Len(r.bytes) # L
      BY <2>2, <2>5, Zenon
    <3>1. Len(r.bytes) = k /\ at = offset + k /\ at \in 0 .. L - 1
      BY <1>1, <2>3, <3>0
    <3>2. BlockOf(n, at) \in DOMAIN Blocks /\ byte = c[at + 1]
      BY <1>2, <3>1
    <3>3. byte \in Nat
      <4> HIDE DEF byte
      <4>1. at + 1 \in 1 .. Len(c)
        BY <1>1, <1>2, <3>1
      <4> QED
        BY <1>2, <3>2, <4>1
    <3> DEFINE e == at + 1 >= L
    <3>4. f[k + 1] = [bytes |-> Append(r.bytes, byte), bad |-> FALSE, end_of_file |-> e]
      BY <2>2, <2>5, <3>2, Zenon DEF Round, L
    <3>5. /\ f[k + 1].bytes = Append(r.bytes, byte) /\ f[k + 1].bad = FALSE
          /\ f[k + 1].end_of_file <=> e
      <4> HIDE DEF e, byte
      <4> QED
        BY <3>4
    <3> HIDE DEF byte, at
    <3>6. /\ Len(Append(r.bytes, byte)) = k + 1
          /\ \A j \in 1 .. k : Append(r.bytes, byte)[j] = r.bytes[j]
          /\ Append(r.bytes, byte)[k + 1] = byte
      BY <2>3, <3>1, <3>3, AppendProperties
    <3>7. \A j \in 1 .. k + 1 : Append(r.bytes, byte)[j] = c[offset + j]
      <4>1. \A j \in 1 .. k + 1 : j \in 1 .. k \/ j = k + 1
        OBVIOUS
      <4>2. \A j \in 1 .. k : r.bytes[j] = c[offset + j]
        BY <2>2, <3>1
      <4>3. offset + (k + 1) = at + 1
        BY <1>1, <3>1
      <4> QED
        BY <3>2, <3>6, <4>1, <4>2, <4>3
    <3> QED
      BY <1>1, <3>1, <3>5, <3>6, <3>7
  <2> QED
    BY <2>4, <2>5
<1>6. Nat \subseteq Good
  <2> HIDE DEF Good
  <2> QED
    BY <1>4, <1>5, AllNat
<1>7. Right(length, f[length]) /\ f[length] \in Rounds
  BY <1>6
<1> DEFINE r == read_data(n, offset, length)
<1>8. Right(length, r) /\ r.bytes \in Seq(Nat)
  BY <1>3, <1>7 DEF Rounds
<1> HIDE DEF r
<1>9. Len(r.bytes) \in Nat
  BY <1>8
<1>10. length > 0 /\ Len(r.bytes) = 0 => offset = L
  BY <1>1, <1>8, <1>9
<1>11. Len(r.bytes) < length => offset + Len(r.bytes) = L
  BY <1>1, <1>8, <1>9
<1> QED
  BY <1>8, <1>10, <1>11 DEF r

-----------------------------------------------------------------------------
(* The positions of the descriptors *)

\* A descriptor of a file has the number of an inode.
InodesKnown == \A k \in Fds : file_desc[k].fops = "file" => file_desc[k].inode \in DOMAIN Inodes

\* The inductive invariant of the positions.
PositionsInv == TypeOK /\ DescriptorsInv /\ InodesKnown /\ ReadsConsecutive

\* A descriptor of the table, as TypeOK says.
Descriptor == [fops : {"none"} \cup Types, inode : {0} \cup DOMAIN Inodes,
               file_pos : 0 .. WORD - 1, flags : {0, 1}]

\* The constants as numbers.
LEMMA Numbers ==
  /\ WORD \in Nat /\ WORD > 0 /\ 0 \in 0 .. WORD - 1
  /\ MAX_FILE_NUM \in Nat /\ MAX_FILE_NUM >= 2
  /\ {0, 1} \subseteq Fds /\ Fds \subseteq Nat
  /\ DirLength \in 0 .. WORD - 1
  /\ \A n \in Counts : n \in Nat
BY FilesAssumption DEF Fds

\* The entry found has one of the types, and a file's has an inode.
LEMMA FoundEntry ==
  ASSUME NEW name, Found(name)
  PROVE  LET d == read_dentry_by_name(name)
         IN  d.type \in Types /\ (d.type = "file" => d.inode \in DOMAIN Inodes)
<1> DEFINE at == {k \in DOMAIN Dentries : Dentries[k].name = name}
<1>1. at \subseteq Nat /\ at # {} /\ DOMAIN Dentries = 1 .. Len(Dentries) /\ Len(Dentries) \in Nat
  BY FilesAssumption DEF Found
<1>2. PICK k \in at : \A j \in at : ~ (j < k)
  BY <1>1, LeastNat
<1>3. \A j \in 1 .. k - 1 : Dentries[j].name # name
  BY <1>1, <1>2
<1> DEFINE Earliest(j) == Dentries[j].name = name /\ \A l \in 1 .. j - 1 : Dentries[l].name # name
           c == CHOOSE j \in DOMAIN Dentries : Earliest(j)
<1>4. c \in DOMAIN Dentries
  <2>1. k \in DOMAIN Dentries /\ Earliest(k)
    BY <1>2, <1>3
  <2> HIDE DEF Earliest
  <2> QED
    BY <2>1
<1>5. read_dentry_by_name(name) = Dentries[c]
  BY DEF read_dentry_by_name
<1> HIDE DEF c
<1>6. Dentries[c] \in [name : STRING, type : Types, inode : Nat]
  <2> DEFINE E == [name : STRING, type : Types, inode : Nat]
  <2>1. Dentries \in Seq(E)
    BY FilesAssumption
  <2> HIDE DEF E
  <2>2. Dentries[c] \in E
    BY <1>1, <1>4, <2>1, ElementOfSeq
  <2> QED
    BY <2>2 DEF E
<1>7. Dentries[c].type = "file" => Dentries[c].inode \in DOMAIN Inodes
  BY <1>4, FilesAssumption
<1> QED
  BY <1>5, <1>6, <1>7

\* execute: nothing is open.
LEMMA ExecutePositions ==
  ASSUME PositionsInv, execute
  PROVE  (TypeOK /\ InodesKnown /\ ReadsConsecutive)'
<1>1. \A k \in Fds : file_desc'[k] = IF k \in {0, 1} THEN Stream ELSE Unused
  BY DEF execute, initialize_pcb
<1>2. Stream \in Descriptor /\ Unused \in Descriptor
  BY Numbers DEF Stream, Unused, Descriptor, Types
<1>3. file_desc' \in [Fds -> Descriptor]
  BY <1>2 DEF execute, initialize_pcb
<1>4. InodesKnown'
  BY <1>1 DEF InodesKnown, Stream, Unused
<1>5. got' \in [Fds -> Seq(Nat)] /\ ended' \in [Fds -> BOOLEAN]
  BY DEF execute
<1>6. TypeOK'
  BY <1>3, <1>5 DEF execute, TypeOK, Descriptor
<1> QED
  BY <1>4, <1>6 DEF execute, ReadsConsecutive

\* open: the new descriptor stands at the beginning.
LEMMA OpenPositions ==
  ASSUME PositionsInv, NEW name, open(name)
  PROVE  (TypeOK /\ InodesKnown /\ ReadsConsecutive)'
<1> DEFINE d == read_dentry_by_name(name)
           u == FirstUnused
           new == [fops |-> d.type, file_pos |-> 0, flags |-> 1,
                   inode |-> IF d.type = "file" THEN d.inode ELSE 0]
<1>1. u \in Fds
  BY FirstUnusedIsUnused DEF open, CanOpen
<1>2. d.type \in Types /\ (d.type = "file" => d.inode \in DOMAIN Inodes)
  BY FoundEntry DEF open, CanOpen
<1>3. /\ file_desc' = [file_desc EXCEPT ![u] = new] /\ opened' = opened \cup {u}
      /\ got' = [got EXCEPT ![u] = << >>] /\ ended' = [ended EXCEPT ![u] = FALSE]
      /\ ret' = u /\ running' = running
  BY DEF open
<1>4. new \in Descriptor /\ (new.fops = "file" => new.inode \in DOMAIN Inodes) /\ new.file_pos = 0
  <2> HIDE DEF d
  <2> QED
    BY <1>2, Numbers DEF Descriptor
<1> HIDE DEF u, new, d
<1>5. /\ file_desc \in [Fds -> Descriptor] /\ got \in [Fds -> Seq(Nat)]
      /\ ended \in [Fds -> BOOLEAN] /\ opened \subseteq Fds /\ running \in BOOLEAN
  BY DEF PositionsInv, TypeOK, Descriptor
<1>6. /\ file_desc' \in [Fds -> Descriptor] /\ got' \in [Fds -> Seq(Nat)]
      /\ ended' \in [Fds -> BOOLEAN] /\ opened' \subseteq Fds /\ ret' \in Int
  BY <1>1, <1>3, <1>4, <1>5, Numbers
<1>7. TypeOK'
  BY <1>3, <1>5, <1>6 DEF TypeOK, Descriptor
<1>8. /\ file_desc'[u] = new /\ got'[u] = << >> /\ ended'[u] = FALSE
      /\ \A k \in Fds : k # u => /\ file_desc'[k] = file_desc[k]
                                 /\ got'[k] = got[k] /\ ended'[k] = ended[k]
  BY <1>1, <1>3, <1>5
<1>9. InodesKnown'
  BY <1>4, <1>8 DEF PositionsInv, InodesKnown, Fds
<1>10. ASSUME NEW k \in opened', file_desc'[k].fops = "file", Sound(file_desc'[k].inode)
       PROVE  LET c == Content(file_desc'[k].inode)
              IN  /\ file_desc'[k].file_pos <= Len(c)
                  /\ got'[k] = SubSeq(c, 1, file_desc'[k].file_pos)
                  /\ ended'[k] => got'[k] = c
  <2>1. CASE k = u
    <3> DEFINE c == Content(new.inode)
    <3>1. c \in Seq(Nat) /\ Len(c) \in Nat
      BY <1>4, <1>8, <1>10, <2>1, ContentTyped, LenProperties
    <3>2. /\ Content(file_desc'[k].inode) = c /\ file_desc'[k].file_pos = 0
          /\ got'[k] = << >> /\ ended'[k] = FALSE
      BY <1>4, <1>8, <2>1
    <3> HIDE DEF c
    <3>3. SubSeq(c, 1, 0) = << >>
      BY <3>1, SubSeqEmpty
    <3> QED
      BY <3>1, <3>2, <3>3
  <2>2. CASE k # u
    BY <1>3, <1>5, <1>8, <1>10, <2>2 DEF PositionsInv, ReadsConsecutive
  <2> QED
    BY <2>1, <2>2
<1>11. ReadsConsecutive'
  BY <1>10 DEF ReadsConsecutive
<1> QED
  BY <1>7, <1>9, <1>11

\* close: one less.
LEMMA ClosePositions ==
  ASSUME PositionsInv, NEW k, close(k)
  PROVE  (TypeOK /\ InodesKnown /\ ReadsConsecutive)'
<1>1. /\ k \in Fds /\ file_desc' = [file_desc EXCEPT ![k] = Unused] /\ opened' = opened \ {k}
      /\ running' = running /\ ret' = 0 /\ got' = got /\ ended' = ended
  BY DEF close, Closable
<1>2. Unused \in Descriptor
  BY Numbers DEF Unused, Descriptor
<1>3. file_desc \in [Fds -> Descriptor] /\ opened \subseteq Fds
  BY DEF PositionsInv, TypeOK, Descriptor
<1>4. file_desc' \in [Fds -> Descriptor]
  BY <1>1, <1>2, <1>3
<1>5. TypeOK'
  BY <1>1, <1>4 DEF PositionsInv, TypeOK, Descriptor
<1>6. file_desc'[k] = Unused /\ \A j \in Fds : j # k => file_desc'[j] = file_desc[j]
  BY <1>1, <1>3
<1>7. InodesKnown'
  BY <1>6 DEF PositionsInv, InodesKnown, Unused, Fds
<1>8. ReadsConsecutive'
  BY <1>1, <1>3, <1>6 DEF PositionsInv, ReadsConsecutive
<1> QED
  BY <1>5, <1>7, <1>8

\* What a step that leaves the descriptors and their histories alone may do is
\* set the return value.
LEMMA SamePositions ==
  ASSUME PositionsInv, UNCHANGED <<file_desc, opened, got, ended>>,
         running' = running \/ running' = FALSE, ret' = ret \/ ret' \in Int
  PROVE  (TypeOK /\ InodesKnown /\ ReadsConsecutive)'
<1>1. TypeOK'
  <2>1. running \in BOOLEAN
    BY DEF PositionsInv, TypeOK
  <2>2. running' \in BOOLEAN
    BY <2>1, Zenon
  <2>3. ret' \in Int
    BY DEF PositionsInv, TypeOK
  <2> QED
    BY <2>2, <2>3 DEF PositionsInv, TypeOK
<1>2. InodesKnown' /\ ReadsConsecutive'
  BY DEF PositionsInv, InodesKnown, ReadsConsecutive, Fds
<1> QED
  BY <1>1, <1>2

\* A read that returns some bytes and moves a position within a word.
LEMMA ReturnsTyped ==
  ASSUME PositionsInv, NEW k \in Fds, NEW pos \in 0 .. WORD - 1, NEW n,
         NEW bytes \in Seq(Nat), NEW more \in BOOLEAN,
         file_desc' = [file_desc EXCEPT ![k].file_pos = pos],
         got' = [got EXCEPT ![k] = @ \o bytes], ended' = [ended EXCEPT ![k] = more],
         ret' \in Int, UNCHANGED <<running, opened>>
  PROVE  /\ TypeOK' /\ InodesKnown'
         /\ file_desc'[k] = [file_desc[k] EXCEPT !.file_pos = pos]
         /\ file_desc'[k].fops = file_desc[k].fops /\ file_desc'[k].inode = file_desc[k].inode
         /\ file_desc'[k].file_pos = pos
         /\ got'[k] = got[k] \o bytes /\ ended'[k] = more
         /\ \A j \in Fds : j # k => /\ file_desc'[j] = file_desc[j]
                                    /\ got'[j] = got[j] /\ ended'[j] = ended[j]
<1>1. /\ file_desc \in [Fds -> Descriptor] /\ got \in [Fds -> Seq(Nat)]
      /\ ended \in [Fds -> BOOLEAN] /\ opened \subseteq Fds
  BY DEF PositionsInv, TypeOK, Descriptor
<1> DEFINE new == [file_desc[k] EXCEPT !.file_pos = pos]
<1>2. /\ new \in Descriptor /\ new.fops = file_desc[k].fops
      /\ new.inode = file_desc[k].inode /\ new.file_pos = pos
  BY <1>1 DEF Descriptor
<1>3. got[k] \o bytes \in Seq(Nat)
  BY <1>1, ConcatProperties
<1>4. file_desc' = [file_desc EXCEPT ![k] = new]
  BY <1>1
<1> HIDE DEF new
<1>5. /\ file_desc' \in [Fds -> Descriptor] /\ got' \in [Fds -> Seq(Nat)]
      /\ ended' \in [Fds -> BOOLEAN]
  BY <1>1, <1>2, <1>3, <1>4
<1>6. /\ file_desc'[k] = new /\ got'[k] = got[k] \o bytes /\ ended'[k] = more
      /\ \A j \in Fds : j # k => /\ file_desc'[j] = file_desc[j]
                                 /\ got'[j] = got[j] /\ ended'[j] = ended[j]
  BY <1>1, <1>4
<1>7. TypeOK'
  BY <1>5 DEF PositionsInv, TypeOK, Descriptor
<1>8. InodesKnown'
  BY <1>2, <1>6 DEF PositionsInv, InodesKnown, Fds
<1> QED
  BY <1>2, <1>6, <1>7, <1>8 DEF new

\* A file's read moves its descriptor by the bytes it returns.
LEMMA FileReadPositions ==
  ASSUME PositionsInv, NEW k \in Fds, NEW n \in Nat, running, InUse(k), file_read(k, n)
  PROVE  (TypeOK /\ InodesKnown /\ ReadsConsecutive)'
<1> DEFINE inode == file_desc[k].inode
           pos == file_desc[k].file_pos
           r == read_data(inode, pos, n)
           L == Inodes[inode].length
           c == Content(inode)
<1>1. /\ inode \in DOMAIN Inodes /\ pos \in 0 .. WORD - 1 /\ n \in Nat /\ L \in 0 .. WORD - 1
      /\ WORD \in Nat /\ WORD > 0 /\ file_desc[k].fops = "file" /\ pos \in Nat
      /\ got[k] \in Seq(Nat) /\ ended[k] \in BOOLEAN
  BY Numbers, FilesAssumption DEF file_read, PositionsInv, InodesKnown, TypeOK
<1>2. k \in opened
  <2>1. k # 0 /\ k # 1
    BY <1>1 DEF PositionsInv, DescriptorsInv, DescriptorsAreOpened, Stream
  <2>2. k >= 2
    BY <2>1, Numbers
  <2> QED
    BY <2>2 DEF PositionsInv, DescriptorsInv, DescriptorsAreOpened
<1>3. r \in Rounds
  <2> HIDE DEF inode, pos
  <2> QED
    BY <1>1, ReadTyped
<1>4. CASE r.bad
  <2> DEFINE to == (pos + ERROR) % WORD
             more == ended[k] \/ (ERROR = 0 /\ n > 0)
  <2>1. Returns(k, n, ERROR, << >>)
    BY <1>4 DEF file_read
  <2>2. /\ file_desc' = [file_desc EXCEPT ![k].file_pos = to]
        /\ got' = [got EXCEPT ![k] = @ \o << >>] /\ ended' = [ended EXCEPT ![k] = more]
        /\ ret' = ERROR /\ UNCHANGED <<running, opened>>
    BY <2>1 DEF Returns
  <2>3. to \in 0 .. WORD - 1 /\ more \in BOOLEAN /\ << >> \in Seq(Nat) /\ ERROR \in Int
    <3> HIDE DEF pos, inode
    <3>1. pos + ERROR \in Int /\ ERROR \in Int
      BY <1>1 DEF ERROR
    <3>2. to \in 0 .. WORD - 1
      BY <1>1, <3>1
    <3> QED
      BY <1>1, <3>1, <3>2
  <2> HIDE DEF to, more, r
  <2>4. /\ TypeOK' /\ InodesKnown'
        /\ file_desc'[k].fops = file_desc[k].fops /\ file_desc'[k].inode = file_desc[k].inode
        /\ \A j \in Fds : j # k => /\ file_desc'[j] = file_desc[j]
                                   /\ got'[j] = got[j] /\ ended'[j] = ended[j]
    BY <2>2, <2>3, ReturnsTyped
  <2>5. ~ Sound(inode)
    <3> SUFFICES ASSUME Sound(inode) PROVE FALSE
      OBVIOUS
    <3>1. pos \in 0 .. L
      <4>1. pos <= Len(c) /\ Len(c) = L
        BY <1>1, <1>2, ContentTyped DEF PositionsInv, ReadsConsecutive
      <4> QED
        BY <1>1, <4>1
    <3> HIDE DEF pos, inode
    <3> QED
      BY <1>1, <1>4, <3>1, ReadSound DEF r
  <2>6. ReadsConsecutive'
    BY <2>2, <2>4, <2>5 DEF PositionsInv, ReadsConsecutive, DescriptorsInv
  <2> QED
    BY <2>4, <2>6
<1>5. CASE ~ r.bad
  <2> DEFINE v == Len(r.bytes)
             to == (pos + v) % WORD
             more == ended[k] \/ (v = 0 /\ n > 0)
  <2>1. Returns(k, n, v, r.bytes)
    BY <1>5 DEF file_read
  <2>2. /\ file_desc' = [file_desc EXCEPT ![k].file_pos = to]
        /\ got' = [got EXCEPT ![k] = @ \o r.bytes] /\ ended' = [ended EXCEPT ![k] = more]
        /\ ret' = v /\ UNCHANGED <<running, opened>>
    BY <2>1 DEF Returns
  <2>3. r.bytes \in Seq(Nat) /\ v \in Nat
    <3> HIDE DEF r
    <3> QED
      BY <1>3 DEF Rounds
  <2>4. to \in 0 .. WORD - 1 /\ more \in BOOLEAN /\ v \in Int
    <3> HIDE DEF pos, inode, v
    <3>1. pos + v \in Int
      BY <1>1, <2>3
    <3>2. to \in 0 .. WORD - 1
      BY <1>1, <3>1
    <3> QED
      BY <1>1, <2>3, <3>2
  <2> HIDE DEF r, to, more, v
  <2>5. /\ TypeOK' /\ InodesKnown'
        /\ file_desc'[k].fops = file_desc[k].fops /\ file_desc'[k].inode = file_desc[k].inode
        /\ file_desc'[k].file_pos = to
        /\ got'[k] = got[k] \o r.bytes /\ ended'[k] = more
        /\ \A j \in Fds : j # k => /\ file_desc'[j] = file_desc[j]
                                   /\ got'[j] = got[j] /\ ended'[j] = ended[j]
    BY <2>2, <2>3, <2>4, ReturnsTyped
  <2>6. ASSUME Sound(inode)
        PROVE  /\ to <= Len(c)
               /\ got'[k] = SubSeq(c, 1, to)
               /\ more => got'[k] = c
    <3>1. /\ c \in Seq(Nat) /\ Len(c) = L
          /\ pos <= Len(c) /\ got[k] = SubSeq(c, 1, pos) /\ (ended[k] => got[k] = c)
      BY <1>1, <1>2, <2>6, ContentTyped DEF PositionsInv, ReadsConsecutive
    <3>2. /\ pos + v <= L
          /\ \A j \in 1 .. v : r.bytes[j] = c[pos + j]
          /\ n > 0 /\ v = 0 => pos = L
      <4>1. pos \in 0 .. L
        BY <1>1, <3>1
      <4> HIDE DEF pos, inode
      <4> QED
        BY <1>1, <2>6, <4>1, ReadSound DEF r, v
    <3> HIDE DEF pos, inode, L, c
    <3>3. to = pos + v
      <4>1. pos + v \in 0 .. WORD - 1 /\ WORD \in Nat
        BY <1>1, <2>3, <3>2
      <4> QED
        BY <4>1, SmallMod DEF to
    <3>4. Len(got[k]) = pos /\ \A j \in 1 .. pos : got[k][j] = c[j]
      BY <1>1, <3>1, SubSeqProperties
    <3>5. /\ SubSeq(c, 1, to) \in Seq(Nat) /\ Len(SubSeq(c, 1, to)) = to
          /\ \A j \in 1 .. to : SubSeq(c, 1, to)[j] = c[j]
      <4>1. \A j \in 1 .. to : c[j] \in Nat
        BY <1>1, <2>3, <3>1, <3>2, <3>3
      <4>2. to \in Nat
        BY <1>1, <2>3, <3>3
      <4> QED
        BY <4>1, <4>2, SubSeqProperties
    <3>6. /\ got'[k] \in Seq(Nat) /\ Len(got'[k]) = pos + v
          /\ \A j \in 1 .. pos + v : got'[k][j] = IF j <= pos THEN got[k][j] ELSE r.bytes[j - pos]
      <4>1. got'[k] = got[k] \o r.bytes /\ Len(r.bytes) = v
        BY <2>5 DEF v
      <4> DEFINE a == got[k]
                 b == r.bytes
                 g == got'[k]
      <4>2. a \in Seq(Nat) /\ b \in Seq(Nat) /\ Len(a) = pos /\ Len(b) = v /\ g = a \o b
        BY <1>1, <2>3, <3>4, <4>1
      <4> HIDE DEF a, b, g
      <4>3. /\ g \in Seq(Nat) /\ Len(g) = pos + v
            /\ \A j \in 1 .. pos + v : g[j] = IF j <= pos THEN a[j] ELSE b[j - pos]
        BY <4>2, ConcatProperties
      <4> QED
        BY <4>3 DEF a, b, g
    <3>7. \A j \in 1 .. to : got'[k][j] = c[j]
      <4> TAKE j \in 1 .. to
      <4>1. CASE j <= pos
        <5>1. j \in 1 .. pos /\ j \in 1 .. pos + v
          BY <1>1, <2>3, <3>3, <4>1
        <5> QED
          BY <3>4, <3>6, <4>1, <5>1
      <4>2. CASE ~ (j <= pos)
        <5>1. j - pos \in 1 .. v /\ j \in 1 .. pos + v /\ pos + (j - pos) = j
          BY <1>1, <2>3, <3>3, <4>2
        <5> QED
          BY <3>2, <3>6, <4>2, <5>1
      <4> QED
        BY <4>1, <4>2
    <3>8. got'[k] = SubSeq(c, 1, to)
      <4> DEFINE s == SubSeq(c, 1, to)
                 g == got'[k]
      <4>1. /\ s \in Seq(Nat) /\ g \in Seq(Nat)
            /\ Len(s) = Len(g) /\ \A j \in 1 .. Len(s) : s[j] = g[j]
        BY <3>3, <3>5, <3>6, <3>7
      <4> HIDE DEF s, g
      <4>2. s = g
        BY <4>1, SeqEqual
      <4> QED
        BY <4>2 DEF s, g
    <3>9. ASSUME more PROVE got'[k] = c
      <4>1. pos = L
        <5>1. CASE ended[k]
          BY <3>1, <3>4, <5>1
        <5>2. CASE ~ ended[k]
          BY <3>2, <3>9, <5>2, Zenon DEF more
        <5> QED
          BY <5>1, <5>2
      <4>2. to = Len(c)
        BY <1>1, <2>3, <3>1, <3>2, <3>3, <4>1
      <4> QED
        BY <3>1, <3>8, <4>2, SubSeqFull
    <3>10. to <= Len(c)
      BY <3>1, <3>2, <3>3
    <3> QED
      BY <3>8, <3>9, <3>10
  <2>7. ReadsConsecutive'
    <3>1. opened' = opened /\ opened \subseteq Fds
      BY <2>2 DEF PositionsInv, TypeOK
    <3>2. ASSUME NEW j \in opened', file_desc'[j].fops = "file", Sound(file_desc'[j].inode)
          PROVE  LET d == Content(file_desc'[j].inode)
                 IN  /\ file_desc'[j].file_pos <= Len(d)
                     /\ got'[j] = SubSeq(d, 1, file_desc'[j].file_pos)
                     /\ ended'[j] => got'[j] = d
      <4>1. CASE j = k
        <5>1. Content(file_desc'[j].inode) = c /\ file_desc'[j].file_pos = to /\ ended'[j] = more
          BY <2>5, <4>1
        <5>2. Sound(inode)
          BY <2>5, <3>2, <4>1
        <5> HIDE DEF c
        <5> QED
          BY <2>6, <4>1, <5>1, <5>2
      <4>2. CASE j # k
        BY <2>5, <3>1, <3>2, <4>2 DEF PositionsInv, ReadsConsecutive
      <4> QED
        BY <4>1, <4>2
    <3> QED
      BY <3>2 DEF ReadsConsecutive
  <2> QED
    BY <2>5, <2>7
<1> QED
  BY <1>4, <1>5

\* A directory's read is none of a file.
LEMMA DirReadPositions ==
  ASSUME PositionsInv, NEW k \in Fds, NEW n \in Nat, dir_read(k, n)
  PROVE  (TypeOK /\ InodesKnown /\ ReadsConsecutive)'
<1>1. /\ n \in Nat /\ file_desc[k].file_pos \in 0 .. WORD - 1
      /\ file_desc \in [Fds -> Descriptor]
  BY Numbers DEF PositionsInv, TypeOK, Descriptor
<1>2. PICK pos \in 0 .. WORD - 1 :
         /\ file_desc' = [file_desc EXCEPT ![k].file_pos = pos] /\ ret' \in Int
  <2>1. CASE file_desc[k].file_pos + n >= DirLength
    BY <2>1, Numbers DEF dir_read
  <2>2. CASE ~ (file_desc[k].file_pos + n >= DirLength)
    <3>1. file_desc[k].file_pos + n \in 0 .. WORD - 1
      BY <1>1, <2>2, Numbers
    <3> QED
      BY <1>1, <2>2, <3>1 DEF dir_read
  <2> QED
    BY <2>1, <2>2
<1>3. UNCHANGED <<running, opened, got, ended>> /\ file_desc[k].fops = "dir"
  BY DEF dir_read, history
<1> DEFINE new == [file_desc[k] EXCEPT !.file_pos = pos]
<1>4. new \in Descriptor /\ new.fops = "dir" /\ file_desc' = [file_desc EXCEPT ![k] = new]
  BY <1>1, <1>2, <1>3 DEF Descriptor
<1> HIDE DEF new
<1>5. /\ file_desc' \in [Fds -> Descriptor] /\ file_desc'[k] = new
      /\ \A j \in Fds : j # k => file_desc'[j] = file_desc[j]
  BY <1>1, <1>4
<1>6. TypeOK'
  BY <1>2, <1>3, <1>5 DEF PositionsInv, TypeOK, Descriptor
<1>7. InodesKnown'
  BY <1>4, <1>5 DEF PositionsInv, InodesKnown, Fds
<1>8. ReadsConsecutive'
  <2>1. opened \subseteq Fds
    BY DEF PositionsInv, TypeOK
  <2> QED
    BY <1>3, <1>4, <1>5, <2>1 DEF PositionsInv, ReadsConsecutive
<1> QED
  BY <1>6, <1>7, <1>8

\* A call that fails keeps the positions right, and so does a step of no call.
LEMMA FailsKeeps ==
  ASSUME PositionsInv, Fails \/ UNCHANGED vars
  PROVE  PositionsInv'
<1>1. /\ UNCHANGED <<running, file_desc, opened, got, ended>>
      /\ ret' = ret \/ ret' \in Int
  BY DEF Fails, ERROR, vars, history
<1>2. DescriptorsInv'
  BY <1>1, SameTable DEF PositionsInv
<1> QED
  BY <1>1, <1>2, SamePositions DEF PositionsInv

\* So do execute and halt,
LEMMA ExecuteKeeps ==
  ASSUME PositionsInv, execute
  PROVE  PositionsInv'
BY ExecuteStep, ExecutePositions DEF PositionsInv

LEMMA HaltKeeps ==
  ASSUME PositionsInv, halt
  PROVE  PositionsInv'
<1>1. DescriptorsInv'
  BY DEF halt, history, PositionsInv, DescriptorsInv, TableShape, DescriptorsAreOpened, Fds
<1> QED
  BY <1>1, SamePositions DEF halt, history, PositionsInv

\* an open of any name and a close of any number,
LEMMA OpenKeeps ==
  ASSUME PositionsInv, NEW name, open(name) \/ open_error(name)
  PROVE  PositionsInv'
<1>1. CASE open(name)
  BY <1>1, OpenStep, OpenPositions DEF PositionsInv
<1> QED
  BY <1>1, FailsKeeps DEF open_error

LEMMA CloseKeeps ==
  ASSUME PositionsInv, NEW k, close(k) \/ close_error(k)
  PROVE  PositionsInv'
<1>1. CASE close(k)
  BY <1>1, CloseStep, ClosePositions DEF PositionsInv
<1> QED
  BY <1>1, FailsKeeps DEF close_error

\* and a read or write of any descriptor.
LEMMA ReadKeeps ==
  ASSUME PositionsInv, NEW k, NEW n \in Nat, read(k, n)
  PROVE  PositionsInv'
<1>1. k \in Fds /\ running /\ InUse(k)
  BY DEF read, Readable
<1>2. DescriptorsInv'
  BY ReadStep DEF PositionsInv
<1>3. CASE file_read(k, n)
  BY <1>1, <1>2, <1>3, FileReadPositions DEF PositionsInv
<1>4. CASE dir_read(k, n)
  BY <1>1, <1>2, <1>4, DirReadPositions DEF PositionsInv
<1>5. CASE device_read(k, n)
  <2>1. UNCHANGED <<running, file_desc, opened, got, ended>> /\ ret' \in Int
    BY <1>5 DEF device_read, history
  <2> QED
    BY <1>2, <2>1, SamePositions DEF PositionsInv
<1> QED
  BY <1>3, <1>4, <1>5 DEF read

LEMMA WriteKeeps ==
  ASSUME PositionsInv, NEW k, NEW n \in Nat, write(k, n)
  PROVE  PositionsInv'
<1>1. UNCHANGED <<running, file_desc, opened, got, ended>> /\ ret' \in Int
  BY DEF write, history, ERROR
<1>2. DescriptorsInv'
  BY <1>1, SameTable DEF PositionsInv
<1> QED
  BY <1>1, <1>2, SamePositions DEF PositionsInv

\* What a read leaves: it adds to the history the bytes it returns, none if it
\* returns nothing, and a file's read of some bytes that returns 0 is noted.
LEMMA ReadResult ==
  ASSUME PositionsInv, NEW k, NEW n \in Nat, read(k, n)
  PROVE  /\ UNCHANGED <<running, opened>>
         /\ file_desc'[k].fops = file_desc[k].fops
         /\ file_desc'[k].inode = file_desc[k].inode
         /\ \E bytes \in Seq(Nat) : /\ got'[k] = got[k] \o bytes
                                    /\ Len(bytes) <= n
                                    /\ ~ (ret' > 0) => bytes = << >>
                                    /\ file_desc[k].fops # "file" => bytes = << >>
         /\ file_desc[k].fops = "file" /\ ret' = 0 /\ n > 0 => ended'[k]
<1>1. /\ k \in Fds /\ got[k] \in Seq(Nat) /\ << >> \in Seq(Nat)
      /\ file_desc \in [Fds -> Descriptor] /\ got[k] = got[k] \o << >>
      /\ Len(<< >>) <= n
  <2>1. k \in Fds /\ got[k] \in Seq(Nat) /\ file_desc \in [Fds -> Descriptor]
    BY DEF read, Readable, PositionsInv, TypeOK, Descriptor
  <2> QED
    BY <2>1
<1>2. CASE file_read(k, n)
  <2> DEFINE inode == file_desc[k].inode
             pos == file_desc[k].file_pos
             r == read_data(inode, pos, n)
             value == IF r.bad THEN ERROR ELSE Len(r.bytes)
             bytes == IF r.bad THEN << >> ELSE r.bytes
  <2>1. file_desc[k].fops = "file" /\ Returns(k, n, value, bytes)
    BY <1>2 DEF file_read
  <2>2. inode \in DOMAIN Inodes /\ pos \in Nat
    BY <1>1, <2>1, Numbers DEF PositionsInv, InodesKnown, Descriptor
  <2>3. r \in Rounds /\ Len(r.bytes) <= n
    <3> HIDE DEF inode, pos
    <3> QED
      BY <2>2, ReadTyped, ReadLength
  <2> HIDE DEF r
  <2>4. /\ bytes \in Seq(Nat) /\ value \in Int /\ Len(bytes) <= n
        /\ ~ (value > 0) => bytes = << >>
    <3>1. r.bytes \in Seq(Nat) /\ Len(<< >>) = 0 /\ (Len(r.bytes) = 0 => r.bytes = << >>)
      BY <2>3 DEF Rounds
    <3> QED
      BY <1>1, <2>3, <3>1 DEF ERROR
  <2> HIDE DEF value, bytes
  <2>5. /\ UNCHANGED <<running, opened>> /\ ret' = value
        /\ file_desc' = [file_desc EXCEPT ![k].file_pos = (@ + value) % WORD]
        /\ got' = [got EXCEPT ![k] = @ \o bytes]
        /\ ended' = [ended EXCEPT ![k] = @ \/ (value = 0 /\ n > 0)]
    BY <2>1 DEF Returns
  <2>6. got'[k] = got[k] \o bytes
    BY <1>1, <2>5 DEF PositionsInv, TypeOK
  <2>7. file_desc'[k].fops = file_desc[k].fops /\ file_desc'[k].inode = file_desc[k].inode
    BY <1>1, <2>5 DEF Descriptor
  <2>8. ended'[k] = (ended[k] \/ (value = 0 /\ n > 0))
    <3>1. DOMAIN ended = Fds
      BY DEF PositionsInv, TypeOK
    <3> QED
      BY <1>1, <2>5, <3>1, Zenon
  <2> QED
    BY <2>1, <2>4, <2>5, <2>6, <2>7, <2>8
<1>3. CASE dir_read(k, n)
  <2>1. /\ UNCHANGED <<running, opened, got, ended>> /\ file_desc[k].fops = "dir"
        /\ \E pos : file_desc' = [file_desc EXCEPT ![k].file_pos = pos]
    BY <1>3 DEF dir_read, history
  <2>2. file_desc'[k].fops = file_desc[k].fops /\ file_desc'[k].inode = file_desc[k].inode
    BY <1>1, <2>1 DEF Descriptor
  <2>3. \E bytes \in Seq(Nat) : got'[k] = got[k] \o bytes /\ Len(bytes) <= n /\ bytes = << >>
    BY <1>1, <2>1, Zenon
  <2> QED
    BY <2>1, <2>2, <2>3, Zenon
<1>4. CASE device_read(k, n)
  <2>1. /\ UNCHANGED <<running, file_desc, opened, got, ended>>
        /\ file_desc[k].fops # "file"
    BY <1>4 DEF device_read, history
  <2>2. \E bytes \in Seq(Nat) : got'[k] = got[k] \o bytes /\ Len(bytes) <= n /\ bytes = << >>
    BY <1>1, <2>1, Zenon
  <2>3. file_desc'[k].fops = file_desc[k].fops /\ file_desc'[k].inode = file_desc[k].inode
    BY <2>1, Zenon
  <2> QED
    BY <2>1, <2>2, <2>3, Zenon
<1> QED
  BY <1>2, <1>3, <1>4 DEF read

\* What a read of a sound file leaves: the bytes from the position on, as many as
\* were asked for unless the file ends, and the position moved behind them.
LEMMA SoundRead ==
  ASSUME PositionsInv, NEW k \in opened, NEW n \in Nat, running, read(k, n),
         file_desc[k].fops = "file", Sound(file_desc[k].inode)
  PROVE  LET c == Content(file_desc[k].inode)
             pos == file_desc[k].file_pos
         IN  /\ file_desc'[k].fops = "file" /\ file_desc'[k].inode = file_desc[k].inode
             /\ c \in Seq(Nat) /\ pos \in Nat
             /\ \E bytes \in Seq(Nat) :
                   /\ got'[k] = got[k] \o bytes /\ ret' = Len(bytes)
                   /\ file_desc'[k].file_pos = pos + Len(bytes)
                   /\ Len(bytes) <= n /\ pos + Len(bytes) <= Len(c)
                   /\ \A j \in 1 .. Len(bytes) : bytes[j] = c[pos + j]
                   /\ Len(bytes) < n => pos + Len(bytes) = Len(c)
<1> DEFINE inode == file_desc[k].inode
           pos == file_desc[k].file_pos
           r == read_data(inode, pos, n)
           L == Inodes[inode].length
           c == Content(inode)
<1>1. file_read(k, n)
  BY DEF read, dir_read, device_read
<1>2. /\ inode \in DOMAIN Inodes /\ pos \in 0 .. WORD - 1 /\ L \in 0 .. WORD - 1
      /\ WORD \in Nat /\ WORD > 0 /\ pos \in Nat /\ k \in Fds
      /\ file_desc \in [Fds -> Descriptor] /\ got \in [Fds -> Seq(Nat)] /\ Sound(inode)
  BY Numbers, FilesAssumption DEF PositionsInv, InodesKnown, TypeOK, Descriptor
<1>3. c \in Seq(Nat) /\ Len(c) = L /\ pos <= L
  <2>1. c \in Seq(Nat) /\ Len(c) = L
    <3> HIDE DEF inode
    <3> QED
      BY <1>2, ContentTyped
  <2>2. pos <= Len(c)
    BY DEF PositionsInv, ReadsConsecutive
  <2> QED
    BY <2>1, <2>2
<1> HIDE DEF c
<1>4. /\ ~ r.bad /\ r.bytes \in Seq(Nat) /\ pos + Len(r.bytes) <= L
      /\ \A j \in 1 .. Len(r.bytes) : r.bytes[j] = c[pos + j]
      /\ Len(r.bytes) < n => pos + Len(r.bytes) = L
  <2>1. pos \in 0 .. L
    BY <1>2, <1>3
  <2> HIDE DEF pos, inode
  <2> QED
    BY <1>2, <2>1, ReadSound DEF c
<1>5. Len(r.bytes) <= n
  <2> HIDE DEF pos, inode
  <2> QED
    BY <1>2, ReadLength
<1> DEFINE b == r.bytes
           v == Len(b)
<1>6. Returns(k, n, v, b)
  BY <1>1, <1>4 DEF file_read
<1>7. b \in Seq(Nat) /\ v \in Nat /\ pos + v \in 0 .. WORD - 1
  <2> HIDE DEF r, pos, L
  <2> QED
    BY <1>2, <1>4
<1> HIDE DEF r, v
<1>8. (pos + v) % WORD = pos + v
  <2> HIDE DEF pos
  <2> QED
    BY <1>2, <1>7, SmallMod
<1>9. /\ file_desc' = [file_desc EXCEPT ![k].file_pos = pos + v]
      /\ got'[k] = got[k] \o b /\ ret' = v
  BY <1>2, <1>6, <1>8 DEF Returns
<1>10. /\ file_desc'[k].fops = "file" /\ file_desc'[k].inode = inode
       /\ file_desc'[k].file_pos = pos + v
  BY <1>2, <1>9 DEF Descriptor
<1> DEFINE Is(x) == /\ got'[k] = got[k] \o x /\ ret' = Len(x)
                    /\ file_desc'[k].file_pos = pos + Len(x)
                    /\ Len(x) <= n /\ pos + Len(x) <= Len(c)
                    /\ \A j \in 1 .. Len(x) : x[j] = c[pos + j]
                    /\ Len(x) < n => pos + Len(x) = Len(c)
<1>11. Is(b)
  BY <1>3, <1>4, <1>5, <1>9, <1>10 DEF v
<1> HIDE DEF Is, b
<1>12. \E x \in Seq(Nat) : Is(x)
  BY <1>7, <1>11
<1> QED
  BY <1>2, <1>3, <1>10, <1>12 DEF Is, c

\* Every step keeps the positions right.
LEMMA PositionsStep ==
  ASSUME PositionsInv, [Next]_vars
  PROVE  PositionsInv'
<1>1. CASE execute
  BY <1>1, ExecuteKeeps
<1>2. CASE halt
  BY <1>2, HaltKeeps
<1>3. CASE argument_error
  BY <1>3, FailsKeeps DEF argument_error
<1>4. ASSUME NEW name \in FileNames, open(name) \/ open_error(name)
      PROVE  PositionsInv'
  BY <1>4, OpenKeeps
<1>5. ASSUME NEW k \in -1 .. MAX_FILE_NUM, close(k) \/ close_error(k)
      PROVE  PositionsInv'
  BY <1>5, CloseKeeps
<1>6. ASSUME NEW k \in -1 .. MAX_FILE_NUM, NEW n \in Counts, read(k, n) \/ write(k, n)
      PROVE  PositionsInv'
  BY <1>6, Numbers, ReadKeeps, WriteKeeps
<1>7. CASE UNCHANGED vars
  BY <1>7, FailsKeeps
<1> QED
  BY <1>1, <1>2, <1>3, <1>4, <1>5, <1>6, <1>7 DEF Next

\* The first state has no descriptors.
LEMMA PositionsInit ==
  ASSUME Init
  PROVE  PositionsInv
<1>1. Unused \in Descriptor
  BY Numbers DEF Unused, Descriptor
<1>2. TypeOK
  <2>1. running \in BOOLEAN /\ ended \in [Fds -> BOOLEAN] /\ opened \subseteq Fds
    BY DEF Init
  <2>2. file_desc \in [Fds -> Descriptor]
    BY <1>1 DEF Init
  <2>3. got \in [Fds -> Seq(Nat)] /\ ret \in Int
    BY DEF Init
  <2> QED
    BY <2>1, <2>2, <2>3 DEF TypeOK, Descriptor
<1>3. DescriptorsInv
  BY DEF Init, DescriptorsInv, TableShape, DescriptorsAreOpened, Unused, Fields
<1>4. InodesKnown /\ ReadsConsecutive
  BY DEF Init, InodesKnown, ReadsConsecutive, Unused
<1> QED
  BY <1>2, <1>3, <1>4 DEF PositionsInv

\* Reads of a file whose blocks are in the image return its bytes in order.
THEOREM ReadsConsecutiveHolds == Spec => []ReadsConsecutive
<1>1. PositionsInv => ReadsConsecutive
  BY DEF PositionsInv
<1> QED
  BY <1>1, PositionsInit, PositionsStep, PTL DEF Spec
=============================================================================
