----------------------------- MODULE Directory -----------------------------
(***************************************************************************)
(* Listing the directory: dir_open and dir_read of fs.c.                   *)
(*                                                                         *)
(* dir_open writes the names of all files into one buffer, dir_buf, that   *)
(* every process's dir_read copies from.  The system calls run with        *)
(* interrupts on, so the loops of dir_open and dir_read of two processes   *)
(* interleave; a step is one call or one assignment to shared state.       *)
(***************************************************************************)
EXTENDS Integers, Sequences, FiniteSets, SequencesExt

CONSTANTS
    Procs,       \* processes that list the directory
    FNAME_SIZE,  \* bytes of a name, 32 in the code
    MAX_FILES,   \* names dir_buf has room for, 62 in the code
    Names,       \* the names in the boot block, each zero-padded to FNAME_SIZE
    ReadSizes    \* the nbytes dir_read is called with

\* Every name has a byte for every place, and the first one, ".", does not need
\* all of them.
NamesWellFormed ==
    /\ FNAME_SIZE \in Nat \ {0}
    /\ MAX_FILES \in Nat
    /\ Names \in Seq([1 .. FNAME_SIZE -> Nat]) /\ Names # << >>
    /\ \E k \in 1 .. FNAME_SIZE : Names[1][k] = 0
    /\ ReadSizes \subseteq Nat \ {0}

num_dentries == Len(Names)

\* dir_buf has room for the names themselves.
NamesFit == num_dentries <= MAX_FILES

MAX_BUF_SIZE == MAX_FILES * FNAME_SIZE
AllBytes == FlattenSeq(Names)

VARIABLES
    dir_buf,     \* [0 .. MAX_BUF_SIZE - 1 -> byte]
    dir_length,  \* bytes of it in use
    pc,          \* [p]: where the system call of p is
    i,           \* [p]: loop counter of dir_open, or of dir_read
    nbytes,      \* [p]: bytes dir_read was asked for
    end_of_file, \* [p]: local of dir_read
    file_pos,    \* [p]: position of its descriptor
    buf,         \* [p]: the user's buffer
    got,         \* history [p]: bytes the reads since its dir_open returned
    ended        \* history [p]: a read returned 0

shared == <<dir_buf, dir_length>>
locals == <<i, nbytes, end_of_file, buf>>
history == <<got, ended>>
vars == <<shared, pc, locals, file_pos, history>>

Opening == {"name", "fill", "grow"}
Reading == {"test", "copy"}

TypeOK ==
    /\ dir_buf \in [0 .. MAX_BUF_SIZE - 1 -> Nat]
    /\ dir_length \in 0 .. MAX_BUF_SIZE
    /\ pc \in [Procs -> Opening \cup Reading \cup {"closed", "idle"}]
    /\ i \in [Procs -> Nat]
    /\ nbytes \in [Procs -> ReadSizes \cup {0}]
    /\ end_of_file \in [Procs -> BOOLEAN]
    /\ file_pos \in [Procs -> 0 .. MAX_BUF_SIZE]
    /\ buf \in [Procs -> Seq(Nat)]
    /\ got \in [Procs -> Seq(Nat)]
    /\ ended \in [Procs -> BOOLEAN]

Init ==
    /\ dir_buf = [k \in 0 .. MAX_BUF_SIZE - 1 |-> 0]
    /\ dir_length = 0
    /\ pc = [p \in Procs |-> "closed"]
    /\ i = [p \in Procs |-> 0]
    /\ nbytes = [p \in Procs |-> 0]
    /\ end_of_file = [p \in Procs |-> FALSE]
    /\ file_pos = [p \in Procs |-> 0]
    /\ buf = [p \in Procs |-> << >>]
    /\ got = [p \in Procs |-> << >>]
    /\ ended = [p \in Procs |-> FALSE]

Goto(p, l) == pc' = [pc EXCEPT ![p] = l]

-----------------------------------------------------------------------------
(* dir_open *)

\* strlen(dir_buf).  The first name is ".", so a NUL is found at once.
FirstNameLength == CHOOSE n \in 0 .. MAX_BUF_SIZE - 1 :
                       dir_buf[n] = 0 /\ \A k \in 0 .. n - 1 : dir_buf[k] # 0

\* MUTANT of dir_open: dir_length goes on from the last listing.
dir_open_again(p) ==
    /\ pc[p] = "closed"
    /\ file_pos' = [file_pos EXCEPT ![p] = 0]
    /\ i' = [i EXCEPT ![p] = 0]
    /\ got' = [got EXCEPT ![p] = << >>]
    /\ ended' = [ended EXCEPT ![p] = FALSE]
    /\ Goto(p, "name")
    /\ UNCHANGED <<dir_buf, dir_length, nbytes, end_of_file, buf>>

\* dir_open up to its loop: the descriptor, and the buffer declared empty.
dir_open(p) ==
    /\ pc[p] = "closed"
    /\ file_pos' = [file_pos EXCEPT ![p] = 0]
    /\ dir_length' = 0
    /\ i' = [i EXCEPT ![p] = 0]
    /\ got' = [got EXCEPT ![p] = << >>]
    /\ ended' = [ended EXCEPT ![p] = FALSE]
    /\ Goto(p, "name")
    /\ UNCHANGED <<dir_buf, nbytes, end_of_file, buf>>

\* read_dentry_by_index and strncpy: the name goes where dir_length points.  The
\* strcpy in between copies a name without a NUL on into the entry's type, which
\* read_dentry_by_index sets next; dir_open uses FNAME_SIZE bytes of the name.
copy_name(p) ==
    /\ pc[p] = "name"
    /\ dir_buf' = [k \in DOMAIN dir_buf |->
                      IF k \in dir_length .. dir_length + FNAME_SIZE - 1
                      THEN Names[i[p] + 1][k - dir_length + 1]
                      ELSE dir_buf[k]]
    /\ Goto(p, "fill")
    /\ UNCHANGED <<dir_length, locals, file_pos, history>>

\* MUTANT of FillRange: from the start of the name just copied.
FillRange_at_name(p) ==
    dir_length + FirstNameLength .. dir_length + (i[p] + 1) * FNAME_SIZE - 1

\* MUTANT of FillRange: <= for < in the loop.
FillRange_one_more(p) ==
    dir_length + FNAME_SIZE + FirstNameLength
        .. dir_length + FNAME_SIZE + (i[p] + 1) * FNAME_SIZE

\* The bytes the inner loop of dir_open clears.
FillRange(p) ==
    dir_length + FNAME_SIZE + FirstNameLength
        .. dir_length + FNAME_SIZE + (i[p] + 1) * FNAME_SIZE - 1

\* What it clears behind dir_buf is other variables of the kernel, which are not
\* modelled; as the shipped image is linked dir_length and num_dentries, which
\* the listing goes by, lie in front of dir_buf.
fill(p) ==
    /\ pc[p] = "fill"
    /\ dir_buf' = [k \in DOMAIN dir_buf |-> IF k \in FillRange(p) THEN 0 ELSE dir_buf[k]]
    /\ Goto(p, "grow")
    /\ UNCHANGED <<dir_length, locals, file_pos, history>>

\* The end of a round of the loop, and of dir_open after the last name.
grow(p) ==
    /\ pc[p] = "grow"
    /\ dir_length' = dir_length + FNAME_SIZE
    /\ i' = [i EXCEPT ![p] = (@ + 1) % num_dentries]
    /\ Goto(p, IF i[p] + 1 < num_dentries THEN "name" ELSE "idle")
    /\ UNCHANGED <<dir_buf, nbytes, end_of_file, buf, file_pos, history>>

-----------------------------------------------------------------------------
(* dir_read *)

dir_read(p, n) ==
    /\ pc[p] = "idle"
    /\ nbytes' = [nbytes EXCEPT ![p] = n]
    /\ end_of_file' = [end_of_file EXCEPT ![p] = file_pos[p] >= dir_length]
    /\ i' = [i EXCEPT ![p] = 0]
    /\ buf' = [buf EXCEPT ![p] = << >>]
    /\ Goto(p, "copy")
    /\ UNCHANGED <<shared, file_pos, history>>

\* One byte; the test for the end of the file is a step of its own.
copy_byte(p) ==
    /\ pc[p] = "copy"
    /\ i[p] < nbytes[p] /\ ~end_of_file[p]
    /\ buf' = [buf EXCEPT ![p] = Append(@, dir_buf[file_pos[p] + i[p]])]
    /\ Goto(p, "test")
    /\ UNCHANGED <<shared, i, nbytes, end_of_file, file_pos, history>>

test_end(p) ==
    /\ pc[p] = "test"
    /\ end_of_file' = [end_of_file EXCEPT ![p] = file_pos[p] + i[p] + 1 >= dir_length]
    /\ i' = [i EXCEPT ![p] = @ + 1]
    /\ Goto(p, "copy")
    /\ UNCHANGED <<shared, nbytes, buf, file_pos, history>>

\* dir_read at the end of the file: position to the end, 0 returned.
return_end(p) ==
    /\ pc[p] = "copy"
    /\ end_of_file[p]
    /\ file_pos' = [file_pos EXCEPT ![p] = dir_length]
    /\ ended' = [ended EXCEPT ![p] = TRUE]
    /\ buf' = [buf EXCEPT ![p] = << >>]
    /\ i' = [i EXCEPT ![p] = 0]
    /\ nbytes' = [nbytes EXCEPT ![p] = 0]
    /\ end_of_file' = [end_of_file EXCEPT ![p] = FALSE]
    /\ Goto(p, "idle")
    /\ UNCHANGED <<shared, got>>

\* dir_read otherwise: nbytes bytes, whose number is returned.
return_bytes(p) ==
    /\ pc[p] = "copy"
    /\ i[p] = nbytes[p] /\ ~end_of_file[p]
    /\ file_pos' = [file_pos EXCEPT ![p] = @ + nbytes[p]]
    /\ got' = [got EXCEPT ![p] = @ \o buf[p]]
    /\ buf' = [buf EXCEPT ![p] = << >>]
    /\ i' = [i EXCEPT ![p] = 0]
    /\ nbytes' = [nbytes EXCEPT ![p] = 0]
    /\ Goto(p, "idle")
    /\ UNCHANGED <<shared, end_of_file, ended>>

dir_close(p) ==
    /\ pc[p] = "idle"
    /\ file_pos' = [file_pos EXCEPT ![p] = 0]
    /\ Goto(p, "closed")
    /\ UNCHANGED <<shared, locals, history>>

-----------------------------------------------------------------------------
Continues(p) ==
    \/ copy_name(p) \/ fill(p) \/ grow(p)
    \/ copy_byte(p) \/ test_end(p) \/ return_end(p) \/ return_bytes(p)

Next == \E p \in Procs :
            \/ dir_open(p)
            \/ \E n \in ReadSizes : dir_read(p, n)
            \/ dir_close(p)
            \/ Continues(p)

Spec == Init /\ [][Next]_vars

\* Processes none of which calls dir_open while another is inside dir_open or
\* dir_read.  Reads still overlap, and a listing may be under way on one
\* descriptor when the directory is opened on another.
NobodyOpening == \A q \in Procs : pc[q] \notin Opening
NobodyReading == \A q \in Procs : pc[q] \notin Reading

SerialNext == \E p \in Procs :
                  \/ dir_open(p) /\ NobodyOpening /\ NobodyReading
                  \/ \E n \in ReadSizes : dir_read(p, n) /\ NobodyOpening
                  \/ dir_close(p)
                  \/ Continues(p)

SerialSpec == Init /\ [][SerialNext]_vars

-----------------------------------------------------------------------------
\* What the reads of a listing have returned so far is the beginning of the
\* list of names, and the descriptor's position is where the next read goes on.
\* When a read has returned 0, no more is missing than that read asked for.
ListedInOrder ==
    \A p \in Procs :
        /\ IsPrefix(got[p], AllBytes)
        /\ pc[p] = "idle" /\ ~ended[p] => file_pos[p] = Len(got[p])
        /\ ended[p] => \E n \in ReadSizes : Len(got[p]) + n >= Len(AllBytes)

\* dir_open leaves dir_buf in just those rounds of its loop that are past half of
\* the names there is room for: it clears as many places behind the names it has
\* copied as they have, not only the rest of the last one's.
FitsUpToHalf ==
    \A p \in Procs :
        pc[p] = "fill" => (FillRange(p) \subseteq DOMAIN dir_buf <=> 2 * (i[p] + 1) <= MAX_FILES)
=============================================================================
