---------------------------- MODULE MCFileSystem ----------------------------
(* Instances for TLC of Files, Directory, Programs, Command and StringCalls. *)
(* They are about one process each, or one routine; a behaviour is one of    *)
(* them, and part says of which.  Programs extends Files, so both are about  *)
(* one descriptor table and one image; the others are instances and share no *)
(* state.                                                                    *)
EXTENDS Programs

VARIABLES
    part,
    dir_buf, dir_length, dir_pc, dir_i, nbytes, end_of_file, file_pos, dir_to, dir_got,
    dir_ended,
    shell, buf, argument_buffer, argument_buffer_size, args, getargs_ret, asked, message, outcome,
    mem, before, call, result

listing == <<dir_buf, dir_length, dir_pc, dir_i, nbytes, end_of_file, file_pos, dir_to, dir_got,
             dir_ended>>
command == <<shell, buf, argument_buffer, argument_buffer_size, args, getargs_ret, asked,
             message, outcome>>
library == <<mem, before, call, result>>
all == <<part, programVars, listing, command, library>>

-----------------------------------------------------------------------------
(* The image: every text of at most five bytes that are a newline or a       *)
(* letter, a file over three blocks that are not in order, one whose first   *)
(* block number is not of the image.  Text k has the binary digits of k, but *)
(* for the first, from the lowest on.                                        *)
CONSTANT TextCount

Bits(k) == LET bits == LowFirst(k, 2)
           IN  SubSeq([j \in DOMAIN bits |-> bits[j] - Digit(0)], 1, Len(bits) - 1)
BitAt(k, j) == IF j \in DOMAIN Bits(k) THEN Bits(k)[j] ELSE 0
BlocksOf(k) ==
    LET n == (Len(Bits(k)) + 1) \div 2
    IN  SubSeq([b \in 1 .. n |-> 2 * BitAt(k, 2 * b - 1) + BitAt(k, 2 * b)], 1, n)

Entry(name, type, inode) == [name |-> name, type |-> type, inode |-> inode]
ImageDentries ==
    << Entry(".", "dir", 0), Entry("rtc", "rtc", 0), Entry("frame", "file", TextCount + 1),
       Entry(".rc", "file", TextCount + 1) >>
        \o SubSeq([k \in 1 .. TextCount |-> Entry(ToString(k), "file", k)], 1, TextCount)
        \o << Entry("damaged", "file", TextCount + 2) >>
ImageInodes ==
    SubSeq([k \in 1 .. TextCount |-> [length |-> Len(Bits(k)), blocks |-> BlocksOf(k)]],
           1, TextCount)
        \o << [length |-> 5, blocks |-> <<6, 4, 5>>], [length |-> 3, blocks |-> <<7, 0>>] >>
MCBlocks == LET byte(bit) == IF bit = 0 THEN NL ELSE 97
            IN  [b \in 0 .. 6 |-> IF b < 4 THEN <<byte(b \div 2), byte(b % 2)>>
                                  ELSE <<2 * b, 2 * b + 1>>]

\* TLC evaluates what these refer to once, and themselves wherever they are used.
MCDentries == ImageDentries
MCInodes == ImageInodes
MCDirLength == Len(ImageDentries) * FNAME_SIZE
MCUserFiles == {ToString(k) : k \in 1 .. TextCount} \cup {".", "frame", "damaged", "absent"}
MCPatterns == {<<97>>, <<97, 97>>}

(* Directory: three names of two bytes, zero-padded; the first is one byte   *)
(* long, as "." is, the second fills its two bytes.  The buffer has room for *)
(* four, so the third round of dir_open leaves it.                           *)
CONSTANTS Procs, MAX_FILES, Names, ReadSizes

MCNames == << <<1, 0>>, <<2, 3>>, <<4, 0>> >>

Listing == INSTANCE Directory WITH pc <- dir_pc, i <- dir_i, buf <- dir_to, got <- dir_got,
               ended <- dir_ended

(* Command: lines of two letters and a blank, up to one character longer     *)
(* than the buffers: short ones, and long ones that have arguments.          *)
CONSTANTS MAX_BUFFER_SIZE, Letters, Executables, Exit, Lines, ArgSizes, Statuses

MCExecutables == {<<"a">>, <<"a", "b">>}
MCExit == <<"b">>
Typed == UNION {[1 .. n -> {"a", "b", " "}] : n \in 0 .. 6}
MCLines == {l \in Typed : Len(l) <= 3 \/ SubSeq(l, 1, 2) = <<"a", " ">>}
MCStatuses == {-1, 0, 3, 256}

Shell == INSTANCE Command WITH at <- shell, ret <- getargs_ret, ended <- outcome

(* StringCalls: memories of ten bytes, all different or with two equal       *)
(* strings; each conversion of each number, and several in one format.       *)
CONSTANTS Memories, Fills, Formats

Memory(nuls) == [k \in 0 .. 9 |-> IF k \in nuls THEN 0 ELSE k + 200]
Repeating == [k \in 0 .. 9 |-> IF k \in {2, 5, 9} THEN 0 ELSE 65 + (k % 3)]

Piece(kind, arg) == [kind |-> kind, arg |-> arg]
Kinds == {"x", "padded", "u", "d", "c"}

MCMemories == {Memory({9}), Memory({4, 9}), Repeating}
MCFormats == {<<Piece(k, v)>> : k \in Kinds, v \in 0 .. UINT - 1} \cup
             {<<Piece(k, 255), Piece("copy", 120), Piece("percent", 0),
                Piece("s", 3), Piece(j, 128)>> : k \in Kinds, j \in Kinds}

Library == INSTANCE StringCalls

\* The directory's first name is one byte long and padded, there is room for all
\* names, a shell's buffers are not empty, every string in a memory ends: what
\* the instances must satisfy.
ASSUME InstancesAssumption ==
    /\ Listing!NamesWellFormed /\ Listing!NamesFit
    /\ Shell!CommandWellFormed /\ Library!MemoriesWellFormed /\ Library!FormatsWellFormed

-----------------------------------------------------------------------------
FileSystemInit ==
    /\ part \in {"files", "listing", "session", "command", "library"}
    /\ ProgramsInit /\ Listing!Init /\ Shell!Init /\ Library!Init
    /\ part # "library" => mem = Repeating

FileSystemNext ==
    \/ part = "files" /\ Next /\ UNCHANGED <<part, locals, listing, command, library>>
    \/ part = "session" /\ ProgramsNext /\ UNCHANGED <<part, listing, command, library>>
    \/ part = "listing" /\ Listing!SerialNext /\ UNCHANGED <<part, programVars, command, library>>
    \/ part = "command" /\ Shell!Next /\ UNCHANGED <<part, programVars, listing, library>>
    \/ part = "library" /\ Library!Next /\ UNCHANGED <<part, programVars, listing, command>>

FileSystemSpec == FileSystemInit /\ [][FileSystemNext]_all

-----------------------------------------------------------------------------
\* The types of the states of all five.
TypesOK ==
    CASE part = "files" -> TypeOK
      [] part = "listing" -> Listing!TypeOK
      [] part = "session" -> TypeOK /\ SearchOK
      [] part = "command" -> Shell!TypeOK
      [] part = "library" -> Library!TypeOK

\* See Directory: a listing is the list of names from its beginning, and
\* dir_open stays inside its buffer for half the names it has room for, no more.
ListedInOrder == part = "listing" => Listing!ListedInOrder
FitsUpToHalf == part = "listing" => Listing!FitsUpToHalf

\* See Command: a program gets what was typed after its name, if it fits, and only
\* a command that is missing is reported missing.
ArgumentsArrive == part = "command" => Shell!ArgumentsArrive
MissingReported == Shell!MissingReported

\* See StringCalls: writes go where they should, comparisons tell equal strings
\* from others, printf shows numbers with their values.
WritesExactly == part = "library" => Library!WritesExactly
ComparesAsStrings == part = "library" => Library!ComparesAsStrings
FormatsInOrder == part = "library" => Library!FormatsInOrder
=============================================================================
