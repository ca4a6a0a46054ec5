------------------------------- MODULE Image -------------------------------
(***************************************************************************)
(* The file system image in memory and how fs.c reads it: names in the     *)
(* boot block, inodes, data blocks.  The image does not change; modules    *)
(* Files and Programs are about those who read it.                         *)
(***************************************************************************)
EXTENDS Integers, Sequences

CONSTANTS
    MAX_FILE_NUM,     \* descriptors of a process, 8 in the code
    WORD,             \* file_pos is an unsigned number below this, 2^32 in the code
    BLOCK_SIZE,       \* 4096 in the code
    Dentries,         \* boot block: sequence of [name, type, inode]
    Inodes,           \* [inode number -> [length, blocks]]
    Blocks,           \* [data block number -> sequence of BLOCK_SIZE bytes]
    DirLength,        \* bytes of the list of names, dir_length after dir_open
    FileNames,        \* the names programs open
    Counts            \* the nbytes programs read

ERROR == -1
Types == {"rtc", "dir", "file", "terminal"}

ASSUME FilesAssumption ==
    /\ MAX_FILE_NUM \in Nat /\ MAX_FILE_NUM >= 2
    /\ WORD \in Nat \ {0} /\ BLOCK_SIZE \in Nat \ {0}
    /\ Dentries \in Seq([name : STRING, type : Types, inode : Nat])
    /\ \A k \in DOMAIN Dentries :
           Dentries[k].type = "file" => Dentries[k].inode \in DOMAIN Inodes
    /\ \A n \in DOMAIN Inodes : /\ Inodes[n].length \in 0 .. WORD - 1
                                /\ Inodes[n].blocks \in Seq(Nat)
                                /\ Inodes[n].length <= BLOCK_SIZE * Len(Inodes[n].blocks)
    /\ \A b \in DOMAIN Blocks : Blocks[b] \in [1 .. BLOCK_SIZE -> Nat]
    /\ DirLength \in 0 .. WORD - 1
    /\ Counts \subseteq 0 .. WORD - 1

-----------------------------------------------------------------------------
Found(name) == \E k \in DOMAIN Dentries : Dentries[k].name = name

\* read_dentry_by_name: the first entry of that name.
read_dentry_by_name(name) ==
    Dentries[CHOOSE k \in DOMAIN Dentries :
                 Dentries[k].name = name /\ \A j \in 1 .. k - 1 : Dentries[j].name # name]

\* MUTANT of BlockOf: blocks are counted from the end of the one before.
BlockOf_late(n, at) == Inodes[n].blocks[IF at = 0 THEN 1 ELSE (at - 1) \div BLOCK_SIZE + 1]

\* The data block the byte at this offset is in.
BlockOf(n, at) == Inodes[n].blocks[at \div BLOCK_SIZE + 1]

\* read_data: its loop, round by round, until the end of the file, of the
\* buffer, or a block number that is not of the image.  It clears the whole
\* buffer first, which module Programs does where a program looks at it; it
\* also refuses an inode that is not of the image, which no entry has.
read_data(n, offset, length) ==
    LET rounds[k \in 0 .. length] ==
            IF k = 0
            THEN [bytes |-> << >>, bad |-> FALSE, end_of_file |-> offset >= Inodes[n].length]
            ELSE LET r == rounds[k - 1]
                     at == offset + k - 1
                 IN  IF r.bad \/ r.end_of_file THEN r
                     ELSE IF BlockOf(n, at) \notin DOMAIN Blocks THEN [r EXCEPT !.bad = TRUE]
                     ELSE [bytes |-> Append(r.bytes, Blocks[BlockOf(n, at)][(at % BLOCK_SIZE) + 1]),
                           bad |-> FALSE,
                           end_of_file |-> at + 1 >= Inodes[n].length]
    IN  rounds[length]

-----------------------------------------------------------------------------
\* The bytes of a file, and whether all its blocks are in the image.
Content(n) == [k \in 1 .. Inodes[n].length |->
                  Blocks[Inodes[n].blocks[(k - 1) \div BLOCK_SIZE + 1]][((k - 1) % BLOCK_SIZE) + 1]]

Sound(n) == \A k \in 1 .. Len(Inodes[n].blocks) : Inodes[n].blocks[k] \in DOMAIN Blocks
=============================================================================
