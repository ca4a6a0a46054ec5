SPECIFICATION FileSystemSpec
CONSTANTS
    MAX_FILE_NUM = 5
    WORD = 256
    BLOCK_SIZE = 2
    Dentries <- MCDentries
    Inodes <- MCInodes
    Blocks <- MCBlocks
    DirLength <- MCDirLength
    FileNames = {"frame", "rtc", "damaged", "absent"}
    Counts = {0, 1, 2, 3}
    Procs = {p1, p2}
    FNAME_SIZE = 2
    MAX_FILES = 4
    Names <- MCNames
    ReadSizes = {2, 3}
    TextCount = 63
    BUFSIZE = 4
    UserFiles <- MCUserFiles
    DotNames = {".", ".rc"}
    Patterns <- MCPatterns
    Residues = {0, 10, 97}
    UINT = 256
    HEX_DIGITS = 2
    MAX_BUFFER_SIZE = 5
    Letters = {"a", "b"}
    Executables <- MCExecutables
    Exit <- MCExit
    Lines <- MCLines
    ArgSizes = {1, 3, 7}
    Statuses <- MCStatuses
    Memories <- MCMemories
    Fills = {0, 77, 513}
    Formats <- MCFormats
INVARIANTS
    TypesOK
    DescriptorsAreOpened
    ReadsConsecutive
    ListedInOrder
    FitsUpToHalf
    PrintsWhole
    LinesFound
    SelfTestsPass
    ArgumentsArrive
    WritesExactly
    ComparesAsStrings
    FormatsInOrder
PROPERTY MissingReported
