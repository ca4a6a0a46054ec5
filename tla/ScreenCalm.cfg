SPECIFICATION CalmSpec
CONSTANTS
    NumTerminals = 2
    NUM_ROWS = 2
    NUM_COLS = 2
    PAGE = 5
    BufferSize = 2
    Chars = {"a", "!"}
    Newline = "nl"
    Blank = " "
    FaultText <- MCFaultText
INVARIANTS TypeOK Mirror Faithful
