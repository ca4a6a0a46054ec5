SPECIFICATION FairSpec
CONSTANTS
    NumTerminals = 1
    BufferSize = 2
    Chars = {"l"}
    LChar = "l"
    Rows = {"row"}
    RowLength = 2
    Requests = {1, 3}
PROPERTY ReadReturns
INVARIANT TypeOK
