SPECIFICATION PacedFairSpec
CONSTANTS
    NumTerminals = 2
    BufferSize = 2
    Chars = {"l", "x"}
    LChar = "l"
    Rows = {}
    RowLength = 1
    Requests = {1, 3}
INVARIANTS ReadOwnLine TailClear
PROPERTY ReadReturns
