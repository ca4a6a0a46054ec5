SPECIFICATION UnreadSpec
CONSTANTS
    NumTerminals = 2
    BufferSize = 1
    Chars = {"l", "x"}
    LChar = "l"
    Rows = {}
    RowLength = 1
    Requests = {2}
INVARIANT ReadOwnLine
