SPECIFICATION DevicesSpec
CONSTANTS
    SCREEN_W = 2
    SCREEN_H = 2
    NUM_TERMINALS = 2
    Movements <- MCMovements
    Scancode = 30
    Configuration = 97
    Procs = {p1, p2}
    Frequencies = {3, 8, 260, 512}
INVARIANTS
    TypesOK
    PacketsInStep
    PointerFollows
    LineOpen
    RateHonoured
    StoreHitsRegister
PROPERTIES
    DrawsSelection
    BytesTaken
    ReadReturns
CHECK_DEADLOCK FALSE
