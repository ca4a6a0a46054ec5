SPECIFICATION Spec
CONSTANTS
    Procs = {p1, p2}
    FNAME_SIZE = 2
    MAX_FILES = 6
    Names <- MCNames
    ReadSizes = {2}
INVARIANT ListedInOrder
