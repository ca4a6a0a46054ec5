SPECIFICATION SerialSpec
CONSTANTS
    Procs = {p1, p2}
    Frequencies = {8, 260, 512}
INVARIANT RateHonoured
