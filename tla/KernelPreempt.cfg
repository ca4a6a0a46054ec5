SPECIFICATION PreemptSpec
CONSTANTS
  NumTerminals = 2
  MaxNumProg = 3
  Statuses = {7}
  NULL = NULL
  Lost = Lost
CHECK_DEADLOCK FALSE
INVARIANTS
  NoLeak
