SPECIFICATION FairCalmSpec
CONSTANTS
  NumTerminals = 3
  MaxNumProg = 3
  Statuses = {7}
  NULL = NULL
  Lost = Lost
INVARIANTS
  TypeOK
  MappedPageReserved
  AddressSpace
  RunQueue
  NoLeak
  NoWaitCycle
PROPERTIES
  BackgroundOffScreen
  ExecuteReturns
  ImplementsSessions
  EveryTerminalRuns
