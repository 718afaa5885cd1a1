CONSTANTS
  Chunks = 1
  Contents <- MCTwo
  Empty = 0
  Torn = Torn
  None = None
  Repairs <- MCTwoRepairs
  Situations = {"writeError", "lateShutdown"}
  MaxSerial = 3
SPECIFICATION Spec
INVARIANTS SyncWins
CHECK_DEADLOCK FALSE
