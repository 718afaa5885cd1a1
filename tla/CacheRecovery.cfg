SPECIFICATION Spec
CONSTANTS
  START = 2
  STRIPE_LEN = 10
  AGG_SIZE = 2
  Batches <- MCBatches
  Situations = {"readError"}
  MaxSerial = 6
  MaxSync = 3
  MaxCrash = 1
INVARIANTS EntriesIntact
PROPERTIES SyncedSurvives RecoveryEnds
CHECK_DEADLOCK FALSE
