SPECIFICATION FairSpec
CONSTANTS
  Threads = {0, 1, 2}
  SLOT_SIZE = 2
  Index <- MCIndex
  StoreBuffers = FALSE
INVARIANTS MutualExclusion SlotOwnership
PROPERTIES ImplementsSharedMutex RevocationEnds
