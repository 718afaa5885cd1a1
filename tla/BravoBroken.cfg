SPECIFICATION SpecBuffered
CONSTANTS
  Threads = {0, 1, 2}
  SLOT_SIZE = 2
  Index <- MCIndex
  StoreBuffers = TRUE
INVARIANT MutualExclusion

