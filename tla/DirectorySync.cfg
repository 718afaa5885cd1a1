CONSTANTS
  Chunks = 1
  Contents <- MCContents
  Empty = 0
  Torn = Torn
  None = None
  Repairs <- MCRepairs
  Situations = {}
  MaxSerial = 4
SPECIFICATION Spec
INVARIANTS WholeCopy KeepsCopy
PROPERTIES ImplementsStore
CHECK_DEADLOCK FALSE
