CONSTANTS
  Threads = {t1, t2}
  Flusher = flusher
  Addrs = {1, 2, 3}
  Alloc <- MCAlloc
  None = 0
  Size = 2
  EntrySizes = {1, 2, 3}
  Formats = {"ascii", "binary"}
  FLUSH_ARRAY_SIZE = 1
  EntriesMod = 4
  MaxLog = 1
SPECIFICATION FairSpec
INVARIANTS TypeOK UsersKeepBuffers RoomIsOwn OneReplaces EntriesOnce QueueCounted
PROPERTY AllFlushed
