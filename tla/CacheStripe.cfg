SPECIFICATION FairSpec
CONSTANTS
  STRIPE_LEN = 4
  AGG_SIZE = 4
  Sizes <- MCSizes
  BACKLOG = 1
  Readers = {r1}
  NoDoc = NoDoc
  MaxWriters = 3
  MaxFailed = 0
INVARIANTS TypeOK EntriesLead ReadsIntact CopyOnDisk
PROPERTIES WritersServed SyncServed
