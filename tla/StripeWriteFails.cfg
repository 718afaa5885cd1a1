SPECIFICATION SpecFailing
CONSTANTS
  STRIPE_LEN = 4
  AGG_SIZE = 4
  Sizes <- MCSizes
  BACKLOG = 1
  Readers = {r1}
  NoDoc = NoDoc
  MaxWriters = 3
  MaxFailed = 1
INVARIANTS FailedAreGone
