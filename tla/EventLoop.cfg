CONSTANTS
  Events = {e1}
  Others = {r1}
  None = none
  N_PQ_LIST = 3
  BucketTime = 2
  Delays = {2, 5}
  Poll <- MCPoll
  Handlers = {"net", "default"}
  DELAY_FOR_RETRY = 3
  Heartbeat = 3
  MaxSched = 3
  MaxStall = 1
SPECIFICATION FairSpec
INVARIANTS OnePlace TimersOnTime NetWoken
PROPERTIES CancelledNotCalled AllCalled
