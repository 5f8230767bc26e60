CONSTANTS
  NumQueues = 2
  Records = {1, 2}
  WorkerFns = {"dns", "nxdomain", "count"}
  MaxClock = 3
  MaxPackets = 3
  Capacity = 1
  AllocFails = TRUE
SPECIFICATION LogSpec
INVARIANTS MergeExact WindowExact
CHECK_DEADLOCK FALSE
