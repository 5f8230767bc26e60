CONSTANTS
  NumQueues = 2
  Records = {1}
  WorkerFns = {"dns"}
  MaxClock = 2
  MaxPackets = 1
  Capacity = 1
  AllocFails = FALSE
SPECIFICATION LogSpec
INVARIANT IdleQueueIgnored
CHECK_DEADLOCK FALSE
