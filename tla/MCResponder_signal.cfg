CONSTANTS
  NumQueues = 1
  Durations = {0}
  ZeroCopy = {1}
  MaxPackets = 1
  MaxSignals = 1
SPECIFICATION FairSpec
PROPERTIES SignalEnds
CHECK_DEADLOCK FALSE
