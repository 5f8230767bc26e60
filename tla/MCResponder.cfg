CONSTANTS
  NumQueues = 2
  Durations = {0, 2}
  ZeroCopy = {0, 1, 2}
  MaxPackets = 2
  MaxSignals = 2
SPECIFICATION FairSpec
INVARIANTS WorkersOwnLiveQueues ReportIsFinal NothingLeftBehind ZeroCopyHonoured
PROPERTIES ProcessEnds
CHECK_DEADLOCK FALSE
