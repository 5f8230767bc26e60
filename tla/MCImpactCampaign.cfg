CONSTANTS
  NumServices = 3
  NumTests = 2
  ClearCache = {TRUE, FALSE}
  Restarting = {1, 3}
  StopFailures = TRUE
SPECIFICATION FairSpec
INVARIANTS MeasuresNamedService EveryTestAccounted StoppedAfterTests
PROPERTIES Terminates
CHECK_DEADLOCK FALSE
