CONSTANTS
  FrameCount = 5
  RingSize = 2
  BatchSize = 2
  DefaultBatchSize = 2
  Modes = {"dns", "nxdomain", "count"}
  MaxArrivals <- MCMaxArrivals
  KernelGivesUp = {"dns"}
SPECIFICATION FairSpec
INVARIANTS OneOwner NoLeak RingsFit BooksBalance CleanExit OneResponsePerQuery
PROPERTIES StopTerminates SpinEnds FillReplenished LeaseSpec AnswersSent
CHECK_DEADLOCK FALSE
