CONSTANTS
  Cpus = {c1, c2}
  Roles = {"server", "client"}
  NumQueries = 2
  RingSize = 2
  Durations = {0, 1}
SPECIFICATION FairSpec
INVARIANTS EachEventOnce CausalOrder
PROPERTY CaptureEnds
CHECK_DEADLOCK FALSE
