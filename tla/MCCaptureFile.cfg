CONSTANTS
  Cpus = {c1, c2}
  Roles = {"server", "client"}
  NumQueries = 2
  RingSize = 2
  Durations = {0, 1}
  RecordWords = 8
SPECIFICATION Spec
INVARIANT RecordsRead
CHECK_DEADLOCK FALSE
