CONSTANTS
  Hosts = {c1, c2}
  LocalHosts = {c1}
  NumRuns = 2
SPECIFICATION FairSpec
INVARIANTS FreshIfServed RowsComplete
PROPERTIES Terminates
CHECK_DEADLOCK FALSE
