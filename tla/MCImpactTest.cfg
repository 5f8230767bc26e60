CONSTANTS
  NumClients = 2
  Runtime = 3
  Margins = {0, 1}
  Extra = 1
  Grace = 1
  Skew = 1
SPECIFICATION TestSpec
INVARIANTS SamplesFromLoad RowsWhole
PROPERTY PatienceEnough
CHECK_DEADLOCK FALSE
