CONSTANTS
  TypesOrder <- MCTypesOrder
  Stored = {"A", "CNAME"}
  Weights <- MCWeights
  Sizes = {0, 1, 2, 3, 4, 5, 6, 7}
  FileSizes = {1, 2, 3}
  NumsIps = {2, 8}
SPECIFICATION Spec
INVARIANTS PartsExact QueriesAnswerable SharesKept
CHECK_DEADLOCK FALSE
