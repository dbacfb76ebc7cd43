SPECIFICATION FairSpec
CONSTANTS
  BYTE = 4
  SZ = 2
  PageSize = 4
  Bias = 3
  DW_EVAL_STACK_SIZE = 5
  DW_EVAL_STEPS_MAX = 14
  Infos <- MCInfos
  Wants <- MCWants
INVARIANT TypeOK
INVARIANT ValueExact
INVARIANT ReasonExact
INVARIANT SnapshotReads
PROPERTY GenRegReturns
