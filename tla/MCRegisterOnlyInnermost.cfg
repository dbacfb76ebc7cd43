SPECIFICATION Spec
CONSTANTS
  MaxDepth = 3
  MaxLevel = 2
  MaxFpLevel = 2
INVARIANT RegisterOnlyInnermost
CHECK_DEADLOCK FALSE
