SPECIFICATION Spec
CONSTANTS
  MaxDepth = 3
  MaxLevel = 3
  MaxFpLevel = 1
INVARIANT FramesOutward
INVARIANT CallerAttributed
INVARIANT CompleteUnwind
INVARIANT FrameBudget
INVARIANT RepeatsCut
CHECK_DEADLOCK FALSE
