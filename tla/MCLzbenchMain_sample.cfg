SPECIFICATION Spec
CONSTANTS
  Params <- LimitedSample
  PadSize = 1
  ExpandDiv = 6
  Files = 1
  MaxSize = 7
  MaxChanges = 0
INVARIANTS ReadsWithinLimit
