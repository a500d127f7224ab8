SPECIFICATION Spec
CONSTANTS
  PadSize = 1
  ExpandDiv = 2
  Files = 3
  MaxSize = 2
  MaxChanges = 2
INVARIANTS TypeOK JoinedFits CutAtFiles NoneLeftOut EarlyOutExplained
