SPECIFICATION FairSpec
CONSTANTS
  Params <- Ending
  LoopTime = 2
  Size = 4
  PreSize = 2
  Precision = 1
  MaxCall = 1
  MaxGap = 1
  MaxQuick = 1
  MaxSleep = 1
  MaxCalls = 10
  MaxTests = 2
  Lossless = TRUE
  Roomy = TRUE
  Blank = FALSE
INVARIANTS LosslessPasses
PROPERTY RunEnds
