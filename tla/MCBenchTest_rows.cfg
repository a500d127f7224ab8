SPECIFICATION Spec
CONSTANTS
  Params <- CommandLines
  LoopTime = 2
  Size = 4
  PreSize = 2
  Precision = 1
  MaxCall = 1
  MaxGap = 1
  MaxQuick = 1
  MaxSleep = 1
  MaxCalls = 10
  MaxTests = 2
  Lossless = FALSE
  Roomy = FALSE
  Blank = FALSE
INVARIANTS TypeOK DecodedEachBatch EnoughWork TimesWithinTurns
  FastRowsOnly LeaksOnlyWhenSlow
