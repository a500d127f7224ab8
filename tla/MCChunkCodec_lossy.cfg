SPECIFICATION Spec
CONSTANTS
  Chunkings <- TwoOrOne
  PadSize = 2
  ExpandDiv = 2
  Overhead = 1
  Lossless = FALSE
  Obedient = FALSE
  Blank = FALSE
INVARIANTS OnlyOverheadsExhaust WithinBuffers ReadsAligned
