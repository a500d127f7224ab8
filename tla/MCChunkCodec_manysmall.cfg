SPECIFICATION Spec
CONSTANTS
  Chunkings <- ThreeBytes
  PadSize = 2
  ExpandDiv = 2
  Overhead = 2
  Lossless = TRUE
  Obedient = TRUE
  Blank = FALSE
INVARIANTS NeverExhausted
