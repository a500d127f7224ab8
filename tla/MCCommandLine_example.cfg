SPECIFICATION Spec
CONSTANTS
  a = a  b = b  d = d  e = e  long = long  far = far  dashed = dashed
  None = None
  Lines <- ExampleLines
  Word <- MCWord
  KB <- MCKB
  QuarterMB <- MCQuarterMB
  Second <- MCSecond
  DefaultChunk = 54
  Entries <- MCEntries
  Length <- MCLength
  ListStep = 4
  MaxFaults = 2
  Codecs <- MCCodecs
  Aliases <- MCAliases
  MaxChunks = 8
  FileSize <- MCFileSize
INVARIANT JoinSetsIterations
