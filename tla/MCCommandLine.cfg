SPECIFICATION FairSpec
CONSTANTS
  a = a  b = b  d = d  e = e  long = long  far = far  dashed = dashed
  None = None
  Lines <- MCLines
  Word <- MCWord
  KB <- MCKB
  QuarterMB <- MCQuarterMB
  Second <- MCSecond
  DefaultChunk = 54
  Entries <- MCEntries
  Length <- MCLength
  ListStep = 4
  MaxFaults = 2
  Codecs <- MCCodecs
  Aliases <- MCAliases
  MaxChunks = 8
  FileSize <- MCFileSize
INVARIANTS TypeOK LastWordWins NamesInBuffer ListIsFound EveryLevelOnce SplitCovers
PROPERTY MainEnds
