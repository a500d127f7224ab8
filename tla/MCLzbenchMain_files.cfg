SPECIFICATION FairSpec
CONSTANTS
  Params <- OneOption
  PadSize = 1
  ExpandDiv = 6
  Files = 2
  MaxSize = 7
  MaxChanges = 2
INVARIANTS TypeOK ReadsFit PartsCover MemcpyFirst MemoryWithinLimit
PROPERTY FilesEnd
