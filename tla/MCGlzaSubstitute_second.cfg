SPECIFICATION Spec
CONSTANTS
  Texts <- MCTexts
  Rules <- MCRules
  Threads = 2
  Long = 9
  Half = 4
  Batch = 2
  FinderRing = 4
  CopyMax = 4
  OldIndex = 2
INVARIANT SubstitutesAll
