SPECIFICATION FairSpec
CONSTANTS
  DlyLimit = 9
  BackOff = 3
  MaxGlitches = 2
  Regions = 2
  TlbEntries = 6
  Boards <- MCBoards
INVARIANTS
  AccessMapped
  DramSampledRight
PROPERTY LoaderEnds
CHECK_DEADLOCK FALSE
