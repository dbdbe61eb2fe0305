SPECIFICATION Spec
CONSTANTS
  Wrap = 16
  TicksPerMs = 3
  LimitMs = 9
  MaxTicks = 60
  Nibble = 2
  MinMatch = 2
  Capacity = 14
  Blocks <- MCBlocks
  Lists <- MCLists
  Word = 64
  LongText = 2
  Characters <- MCCharacters
  Values <- MCValues
  Gaps <- MCGaps
  Keys <- MCKeys
  Sizes = {2, 4}
INVARIANTS
  TimerExact
  DecodedRight
  MembersRead
CHECK_DEADLOCK FALSE
