SPECIFICATION FairSpec
CONSTANTS
  Frames = 3
  Windows = {1, 2}
  MaxWindow = 2
  Rounds = 2
  AckTries = 2
  Faults <- MCAllFaults
  MaxFaults = 2
  MaxTests = 2
INVARIANTS
  TypeOK
  WindowStored
  AckHeardFirst
  LostConfirmHarmless
  NoStalePushback
PROPERTY TestEnds
CHECK_DEADLOCK FALSE
