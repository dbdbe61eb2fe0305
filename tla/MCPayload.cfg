SPECIFICATION FairSpec
CONSTANTS
  Rates = {1, 2}
  Baseline = 2
  Passes = {2}
  SyncTries = 2
  Beacons = 2
  MaxTrials = 2
  MaxLost = 1
  Packages <- MCPackages
  Models <- MCModels
  MaxPackages = 2
  MaxCommands = 3
INVARIANTS
  TypeOK
  RatesAgree
  SourcesIntact
  LaunchSound
PROPERTIES
  RateProven
  PayloadReturns
CHECK_DEADLOCK FALSE
