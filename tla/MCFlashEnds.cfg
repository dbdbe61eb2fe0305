SPECIFICATION FairSpec
CONSTANTS
  Pages = 6
  SectorPages = 2
  LoaderPages = 2
  KernelPage = 2
  RootPage = 4
  Factory <- MCFactory
  Packages <- MCOnePackage
  Strays <- MCStrays
  Scratches <- MCOneScratch
  Faults = {"refuse", "weak", "stray"}
  MaxFaults = 2
  MaxCuts = 1
INVARIANTS
  TestSound
  SuccessInstalled
PROPERTIES
  OperationsEnd
CHECK_DEADLOCK FALSE
