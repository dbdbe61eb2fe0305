SPECIFICATION Spec
CONSTANTS
  Pages = 6
  SectorPages = 2
  LoaderPages = 2
  KernelPage = 2
  RootPage = 4
  Factory <- MCFactory
  Packages <- MCPackages
  Strays <- MCStrays
  Scratches <- MCScratches
  Faults = {"refuse", "weak"}
  MaxFaults = 1
  MaxCuts = 1
INVARIANTS
  TypeOK
  FlashUntouched
PROPERTIES
  ImplementsInstall
CHECK_DEADLOCK FALSE
