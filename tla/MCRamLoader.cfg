SPECIFICATION Spec
CONSTANTS
  Image <- MCImage
  ChunkSize = 2
  Retries = 1
  CrcMod = 3
  Faults <- MCAllFaults
  MaxFaults = 2
  MaxRuns = 2
INVARIANTS
  TypeOK
  ExecSound
  HostSound
  HostInSync
  StoredInPlace
PROPERTY
  ImplementsUpload
CHECK_DEADLOCK FALSE
