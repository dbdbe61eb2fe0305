SPECIFICATION FairTimedSpec
CONSTANTS
  Image <- MCImage
  ChunkSize = 2
  Retries = 2
  CrcMod = 3
  Faults <- MCAllFaults
  MaxFaults = 2
  MaxRuns = 2
  InterbyteTimeout = 3
  AckTimeout = 2
  ReadyTimeout = 6
  ReplyTimeout = 5
  VerifiedTimeout = 10
INVARIANT RetriesSuffice
PROPERTY UploadEnds
CHECK_DEADLOCK FALSE
