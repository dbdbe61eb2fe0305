SPECIFICATION TimedSpec
CONSTANTS
  Image <- MCImage
  ChunkSize = 1
  Retries = 2
  CrcMod = 3
  Faults <- MCReplyFaults
  MaxFaults = 1
  MaxRuns = 1
  InterbyteTimeout = 3
  AckTimeout = 5
  ReadyTimeout = 6
  ReplyTimeout = 5
  VerifiedTimeout = 10
INVARIANT RetriesSuffice
CHECK_DEADLOCK FALSE
