SPECIFICATION Spec
CONSTANTS
  Word = 256
  Segment = 16
  Line = 4
  Align = 2
  StackEnd = 130
  RamStart = 132
  Stage1Start = 138
  Stage1Size = 2
  MaxSize = 6
  HardLimit = 104
  LegacyLimit = 96
  SizePolicy = "legacy-warn"
  CrcPolicy = "warn"
  FlashHeaders <- MCFlashHeaders
  UploadHeaders <- MCUploadHeaders
  InputBytes = {"1", "2", "3"}
  RxDepth = 1
  ProbeTimeout = 1
  MenuTimeout = 1
  EmbeddedStart = 132
  SenderStart = 132
  SenderEnd = 138
  SenderMax = 6
  BlobSize <- MCBigLiveBoot
INVARIANTS
  TypeOK
  ReservedIntact
  JumpsIntoLoaded
  CopyInsideSlot
  SenderAgrees
CHECK_DEADLOCK FALSE
