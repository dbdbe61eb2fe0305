SPECIFICATION Spec
CONSTANTS
  Word = 256
  Segment = 16
  Line = 4
  Align = 2
  StackEnd = 130
  RamStart = 132
  Stage1Start = 138
  Stage1Size = 2
  MaxSize = 6
  HardLimit = 120
  LegacyLimit = 116
  SizePolicy = "hard-only"
  CrcPolicy = "off"
  FlashHeaders <- MCFlashHeaders
  UploadHeaders <- MCOneUpload
  InputBytes = {}
  RxDepth = 1
  ProbeTimeout = 2
  MenuTimeout = 3
  EmbeddedStart = 132
  SenderStart = 132
  SenderEnd = 138
  SenderMax = 6
  BlobSize <- MCBlobSize
INVARIANT LegacyAgrees
CHECK_DEADLOCK FALSE
