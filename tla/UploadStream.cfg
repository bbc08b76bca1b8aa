SPECIFICATION FairSpec
CONSTANTS
  Chunks = 2
  MaxAttempts = 3
  MaxDelay = 4
  Header = {0, 2, 5}
  HugeHeader = HugeHeader
  Backoff = {1, 3}
INVARIANTS
  TypeOK
  WholeFileUploaded
  FileOpenWhileFed
  WaitHonoursAnswer
PROPERTIES
  UploadEnds
CHECK_DEADLOCK FALSE
