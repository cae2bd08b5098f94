SPECIFICATION FairSpec
CONSTANTS
  Handle = {h1}
  Reader = {r1, r2}
  None = None
  Garbage = Garbage
  Debug = TRUE
  ConfigChunk = 2
  DriverChunk = 1
  ForeignChunks = {1}
  Ops = {"open", "read", "upload", "unlink"}
  MaxLength = 2
  MaxVersions = 2
  MaxReads = 2
  MaxFaults = 1
PROPERTIES
  ImplementsAtomicFile
  ReadsEnd
CHECK_DEADLOCK FALSE
