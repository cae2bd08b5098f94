SPECIFICATION Spec
CONSTANTS
  Handle = {h1}
  Reader = {r1, r2}
  None = None
  Garbage = Garbage
  Debug = FALSE
  ConfigChunk = 1
  DriverChunk = 1
  ForeignChunks = {1, 2}
  Ops = {"open", "read", "upload", "unlink"}
  MaxLength = 2
  MaxVersions = 2
  MaxReads = 2
  MaxFaults = 0
SYMMETRY Symmetric
INVARIANTS
  ReadIsExact
  CachedChunkMatches
  GoneOnlyIfRemoved
CHECK_DEADLOCK FALSE
