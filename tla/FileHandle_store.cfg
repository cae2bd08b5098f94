SPECIFICATION Spec
CONSTANTS
  Handle = {h1, h2}
  Reader = {r1}
  None = None
  Garbage = Garbage
  Debug = FALSE
  ConfigChunk = 1
  DriverChunk = 1
  ForeignChunks = {}
  Ops = {"open", "create", "read", "write", "unlink", "truncate"}
  MaxLength = 2
  MaxVersions = 2
  MaxReads = 1
  MaxFaults = 1
SYMMETRY Symmetric
INVARIANTS
  TypeOK
  PublishedIsComplete
PROPERTIES
  ImplementsAtomicFile
CHECK_DEADLOCK FALSE
