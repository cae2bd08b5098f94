SPECIFICATION Spec
CONSTANTS
  Handle = {h1}
  Reader = {r1, r2}
  None = None
  Garbage = Garbage
  Debug = FALSE
  ConfigChunk = 2
  DriverChunk = 2
  ForeignChunks = {2}
  Ops = {"open", "read", "upload"}
  MaxLength = 3
  MaxVersions = 2
  MaxReads = 2
  MaxFaults = 0
SYMMETRY Symmetric
INVARIANTS
  ChunksDoNotSwap
CHECK_DEADLOCK FALSE
