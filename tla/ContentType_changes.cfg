SPECIFICATION Spec
CONSTANTS
  Thread = {t1, t2}
  Half = 4
  Mode = {1, 6}
  Id = {0, 7}
  Time <- Times
  Garbage = {0, 6}
  DefaultMode = 1
  DefaultUid = 0
  DefaultGid = 7
  Foreign <- ForeignTypes
  Stray <- StrayWords
  None = None
  MaxCalls = 3
SYMMETRY Symmetric
INVARIANTS
  TypeOK
  WrittenIsReadable
  AloneIsExact
PROPERTIES
  OthersUnchanged
  SetIsShown
CHECK_DEADLOCK FALSE
