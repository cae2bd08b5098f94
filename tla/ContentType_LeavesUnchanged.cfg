SPECIFICATION Spec
CONSTANTS
  Thread = {t1, t2}
  Half = 4
  Mode = {1, 6}
  Id = {0, 5, 7}
  Time <- Times
  Garbage = {0, 6}
  DefaultMode = 1
  DefaultUid = 0
  DefaultGid = 7
  Foreign = {}
  Stray <- StrayWords
  None = None
  MaxCalls = 3
PROPERTIES
  LeavesUnchanged
CHECK_DEADLOCK FALSE
