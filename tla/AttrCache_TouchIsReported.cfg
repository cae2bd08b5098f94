SPECIFICATION Spec
CONSTANTS
  Thread = {t1, t2}
  TheDir = dir1
  TheFile = file1
  Path = {file1}
  Children <- ChildrenOf
  Mode = {m1, dir, lnk}
  DirMode = {dir}
  LinkMode = lnk
  DefaultMode = m1
  Owner = {o1, o2}
  DefaultOwner = o1
  Time = {s1, s2}
  NoTime = NoTime
  Size = {Empty, n1}
  Empty = Empty
  DirSize = DirSize
  None = None
  Ops = {"getattr","utimens","create"}
  MaxCalls = 4
  MaxFaults = 0
SYMMETRY Symmetric
INVARIANTS
  TouchIsReported
CHECK_DEADLOCK FALSE
