SPECIFICATION NSSpec
CONSTANTS
  Thread = {t1, t2}
  Mount = {k1, k2}
  TheDir = dir1
  TheFile = file1
  Path = {dir1, file1}
  Children <- ChildrenOf
  Mode = {m1, dir, lnk}
  DirMode = {dir}
  LinkMode = lnk
  DefaultMode = m1
  Owner = {o1}
  DefaultOwner = o1
  Time = {s1}
  NoTime = NoTime
  Size = {Empty}
  Empty = Empty
  DirSize = DirSize
  None = None
  Ops = {"getattr", "create", "mkdir", "chmod", "store", "unlink", "rmdir"}
  MaxCalls = 4
  MaxFaults = 1
SYMMETRY Symmetric
INVARIANTS
  NSTypeOK
  OrphanOnlyIfRaced
  OneMountKeepsTree
PROPERTIES
  KindChangesOnlyIfRaced
CHECK_DEADLOCK FALSE
