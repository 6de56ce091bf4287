SPECIFICATION Spec
CONSTANTS
  t = t
  x = x
  y = y
  z = z
  Root = Root
  Inode = {t, x, y, z}
  Fixed = {t}
  Name = {"a", "b"}
  InitLoc <- MCOne
  Parents <- MCDeepXZ
  FsOps = {"mkdir", "rename"}
  MaxOps = 5
  QueueLimit = 20
  TopLevel <- MCTopLevel
  Excludes <- MCNone
  IgnoredNames = {}
  BatchLimit = 3
  HashSize = 8
  BusyStartup = FALSE
  CallFaults = {}
INVARIANTS PruneReturns
CHECK_DEADLOCK FALSE
