SPECIFICATION Spec
CONSTANTS
  t = t
  x = x
  y = y
  z = z
  Root = Root
  Inode = {t, x, y, z}
  Fixed = {t}
  Name = {"a", "b", "c"}
  InitLoc <- MCOne
  Parents <- MCParents
  FsOps = {"mkdir", "write", "mvfile"}
  MaxOps = 3
  QueueLimit = 20
  TopLevel <- MCTopLevel
  Excludes <- MCExclB
  IgnoredNames = {"c"}
  BatchLimit = 3
  HashSize = 8
  BusyStartup = TRUE
  CallFaults = {"error"}
INVARIANTS AllWatched GrowInv
CHECK_DEADLOCK FALSE
