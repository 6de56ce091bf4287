SPECIFICATION Spec
CONSTANTS
  t = t
  x = x
  y = y
  z = z
  Root = Root
  Inode = {t, x, y}
  Fixed = {t}
  Name = {"a", "b"}
  InitLoc <- MCEmpty
  Parents <- MCDeepX
  FsOps = {"mkdir", "rmdir", "rename"}
  MaxOps = 5
  QueueLimit = 20
  TopLevel <- MCTopLevel
  Excludes <- MCNone
  IgnoredNames = {}
  BatchLimit = 3
  HashSize = 8
  BusyStartup = FALSE
  CallFaults = {}
INVARIANTS RowsTrue
CHECK_DEADLOCK FALSE
