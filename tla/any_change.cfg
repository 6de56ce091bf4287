SPECIFICATION Spec
CONSTANTS
  t = t
  x = x
  y = y
  z = z
  Root = Root
  Inode = {t, x, y}
  Fixed = {t}
  Name = {"a", "b"}
  InitLoc <- MCOne
  Parents <- MCParents
  FsOps = {"mkdir", "rmdir", "hold", "rename", "replace", "write", "mvfile"}
  MaxOps = 3
  QueueLimit = 5
  TopLevel <- MCTopLevel
  Excludes <- MCNone
  IgnoredNames = {}
  BatchLimit = 3
  HashSize = 8
  BusyStartup = TRUE
  CallFaults = {"denied", "error"}
INVARIANTS TypeOK RowBacked WatchTracked NoSqlFailure NoCookieError IInv
CHECK_DEADLOCK FALSE
