SPECIFICATION FairHistSpec
CONSTANTS
  t = t
  x = x
  y = y
  z = z
  Root = Root
  Inode = {t, x, y}
  Fixed = {t}
  Name = {"a", "b"}
  InitLoc <- MCOne
  Parents <- MCFlat
  FsOps = {"mkdir", "rmdir", "rename", "write"}
  MaxOps = 4
  QueueLimit = 4
  TopLevel <- MCTopLevel
  Excludes <- MCNone
  IgnoredNames = {}
  BatchLimit = 3
  HashSize = 1
  BusyStartup = FALSE
  CallFaults = {}
PROPERTIES EveryChangePublished SettlesDown OverflowStops
CHECK_DEADLOCK FALSE
