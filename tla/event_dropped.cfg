SPECIFICATION FairSpec
CONSTANTS
  t = t
  x = x
  y = y
  z = z
  Root = Root
  Inode = {t, x, y}
  Fixed = {t}
  Name = {"a", "b"}
  InitLoc <- MCOne
  Parents <- MCParents
  FsOps = {"mkdir"}
  MaxOps = 1
  QueueLimit = 20
  TopLevel <- MCTopLevel
  Excludes <- MCNone
  IgnoredNames = {}
  BatchLimit = 3
  HashSize = 8
  BusyStartup = TRUE
  CallFaults = {}
PROPERTIES EveryEventPublished
CHECK_DEADLOCK FALSE
