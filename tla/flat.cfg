SPECIFICATION HistSpec
CONSTANTS
  t = t
  x = x
  y = y
  z = z
  Root = Root
  Inode = {t, x, y}
  Fixed = {t}
  Name = {"a", "b", "c", "d"}
  InitLoc <- MCOne
  Parents <- MCFlat
  FsOps = {"mkdir", "rmdir", "rename", "hold", "replace"}
  MaxOps = 4
  QueueLimit = 20
  TopLevel <- MCNested
  Excludes <- MCExclB
  IgnoredNames = {"c"}
  BatchLimit = 3
  HashSize = 8
  BusyStartup = FALSE
  CallFaults = {}
INVARIANTS LostOnlyToStaleRows RowsTrue NothingExcludedWatched ParentLink
CHECK_DEADLOCK FALSE
