SPECIFICATION FairSpec
CONSTANTS
  Wd = {1, 2, 3}
  Path = {"p1", "p2", "p3"}
  MaxList = 4
INVARIANTS ListSound ListedOnce IInv
PROPERTIES DivergingNeverReturns StoreSpec PruneEnds
CHECK_DEADLOCK FALSE
