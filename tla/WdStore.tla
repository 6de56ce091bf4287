------------------------------- MODULE WdStore -------------------------------
(***************************************************************************)
(* What wd_directory.h promises: a table of rows on which every operation  *)
(* takes effect in one step.  prune_wd_directory removes the row of a wd   *)
(* and of all below it, then returns their wds; until it has returned the  *)
(* table stays as it left it.                                              *)
(***************************************************************************)
EXTENDS WdTable

CONSTANTS
  Wd,    \* watch descriptors
  Path   \* directory names

VARIABLES
  table,    \* the rows
  returned, \* the wds in the list prune_wd_directory returned last
  pruning   \* whether it has removed the rows and is yet to return

Init ==
  /\ table = {}
  /\ returned = {}
  /\ pruning = FALSE

Add(wd, parent_wd, path) ==
  /\ ~ pruning
  /\ InsertAllowed(table, wd, path)
  /\ table' = add_wd_directory(table, wd, parent_wd, path)
  /\ UNCHANGED <<returned, pruning>>

Remove(wd) ==
  /\ ~ pruning
  /\ table' = remove_wd_directory(table, wd)
  /\ UNCHANGED <<returned, pruning>>

Prune(wd) ==
  /\ ~ pruning
  /\ ~ PruneDiverges(table, wd)
  /\ table' = prune_wd_directory(table, wd)
  /\ returned' = PruneSet(table, wd)
  /\ pruning' = TRUE

Return ==
  /\ pruning
  /\ pruning' = FALSE
  /\ UNCHANGED <<table, returned>>

Next ==
  \/ \E wd \in Wd, parent_wd \in Wd \cup {NULL_WD}, path \in Path :
       Add(wd, parent_wd, path)
  \/ \E wd \in Wd : Remove(wd) \/ Prune(wd)
  \/ Return

Spec == Init /\ [][Next]_<<table, returned, pruning>>
=============================================================================
