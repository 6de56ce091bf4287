--------------------------- MODULE MCWatchHistory ---------------------------
(***************************************************************************)
(* The instances of MCDirWatcher for the properties of WatchHistory.       *)
(***************************************************************************)
EXTENDS WatchHistory, MCDirWatcher
=============================================================================
