---------------------------- MODULE WatchHistory ----------------------------
(***************************************************************************)
(* DirWatcher with a history variable.  A row may outlive its watch, or    *)
(* its directory may have moved on, until the event that says so is        *)
(* handled.  When add_watch is called for the path of such a row it        *)
(* answers "Already watching" about a directory it does not watch, and     *)
(* nobody asks again.  missed remembers these directories, so that the     *)
(* properties below can say that nothing else is lost.                     *)
(***************************************************************************)
EXTENDS DirWatcher

VARIABLE missed  \* directories turned away at the place where they are now

histVars == <<vars, missed>>

\* The directory at the path of the call, if add_watch is about to turn it
\* away for a row at that path that is not of its watch.
TurnedAway ==
  LET path == Head(calls).path
      wd == find_directory_wd(rows, path)
  IN  {i \in Resolve(path) \cap Inode :
         ~ Excluded(path) /\ ~ HasIgnoreSuffix(path) /\ wd # NULL_WD /\ watch[i] # wd}

\* A directory that moves is announced anew by its IN_MOVED_TO.
Remember ==
  LET asked == IF AddWatchDeclined THEN missed \cup TurnedAway ELSE missed
  IN  missed' = {i \in asked : loc'[i] = loc[i]}

HistNext == Next /\ Remember

HistSpec == Init /\ missed = {} /\ [][HistNext]_histVars

\* The fairness of FairSpec: Remember stops no step of the program.
FairHistSpec == HistSpec /\ WF_histVars(Watcher /\ Remember)

WatchedOrMissed(i, path) == Declined(path) \/ Watched(i, path) \/ i \in missed

\* While the changes stay in one directory, a stale row is the one thing that
\* costs the program a directory: once nothing is pending, each top-level
\* directory, and each directory in a watched one, is watched under its path
\* or declined, or add_watch took it for watched because of a row that is not
\* of its watch (main.c:239).  Moves, removals and replacements, and watches
\* that are dropped and taken again, lose nothing by themselves.
LostOnlyToStaleRows ==
  Quiet =>
    /\ \A k \in DOMAIN TopLevel : \A i \in Resolve(TopLevel[k]) :
         WatchedOrMissed(i, TopLevel[k])
    /\ \A r \in rows : \A d \in {e \in Inode : watch[e] = r.wd} : \A i \in Children(d) :
         WatchedOrMissed(i, Append(r.path, loc[i][2]))

\* README: when the program detects an event it writes a notification.  A
\* change in a directory that stays monitored, and that was not lost to a
\* stale row, is followed by a notification that names the directory or one
\* above it, whose scan finds the change.
EveryChangePublished ==
  \A i \in Inode :
    (i \in changed /\ Monitored(i)) ~>
      (i \notin changed \/ ~ Monitored(i) \/ i \in missed \/ Stopped)
=============================================================================
