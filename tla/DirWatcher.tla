----------------------------- MODULE DirWatcher -----------------------------
(***************************************************************************)
(* The watcher process of main.c against the filesystem and the kernel:    *)
(* startup (load_top_level_paths), one batch of events after the other     *)
(* (process_inotify_events), add_watch with its recursion into             *)
(* sub-directories, prune_wd_and_clean_up, and the notification of the     *)
(* directories in which something happened.                                *)
(*                                                                         *)
(* Other processes change the tree between any two system calls, so a      *)
(* handler is as many steps as it makes calls that see or change kernel    *)
(* state: inotify_add_watch, one inotify_rm_watch per pruned wd, and the   *)
(* opendir/readdir of list_sub_dirs.  What the code does between two of    *)
(* them touches only its own memory and belongs to the step before.        *)
(*                                                                         *)
(* The recursion of add_watch is the list calls: the calls still to make,  *)
(* in the order the C stack makes them.  A call made for a sub-directory   *)
(* leaves nothing to do in its caller, whose loop ignores the result.      *)
(***************************************************************************)
EXTENDS Inotify, WdTable

CONSTANTS
  TopLevel,      \* the config file: a sequence of paths
  Excludes,      \* the exclude file: a set of paths
  IgnoredNames,  \* names that end in __dir_watcher_ignore
  BatchLimit,    \* events that fit in inotify_event_buffer
  HashSize,      \* HASH_TABLE_SIZE
  BusyStartup,   \* whether the tree changes while the program starts
  CallFaults     \* ways in which system calls fail, of AllCallFaults

\* inotify_add_watch with EACCES, and calls with an errno not provided for.
AllCallFaults == {"denied", "error"}

ASSUME DirWatcherAssumption ==
  /\ Excludes \subseteq Seq(Name)
  /\ TopLevel \in Seq(Seq(Name) \ {<<>>})
  /\ BatchLimit \in Nat \ {0}
  /\ HashSize \in Nat \ {0}
  /\ BusyStartup \in BOOLEAN
  /\ CallFaults \subseteq AllCallFaults

VARIABLES
  pc,                \* what the process does next
  rows,              \* the wd_directory table
  buf,               \* events read and not yet done; the first is event_p
  prev_wd,           \* the memo of process_inotify_events:
  parent_dir_p,      \*   the path found for prev_wd
  prev_cookie,
  calls,             \* add_watch calls to make
  watch_descriptor,  \* add_watch's local, NULL_WD outside of a call
  doomed,            \* pruned wds inotify_rm_watch was not called for yet
  notify,            \* whether the event falls through to hash_cache_add
  cache              \* paths in the hash cache

vars == <<fsVars, pc, rows, buf, prev_wd, parent_dir_p, prev_cookie, calls,
          watch_descriptor, doomed, notify, cache>>

-----------------------------------------------------------------------------
(***************************************************************************)
(* Paths.                                                                  *)
(***************************************************************************)
\* snprintf("%s/%s", parent, name); a NULL parent prints as "(null)", a
\* relative path that leads nowhere.
Join(parent, name) ==
  IF parent = NULL_PATH THEN <<"(null)", name>> ELSE Append(parent, name)

IsPathPrefix(p, path) == Len(p) <= Len(path) /\ SubSeq(path, 1, Len(p)) = p

\* Mutation: a path must go on with '/' after the excluded one.
Excluded_Below(path) == \E p \in Excludes : Len(p) < Len(path) /\ IsPathPrefix(p, path)

\* The strncmp of add_watch and the '/' or '\0' it asks for after it.  An
\* empty line in the exclude file is a prefix of every absolute path.
Excluded(path) == \E p \in Excludes : IsPathPrefix(p, path)

HasIgnoreSuffix(path) == path[Len(path)] \in IgnoredNames

\* Directories a scan of the directories at these paths visits.
CoveredBy(paths) ==
  {i \in Inode : \E p \in paths : Resolve(p) \cap Ancestors(i) # {}}

-----------------------------------------------------------------------------
(***************************************************************************)
(* Notification.                                                           *)
(***************************************************************************)
\* hash_cache_add refuses, before it looks the path up, when more than half
\* of the table is used.  (A full memory block has the same effect: HashCache
\* has both limits.)
CacheFull == Cardinality(cache) > HashSize \div 2

\* Mutation: no hash_cache_clear.
Publish_NoClear(paths) ==
  /\ cache' = paths
  /\ changed' = changed \ CoveredBy(paths)

\* flush_hash_cache: the paths go to a notification file, the cache is empty.
Publish(paths) ==
  /\ cache' = {}
  /\ changed' = changed \ CoveredBy(paths)

\* Mutation: a path hash_cache_add refused is not given to the flush.
Notify_DropRefused(path) ==
  IF path = NULL_PATH THEN UNCHANGED <<cache, changed>>
  ELSE IF CacheFull THEN Publish(cache)
  ELSE cache' = cache \cup {path} /\ UNCHANGED changed

\* The end of the loop body of process_inotify_events for an event that did
\* not "continue".
Notify(path) ==
  IF path = NULL_PATH THEN UNCHANGED <<cache, changed>>
  ELSE IF CacheFull THEN Publish(cache \cup {path})
  ELSE cache' = cache \cup {path} /\ UNCHANGED changed

NextEvent ==
  /\ buf' = Tail(buf)
  /\ pc' = IF Len(buf) = 1 THEN "idle" ELSE "dispatch"

Continue == NextEvent /\ UNCHANGED <<cache, changed>>

FallThrough(path) == NextEvent /\ Notify(path)

\* main's loop after poll returned with flush_now set.
Flush ==
  /\ pc = "idle"
  /\ cache # {}
  /\ Publish(cache)
  /\ UNCHANGED <<loc, watch, queue, last_wd, last_cookie, ops, pc, rows, buf,
                 prev_wd, parent_dir_p, prev_cookie, calls, watch_descriptor,
                 doomed, notify>>

-----------------------------------------------------------------------------
(***************************************************************************)
(* add_watch(parent_wd, path), for the first of calls.                     *)
(***************************************************************************)
Call(parent_wd, path) == [parent_wd |-> parent_wd, path |-> path]

\* Return -1: excluded, ignored, watched already under this path, gone
\* (ENOENT) by the time inotify_add_watch looks, or not to be read (EACCES).
AddWatchDeclined ==
  /\ pc = "add" /\ calls # <<>>
  /\ LET path == Head(calls).path
     IN  \/ Excluded(path)
         \/ HasIgnoreSuffix(path)
         \/ find_directory_wd(rows, path) # NULL_WD
         \/ Resolve(path) = {}
         \/ "denied" \in CallFaults
  /\ calls' = Tail(calls)
  /\ UNCHANGED <<fsVars, pc, rows, buf, prev_wd, parent_dir_p, prev_cookie,
                 watch_descriptor, doomed, notify, cache>>

\* inotify_add_watch on directory i: the wd it has, or a new one.
InotifyAddWatch(i) ==
  /\ i \in Inode
  /\ watch_descriptor' = IF watch[i] # 0 THEN watch[i] ELSE last_wd + 1
  /\ watch' = [watch EXCEPT ![i] = watch_descriptor']
  /\ last_wd' = IF watch[i] # 0 THEN last_wd ELSE last_wd + 1

\* add_wd_directory; a constraint error of SQLite ends the program.
Insert(rs, wd, call) ==
  IF InsertAllowed(rs, wd, call.path)
    THEN /\ rows' = add_wd_directory(rs, wd, call.parent_wd, call.path)
         /\ pc' = "list"
    ELSE /\ rows' = rs
         /\ pc' = "sql_error"

\* Mutation: the list has the wd alone.
Prune_HeadOnly(wd) ==
  IF PruneDiverges(rows, wd)
    THEN /\ pc' = "hung"
         /\ UNCHANGED <<rows, doomed>>
    ELSE /\ rows' = prune_wd_directory(rows, wd)
         /\ doomed' = {wd}
         /\ pc' = "prune"

\* prune_wd_directory; does not return if the list it builds has no end.
Prune(wd) ==
  IF PruneDiverges(rows, wd)
    THEN /\ pc' = "hung"
         /\ UNCHANGED <<rows, doomed>>
    ELSE /\ rows' = prune_wd_directory(rows, wd)
         /\ doomed' = PruneSet(rows, wd)
         /\ pc' = "prune"

\* Mutation: the code before 2020-07-06, which does not ask for the wd.
AddWatch_NoExistsCheck ==
  /\ pc = "add" /\ calls # <<>>
  /\ LET call == Head(calls)
     IN  /\ ~ Excluded(call.path)
         /\ ~ HasIgnoreSuffix(call.path)
         /\ find_directory_wd(rows, call.path) = NULL_WD
         /\ \E i \in Resolve(call.path) :
              InotifyAddWatch(i) /\ Insert(rows, watch_descriptor', call)
  /\ notify' = TRUE
  /\ UNCHANGED <<loc, queue, last_cookie, ops, changed, buf, prev_wd,
                 parent_dir_p, prev_cookie, calls, doomed, cache>>

AddWatch ==
  /\ pc = "add" /\ calls # <<>>
  /\ LET call == Head(calls)
     IN  /\ ~ Excluded(call.path)
         /\ ~ HasIgnoreSuffix(call.path)
         /\ find_directory_wd(rows, call.path) = NULL_WD
         /\ \E i \in Resolve(call.path) :
              /\ InotifyAddWatch(i)
              /\ IF wd_directory_exists(rows, watch_descriptor')
                   THEN Prune(watch_descriptor')
                   ELSE /\ Insert(rows, watch_descriptor', call)
                        /\ UNCHANGED doomed
  /\ notify' = TRUE
  /\ UNCHANGED <<loc, queue, last_cookie, ops, changed, buf, prev_wd,
                 parent_dir_p, prev_cookie, calls, cache>>

\* Mutation: no recursion.
ListSubDirs_Flat ==
  /\ pc = "list"
  /\ calls' = Tail(calls)
  /\ pc' = "add"
  /\ watch_descriptor' = NULL_WD
  /\ UNCHANGED <<fsVars, rows, buf, prev_wd, parent_dir_p, prev_cookie, doomed,
                 notify, cache>>

\* Mutation: the recursion passes its own parent_wd on.
ListSubDirs_ParentWd ==
  /\ pc = "list"
  /\ LET call == Head(calls)
         subs == UNION {Children(d) : d \in Resolve(call.path)}
     IN  \E order \in [1 .. Cardinality(subs) -> subs] :
           /\ subs \subseteq {order[k] : k \in DOMAIN order}
           /\ calls' = [k \in 1 .. Cardinality(subs) |->
                          Call(call.parent_wd, Join(call.path, loc[order[k]][2]))]
                       \o Tail(calls)
  /\ pc' = "add"
  /\ watch_descriptor' = NULL_WD
  /\ UNCHANGED <<fsVars, rows, buf, prev_wd, parent_dir_p, prev_cookie, doomed,
                 notify, cache>>

\* list_sub_dirs and the loop over its result: readdir's order is arbitrary,
\* a directory that is gone has no sub-directories.
ListSubDirs ==
  /\ pc = "list"
  /\ LET call == Head(calls)
         subs == UNION {Children(d) : d \in Resolve(call.path)}
     IN  \E order \in [1 .. Cardinality(subs) -> subs] :
           /\ subs \subseteq {order[k] : k \in DOMAIN order}
           /\ calls' = [k \in 1 .. Cardinality(subs) |->
                          Call(watch_descriptor, Join(call.path, loc[order[k]][2]))]
                       \o Tail(calls)
  /\ pc' = "add"
  /\ watch_descriptor' = NULL_WD
  /\ UNCHANGED <<fsVars, rows, buf, prev_wd, parent_dir_p, prev_cookie, doomed,
                 notify, cache>>

-----------------------------------------------------------------------------
(***************************************************************************)
(* remove_pruned_wds.  A wd whose watch is gone already (EINVAL) is        *)
(* skipped.  Then the caller goes on: add_watch with its INSERT,           *)
(* process_inotify_events with the end of IN_MOVED_FROM.                   *)
(***************************************************************************)
InotifyRmWatch(wd) ==
  /\ watch' = [i \in Inode |-> IF watch[i] = wd THEN 0 ELSE watch[i]]
  /\ queue' = IF \E i \in Inode : watch[i] = wd
                THEN Enqueue(queue, <<Ignored(wd)>>)
                ELSE queue

RemovePruned ==
  /\ pc = "prune"
  /\ \E wd \in doomed :
       /\ InotifyRmWatch(wd)
       /\ doomed' = doomed \ {wd}
  /\ UNCHANGED <<loc, last_wd, last_cookie, ops, changed, pc, rows, buf,
                 prev_wd, parent_dir_p, prev_cookie, calls, watch_descriptor,
                 notify, cache>>

InsertAfterPrune ==
  /\ pc = "prune" /\ doomed = {} /\ watch_descriptor # NULL_WD
  /\ Insert(rows, watch_descriptor, Head(calls))
  /\ UNCHANGED <<fsVars, buf, prev_wd, parent_dir_p, prev_cookie, calls,
                 watch_descriptor, doomed, notify, cache>>

PruneMovedDone ==
  /\ pc = "prune" /\ doomed = {} /\ watch_descriptor = NULL_WD
  /\ FallThrough(parent_dir_p)
  /\ UNCHANGED <<loc, watch, queue, last_wd, last_cookie, ops, rows, prev_wd,
                 parent_dir_p, prev_cookie, calls, watch_descriptor, doomed,
                 notify>>

-----------------------------------------------------------------------------
(***************************************************************************)
(* process_inotify_events.                                                 *)
(***************************************************************************)
\* Mutation: the last event of a read is left for the next read.
ReadEvents_OffByOne ==
  /\ pc = "idle" /\ queue # <<>>
  /\ LET n == IF Len(queue) < BatchLimit THEN Len(queue) ELSE BatchLimit
     IN  /\ buf' = SubSeq(queue, 1, n)
         /\ queue' = SubSeq(queue, n, Len(queue))
  /\ prev_wd' = NULL_WD
  /\ parent_dir_p' = NULL_PATH
  /\ pc' = "dispatch"
  /\ UNCHANGED <<loc, watch, last_wd, last_cookie, ops, changed, rows,
                 prev_cookie, calls, watch_descriptor, doomed, notify, cache>>

\* start_iter_inotify: one read takes what fits in the buffer.
ReadEvents ==
  /\ pc = "idle" /\ queue # <<>>
  /\ LET n == IF Len(queue) < BatchLimit THEN Len(queue) ELSE BatchLimit
     IN  /\ buf' = SubSeq(queue, 1, n)
         /\ queue' = SubSeq(queue, n + 1, Len(queue))
  /\ prev_wd' = NULL_WD
  /\ parent_dir_p' = NULL_PATH
  /\ pc' = "dispatch"
  /\ UNCHANGED <<loc, watch, last_wd, last_cookie, ops, changed, rows,
                 prev_cookie, calls, watch_descriptor, doomed, notify, cache>>

\* The memoized path lookup every event starts with.
ParentDir(e) ==
  IF e.wd = prev_wd THEN parent_dir_p ELSE find_wd_directory(rows, e.wd)

Dispatch(e) ==
  /\ pc = "dispatch"
  /\ prev_wd' = e.wd
  /\ parent_dir_p' = ParentDir(e)

\* Mutation: the overflow is logged and the loop goes on.
HandleOverflow_Continue(e) ==
  /\ Dispatch(e)
  /\ "IN_Q_OVERFLOW" \in e.mask
  /\ Continue
  /\ UNCHANGED <<loc, watch, queue, last_wd, last_cookie, ops, rows,
                 prev_cookie, calls, watch_descriptor, doomed, notify>>

HandleOverflow(e) ==
  /\ Dispatch(e)
  /\ "IN_Q_OVERFLOW" \in e.mask
  /\ pc' = "overflow"
  /\ UNCHANGED <<fsVars, rows, buf, prev_cookie, calls, watch_descriptor,
                 doomed, notify, cache>>

\* watch_new_directory; without a new watch the event is dropped.
HandleCreateDir(e) ==
  /\ Dispatch(e)
  /\ {"IN_CREATE", "IN_ISDIR"} \subseteq e.mask
  /\ calls' = <<Call(e.wd, Join(parent_dir_p', e.name))>>
  /\ notify' = FALSE
  /\ pc' = "add"
  /\ UNCHANGED <<fsVars, rows, buf, prev_cookie, watch_descriptor, doomed, cache>>

\* IN_DELETE_SELF and IN_MOVE_SELF are left to the parent's events, and a
\* created file to the event that closes it.
HandleSkipped(e) ==
  /\ Dispatch(e)
  /\ \/ e.mask \cap {"IN_DELETE_SELF", "IN_MOVE_SELF"} # {}
     \/ e.mask = {"IN_CREATE"}
  /\ Continue
  /\ UNCHANGED <<loc, watch, queue, last_wd, last_cookie, ops, rows,
                 prev_cookie, calls, watch_descriptor, doomed, notify>>

\* Mutation: NULL_WD is pruned like any wd.
HandleMovedFrom_AnyWd(e) ==
  /\ Dispatch(e)
  /\ "IN_MOVED_FROM" \in e.mask
  /\ IF e.cookie = prev_cookie
       THEN /\ pc' = "cookie_error"
            /\ UNCHANGED <<prev_cookie, rows, doomed, buf, cache, changed>>
       ELSE LET wd == find_directory_wd(rows, Join(parent_dir_p', e.name))
            IN  /\ prev_cookie' = e.cookie
                /\ IF "IN_ISDIR" \in e.mask
                     THEN Prune(wd) /\ UNCHANGED <<buf, cache, changed>>
                     ELSE /\ FallThrough(parent_dir_p')
                          /\ UNCHANGED <<rows, doomed>>
  /\ UNCHANGED <<loc, watch, queue, last_wd, last_cookie, ops, calls,
                 watch_descriptor, notify>>

\* Mutation: a directory that moves keeps its rows and watches.
HandleMovedFrom_NoPrune(e) ==
  /\ Dispatch(e)
  /\ "IN_MOVED_FROM" \in e.mask
  /\ IF e.cookie = prev_cookie
       THEN /\ pc' = "cookie_error"
            /\ UNCHANGED <<prev_cookie, buf, cache, changed>>
       ELSE /\ prev_cookie' = e.cookie
            /\ FallThrough(parent_dir_p')
  /\ UNCHANGED <<loc, watch, queue, last_wd, last_cookie, ops, rows, calls,
                 watch_descriptor, doomed, notify>>

HandleMovedFrom(e) ==
  /\ Dispatch(e)
  /\ "IN_MOVED_FROM" \in e.mask
  /\ IF e.cookie = prev_cookie
       THEN /\ pc' = "cookie_error"
            /\ UNCHANGED <<prev_cookie, rows, doomed, buf, cache, changed>>
       ELSE LET wd == find_directory_wd(rows, Join(parent_dir_p', e.name))
            IN  /\ prev_cookie' = e.cookie
                /\ IF "IN_ISDIR" \in e.mask /\ wd # NULL_WD
                     THEN Prune(wd) /\ UNCHANGED <<buf, cache, changed>>
                     ELSE /\ FallThrough(parent_dir_p')
                          /\ UNCHANGED <<rows, doomed>>
  /\ UNCHANGED <<loc, watch, queue, last_wd, last_cookie, ops, calls,
                 watch_descriptor, notify>>

\* Mutation: the directory that arrives is not watched.
HandleMovedTo_NoWatch(e) ==
  /\ Dispatch(e)
  /\ "IN_MOVED_TO" \in e.mask
  /\ prev_cookie' = e.cookie
  /\ FallThrough(parent_dir_p')
  /\ UNCHANGED <<loc, watch, queue, last_wd, last_cookie, ops, rows, calls,
                 watch_descriptor, doomed, notify>>

\* Mutation: the wd of the event before is taken for the parent.
HandleMovedTo_PrevWd(e) ==
  /\ Dispatch(e)
  /\ "IN_MOVED_TO" \in e.mask
  /\ prev_cookie' = e.cookie
  /\ IF "IN_ISDIR" \in e.mask
       THEN /\ calls' = <<Call(prev_wd, Join(parent_dir_p', e.name))>>
            /\ notify' = TRUE
            /\ pc' = "add"
            /\ UNCHANGED <<buf, cache, changed>>
       ELSE /\ FallThrough(parent_dir_p')
            /\ UNCHANGED <<calls, notify>>
  /\ UNCHANGED <<loc, watch, queue, last_wd, last_cookie, ops, rows,
                 watch_descriptor, doomed>>

HandleMovedTo(e) ==
  /\ Dispatch(e)
  /\ "IN_MOVED_TO" \in e.mask
  /\ prev_cookie' = e.cookie
  /\ IF "IN_ISDIR" \in e.mask
       THEN /\ calls' = <<Call(e.wd, Join(parent_dir_p', e.name))>>
            /\ notify' = TRUE
            /\ pc' = "add"
            /\ UNCHANGED <<buf, cache, changed>>
       ELSE /\ FallThrough(parent_dir_p')
            /\ UNCHANGED <<calls, notify>>
  /\ UNCHANGED <<loc, watch, queue, last_wd, last_cookie, ops, rows,
                 watch_descriptor, doomed>>

\* Mutation: the event is left out.
HandleIgnored_KeepRow(e) ==
  /\ Dispatch(e)
  /\ "IN_IGNORED" \in e.mask
  /\ Continue
  /\ UNCHANGED <<loc, watch, queue, last_wd, last_cookie, ops, rows, prev_cookie,
                 calls, watch_descriptor, doomed, notify>>

\* Mutation: the row of the event before goes.
HandleIgnored_PrevWd(e) ==
  /\ Dispatch(e)
  /\ "IN_IGNORED" \in e.mask
  /\ rows' = remove_wd_directory(rows, prev_wd)
  /\ Continue
  /\ UNCHANGED <<loc, watch, queue, last_wd, last_cookie, ops, prev_cookie,
                 calls, watch_descriptor, doomed, notify>>

HandleIgnored(e) ==
  /\ Dispatch(e)
  /\ "IN_IGNORED" \in e.mask
  /\ rows' = remove_wd_directory(rows, e.wd)
  /\ Continue
  /\ UNCHANGED <<loc, watch, queue, last_wd, last_cookie, ops, prev_cookie,
                 calls, watch_descriptor, doomed, notify>>

\* IN_CLOSE_WRITE and IN_DELETE.
HandleChange(e) ==
  /\ Dispatch(e)
  /\ e.mask \cap {"IN_CLOSE_WRITE", "IN_DELETE"} # {}
  /\ FallThrough(parent_dir_p')
  /\ UNCHANGED <<loc, watch, queue, last_wd, last_cookie, ops, rows,
                 prev_cookie, calls, watch_descriptor, doomed, notify>>

\* All calls of add_watch were made, for an event or for the config file.
WatchNewDone ==
  /\ pc = "add" /\ calls = <<>> /\ buf # <<>>
  /\ IF notify THEN FallThrough(parent_dir_p) ELSE Continue
  /\ UNCHANGED <<loc, watch, queue, last_wd, last_cookie, ops, rows, prev_wd,
                 parent_dir_p, prev_cookie, calls, watch_descriptor, doomed,
                 notify>>

StartupDone ==
  /\ pc = "add" /\ calls = <<>> /\ buf = <<>>
  /\ pc' = "idle"
  /\ UNCHANGED <<fsVars, rows, buf, prev_wd, parent_dir_p, prev_cookie, calls,
                 watch_descriptor, doomed, notify, cache>>

-----------------------------------------------------------------------------
(***************************************************************************)
(* Every other errno of a system call ends the program where it is, with   *)
(* its watches, its table and what it has read: exit(2) for                *)
(* inotify_add_watch, exit(-1) for opendir and for read, exit(15) for      *)
(* inotify_rm_watch in the middle of a list.                               *)
(***************************************************************************)
CallFailed ==
  /\ "error" \in CallFaults
  /\ pc' = "call_error"
  /\ UNCHANGED <<fsVars, rows, buf, prev_wd, parent_dir_p, prev_cookie, calls,
                 watch_descriptor, doomed, notify, cache>>

AddWatchFails ==
  /\ pc = "add" /\ calls # <<>>
  /\ LET path == Head(calls).path
     IN  /\ ~ Excluded(path)
         /\ ~ HasIgnoreSuffix(path)
         /\ find_directory_wd(rows, path) = NULL_WD
  /\ CallFailed

OpendirFails == pc = "list" /\ CallFailed

RemovePrunedFails == pc = "prune" /\ doomed # {} /\ CallFailed

ReadFails == pc = "idle" /\ queue # <<>> /\ CallFailed

-----------------------------------------------------------------------------
Init ==
  /\ FsInit
  /\ pc = "add"
  /\ rows = {}
  /\ buf = <<>>
  /\ prev_wd = NULL_WD
  /\ parent_dir_p = NULL_PATH
  /\ prev_cookie = 0
  /\ calls = [k \in 1 .. Len(TopLevel) |-> Call(NULL_WD, TopLevel[k])]
  /\ watch_descriptor = NULL_WD
  /\ doomed = {}
  /\ notify = FALSE
  /\ cache = {}

Handle(e) ==
  \/ HandleOverflow(e) \/ HandleCreateDir(e) \/ HandleSkipped(e)
  \/ HandleMovedFrom(e) \/ HandleMovedTo(e) \/ HandleIgnored(e)
  \/ HandleChange(e)

\* The program's own steps: it is one thread.
Watcher ==
  \/ AddWatchDeclined \/ AddWatch \/ ListSubDirs
  \/ RemovePruned \/ InsertAfterPrune \/ PruneMovedDone
  \/ ReadEvents \/ WatchNewDone \/ StartupDone \/ Flush
  \/ AddWatchFails \/ OpendirFails \/ RemovePrunedFails \/ ReadFails
  \/ buf # <<>> /\ Handle(Head(buf))

Stopped == pc \in {"overflow", "cookie_error", "sql_error", "call_error", "hung"}

Starting == buf = <<>> /\ pc \in {"add", "list", "prune"}

\* What happens to the tree once the program has stopped is nobody's concern.
Environment ==
  /\ ~ Stopped
  /\ Starting => BusyStartup
  /\ FsNext
  /\ UNCHANGED <<pc, rows, buf, prev_wd, parent_dir_p, prev_cookie, calls,
                 watch_descriptor, doomed, notify, cache>>

Next == Watcher \/ Environment

Spec == Init /\ [][Next]_vars

\* The program never stops by itself; other processes owe nothing.
FairSpec == Spec /\ WF_vars(Watcher)

-----------------------------------------------------------------------------
(***************************************************************************)
(* What holds of every execution, whatever other processes do.             *)
(***************************************************************************)
Pcs == {"add", "list", "prune", "idle", "dispatch",
        "overflow", "cookie_error", "sql_error", "call_error", "hung"}

PathType == Seq(EntryName \cup {"(null)"})

RowType == [wd : Nat \ {NULL_WD}, parent_wd : Nat, path : PathType]

CallType == [parent_wd : Nat, path : PathType]

\* Every variable has its type.
TypeOK ==
  /\ FsTypeOK
  /\ pc \in Pcs
  /\ buf \in Seq(EventType)
  /\ rows \subseteq RowType
  /\ prev_wd \in Nat /\ prev_cookie \in Nat /\ watch_descriptor \in Nat
  /\ parent_dir_p \in PathType
  /\ calls \in Seq(CallType)
  /\ doomed \subseteq Nat \ {NULL_WD}
  /\ notify \in BOOLEAN
  /\ cache \subseteq PathType

\* An event the kernel has for the program and the program has not done yet.
Pending(e) == Queued(buf, e) \/ Queued(queue, e)

Live(wd) == \E i \in Inode : watch[i] = wd

Backed(wd) == Live(wd) \/ Pending(Ignored(wd)) \/ Pending(Overflow)

\* The table never holds a wd the kernel has forgotten without the program
\* going to hear of it: the watch is there, or its IN_IGNORED is on the way,
\* or the queue overflowed and the program is about to exit.  (main.c adds
\* rows for wds it just gave to inotify_rm_watch.)
RowBacked == \A r \in rows : Backed(r.wd)

\* No watch leaks: whatever the kernel watches has a row, so that its events
\* have a path, unless add_watch is about to insert it or
\* remove_pruned_wds is about to remove it.
WatchTracked ==
  \A i \in Inode : watch[i] # 0 =>
    \/ wd_directory_exists(rows, watch[i])
    \/ watch[i] = watch_descriptor
    \/ watch[i] \in doomed

\* No INSERT of the program breaks the PRIMARY KEY or the UNIQUE path, so
\* execute_sql never ends it (wd_directory.c, execute_sql's exit(-1)).
NoSqlFailure == pc # "sql_error"

\* exit(17): an IN_MOVED_FROM never finds its own cookie remembered.
NoCookieError == pc # "cookie_error"

-----------------------------------------------------------------------------
(***************************************************************************)
(* The inductive invariant the properties above follow from.               *)
(***************************************************************************)
\* What each pc says of the locals of the C functions that are running.
ControlInv ==
  /\ pc = "dispatch" => buf # <<>>
  /\ pc = "idle" => buf = <<>>
  /\ pc = "list" => /\ calls # <<>> /\ watch_descriptor # NULL_WD
                    /\ wd_directory_exists(rows, watch_descriptor)
  /\ pc = "prune" => IF watch_descriptor = NULL_WD THEN buf # <<>> ELSE calls # <<>>
  /\ pc \notin {"list", "prune", "sql_error", "call_error", "hung"} =>
       watch_descriptor = NULL_WD
  /\ pc \notin {"prune", "call_error"} => doomed = {}
  /\ pc \in {"add", "list", "prune"} /\ buf # <<>> =>
       Head(buf).mask \cap {"IN_IGNORED", "IN_Q_OVERFLOW"} = {}

\* A watch that is gone stays gone: wds are handed out once.
IgnoredGone(q) ==
  \A n \in 1 .. Len(q) : "IN_IGNORED" \in q[n].mask =>
    /\ q[n] = Ignored(q[n].wd)
    /\ q[n].wd \in 1 .. last_wd
    /\ ~ Live(q[n].wd)

WdInv ==
  /\ \A i, j \in Inode : watch[i] = watch[j] /\ watch[i] # 0 => i = j
  /\ \A i \in Inode : watch[i] <= last_wd
  /\ \A r \in rows : r.wd <= last_wd
  /\ watch_descriptor <= last_wd
  /\ watch_descriptor # NULL_WD => Backed(watch_descriptor)
  /\ IgnoredGone(queue) /\ IgnoredGone(buf)

\* The keys of the table are unique, also for the row add_watch has yet to
\* insert when it has pruned the wd it was given.
KeyInv ==
  /\ \A r, q \in rows : r.wd = q.wd \/ r.path = q.path => r = q
  /\ pc = "prune" /\ watch_descriptor # NULL_WD =>
       InsertAllowed(rows, watch_descriptor, Head(calls).path)
  /\ NoSqlFailure

\* Renames are numbered in the order of their events, and IN_MOVED_FROM is the
\* first event of a number: what is to be handled comes after prev_cookie.
IsMovedFrom(e) == "IN_MOVED_FROM" \in e.mask

CookieInv ==
  /\ prev_cookie <= last_cookie
  /\ \A n \in 1 .. Len(buf) : buf[n].cookie <= last_cookie
  /\ \A n \in 1 .. Len(queue) : queue[n].cookie <= last_cookie
  /\ \A n \in 1 .. Len(buf) : IsMovedFrom(buf[n]) /\ (n > 1 \/ pc = "dispatch") =>
       /\ prev_cookie < buf[n].cookie
       /\ \A m \in 1 .. n - 1 : buf[m].cookie < buf[n].cookie
  /\ \A n \in 1 .. Len(queue) : IsMovedFrom(queue[n]) =>
       /\ prev_cookie < queue[n].cookie
       /\ \A m \in 1 .. Len(buf) : buf[m].cookie < queue[n].cookie
       /\ \A m \in 1 .. n - 1 : queue[m].cookie < queue[n].cookie
  /\ NoCookieError

IInv ==
  TypeOK /\ ControlInv /\ WdInv /\ RowBacked /\ WatchTracked /\ KeyInv /\ CookieInv

-----------------------------------------------------------------------------
(***************************************************************************)
(* What holds once the program has caught up, in trees that change in some *)
(* ways only (the runs say which; they also show where it stops holding).  *)
(***************************************************************************)
\* Everything the kernel reported has been dealt with.
Quiet == pc = "idle" /\ queue = <<>>

\* The paths add_watch takes no interest in.
Declined(path) == Excluded(path) \/ HasIgnoreSuffix(path)

\* The kernel watches directory i, and the table has it at this path.
Watched(i, path) == \E r \in rows : r.wd = watch[i] /\ r.path = path

\* The program watches what its configuration lists and every directory
\* below, created or moved there at any time: once nothing is pending, each
\* top-level directory, and each directory in a watched one, has a live watch
\* and a row with its path (add_watch, main.c).
AllWatched ==
  Quiet =>
    /\ \A k \in DOMAIN TopLevel : \A i \in Resolve(TopLevel[k]) :
         Declined(TopLevel[k]) \/ Watched(i, TopLevel[k])
    /\ \A r \in rows : \A d \in {e \in Inode : watch[e] = r.wd} : \A i \in Children(d) :
         LET path == Append(r.path, loc[i][2])
         IN  Declined(path) \/ Watched(i, path)

\* No event is reported under a path the directory does not have any more:
\* once nothing is pending, every row belongs to a live watch, and its path
\* is where the watched directory is, if it is anywhere (prune_wd_and_clean_up
\* and remove_wd_directory, main.c).
RowsTrue ==
  Quiet => \A r \in rows : \E i \in Inode :
    watch[i] = r.wd /\ (Attached(i) => i \in Resolve(r.path))

\* Directories that are, or were moved, at or below an excluded path or a name
\* that is to be ignored.
Unwanted ==
  CoveredBy(Excludes) \cup
  {i \in Inode : \E j \in Ancestors(i) \cap Inode : Attached(j) /\ loc[j][2] \in IgnoredNames}

\* No watch stays on a directory the configuration excludes (add_watch and
\* the pruning of IN_MOVED_FROM, main.c).
NothingExcludedWatched ==
  Quiet => \A i \in Unwanted : watch[i] = 0

\* wd_directory.h: parent_wd is the wd watching the parent directory.
ParentLink ==
  Quiet => \A r \in rows :
    r.parent_wd = NULL_WD \/
    \E q \in rows : q.wd = r.parent_wd /\ r.path = Append(q.path, r.path[Len(r.path)])

\* prune_wd_directory returns (wd_directory.h promises a list, or NULL).
PruneReturns == pc # "hung"

-----------------------------------------------------------------------------
(***************************************************************************)
(* The inductive invariant, besides IInv, of trees that only grow: why     *)
(* every directory is watched in the end, and at its only path.            *)
(***************************************************************************)
\* Nothing is removed or renamed, but for files, and only errors that end the
\* program are met.
Growing ==
  FsOps \subseteq {"mkdir", "write", "mvfile"} /\ "denied" \notin CallFaults

\* Nobody tells the program of a top-level directory that comes later.
TopLevelExists == \A k \in DOMAIN TopLevel : Resolve(TopLevel[k]) # {}

\* Directories have different places, below others that are there.
TreeInv ==
  /\ \A i \in Inode : loc[i] # Unlinked
  /\ \A i, j \in Inode : loc[i] = loc[j] /\ loc[i] # Gone => i = j
  /\ \A i \in Inode : loc[i] # Gone => Attached(loc[i][1])

\* At any time a row is of the directory at its path, and a watch has a row.
TableInv ==
  /\ \A r \in rows : \E i \in Inode : watch[i] = r.wd /\ i \in Resolve(r.path)
  /\ \A i \in Inode : watch[i] # 0 => wd_directory_exists(rows, watch[i])

LinkedTo(parent_wd, path) ==
  parent_wd = NULL_WD \/
  \E q \in rows : q.wd = parent_wd /\ path = Append(q.path, path[Len(path)])

LinkInv ==
  /\ \A r \in rows : LinkedTo(r.parent_wd, r.path)
  /\ \A n \in 1 .. Len(calls) : LinkedTo(calls[n].parent_wd, calls[n].path)

\* Every event has a path, and the memo has it right.
GrowMasks == { {"IN_CREATE", "IN_ISDIR"}, {"IN_CREATE"}, {"IN_CLOSE_WRITE"},
               {"IN_MOVED_FROM"}, {"IN_MOVED_TO"} }

Grows(e) == e = Overflow \/ (e.mask \in GrowMasks /\ wd_directory_exists(rows, e.wd))

EventInv ==
  /\ \A n \in 1 .. Len(queue) : Grows(queue[n])
  /\ \A n \in 1 .. Len(buf) : Grows(buf[n])
  /\ prev_wd # NULL_WD => \E r \in rows : r.wd = prev_wd /\ r.path = parent_dir_p

\* Nothing is ever pruned.
CallInv ==
  /\ pc # "prune"
  /\ pc \in {"idle", "dispatch"} => calls = <<>>
  /\ pc = "list" => \E r \in rows : r.wd = watch_descriptor /\ r.path = Head(calls).path

\* The events of the batch whose handler has not begun.
Ahead == IF pc = "dispatch" \/ buf = <<>> THEN buf ELSE Tail(buf)

Announced(wd, name) ==
  LET e == Event(wd, {"IN_CREATE", "IN_ISDIR"}, 0, name)
  IN  Queued(Ahead, e) \/ Queued(queue, e)

\* A directory is watched, or is going to be: add_watch has a call to make
\* for it, its creation is still to be handled, or its parent to be listed.
Accounted(i, path) ==
  Declined(path) \/ Watched(i, path) \/ \E n \in 1 .. Len(calls) : calls[n].path = path

TopLevelInv ==
  TopLevelExists /\
  \A k \in DOMAIN TopLevel : \A i \in Resolve(TopLevel[k]) : Accounted(i, TopLevel[k])

ChildrenInv ==
  Pending(Overflow) \/ Stopped \/
  \A r \in rows : \A d \in Inode : watch[d] = r.wd =>
    \A i \in Children(d) :
      \/ Accounted(i, Append(r.path, loc[i][2]))
      \/ Announced(r.wd, loc[i][2])
      \/ pc = "list" /\ r.wd = watch_descriptor

WatchedInv ==
  TreeInv /\ TableInv /\ LinkInv /\ EventInv /\ CallInv /\ TopLevelInv /\ ChildrenInv

\* add_watch looks at the last name of a path only, which is enough if nothing
\* below an ignored name is reached from elsewhere, as by a top-level path.
NotBelowIgnored(path) == \A n \in 1 .. Len(path) - 1 : path[n] \notin IgnoredNames

TopLevelWanted == \A k \in DOMAIN TopLevel : NotBelowIgnored(TopLevel[k])

\* No row, and no call to come, is below a name that is ignored.
WantedInv ==
  /\ \A r \in rows : ~ Declined(r.path) /\ NotBelowIgnored(r.path)
  /\ \A n \in 1 .. Len(calls) : NotBelowIgnored(calls[n].path)

GrowInv == WatchedInv /\ (TopLevelWanted => WantedInv)

-----------------------------------------------------------------------------
(***************************************************************************)
(* Liveness, under FairSpec.                                               *)
(***************************************************************************)
\* Directories the configuration asks the program to report on.
Monitored(i) ==
  /\ i \in CoveredBy({TopLevel[k] : k \in DOMAIN TopLevel})
  /\ i \notin CoveredBy(Excludes)
  /\ \A j \in Ancestors(i) \cap Inode : loc[j][2] \notin IgnoredNames

\* The directory's watch reported a change the program has not read yet.
Reported(i) == watch[i] # 0 /\ \E n \in 1 .. Len(queue) :
                 queue[n].wd = watch[i] /\ queue[n].mask \cap {"IN_DELETE_SELF", "IN_MOVE_SELF"} = {}

\* A change the kernel has an event for, in a directory that stays monitored,
\* is followed by a notification that names the directory or one above it
\* (README: when it detects an event it writes a notification file).
EveryEventPublished ==
  \A i \in Inode :
    (i \in changed /\ Reported(i) /\ Monitored(i)) ~>
      (i \notin changed \/ ~ Monitored(i) \/ Stopped)

\* The program's own inotify_rm_watch calls make events; it does not chase
\* them for ever.  When the tree stops changing it ends up with an empty
\* queue and an empty hash cache.
SettlesDown == <>[](Stopped \/ (Quiet /\ cache = {}))

\* After lost events the program does not go on with a table that may be
\* wrong: it exits, for the Monitor to make a full pass (main.c, exit(16)),
\* if no failing call ended it before.
OverflowStops == Pending(Overflow) ~> pc \in {"overflow", "call_error"}
=============================================================================
