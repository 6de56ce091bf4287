-------------------------- MODULE DirWatcherProofs --------------------------
(***************************************************************************)
(* Theorems about DirWatcher, for every value of its constants.            *)
(***************************************************************************)
EXTENDS DirWatcher, SequenceTheorems, FiniteSetTheorems, TLAPS

-----------------------------------------------------------------------------
(***************************************************************************)
(* The event queue.                                                        *)
(***************************************************************************)

\* Enqueue keeps a queue a queue.
LEMMA EnqueueType ==
  ASSUME NEW q \in Seq(EventType), NEW es \in Seq(EventType)
  PROVE  Enqueue(q, es) \in Seq(EventType)
<1> DEFINE room == IF Len(q) < QueueLimit THEN QueueLimit - Len(q) ELSE 0
           first == SubSeq(es, 1, room)
<1>1. room \in Nat /\ Len(q) \in Nat /\ Len(es) \in Nat
  BY InotifyAssumption, LenProperties
<1>2. Overflow \in EventType
  BY DEF Overflow, Event, EventType, Masks, EntryName
<1>3. q \o es \in Seq(EventType)
  BY ConcatProperties
<1>4. room < Len(es) => first \in Seq(EventType)
  <2> SUFFICES ASSUME room < Len(es) PROVE first \in Seq(EventType)
    OBVIOUS
  <2>1. \A i \in 1 .. room : es[i] \in EventType
    BY <1>1, ElementOfSeq
  <2> QED
    BY <1>1, <2>1, SubSeqProperties
<1>5. room < Len(es) => q \o first \in Seq(EventType)
  BY <1>4, ConcatProperties
<1>6. <<Overflow>> \in Seq(EventType)
  BY <1>2
<1>7. room < Len(es) => (q \o first) \o <<Overflow>> \in Seq(EventType)
  BY <1>5, <1>6, ConcatProperties
<1>8. Enqueue(q, es) \in {q \o es, q \o first, (q \o first) \o <<Overflow>>}
  BY DEF Enqueue
<1>9. ~(room < Len(es)) => Enqueue(q, es) = q \o es
  BY <1>1 DEF Enqueue
<1> QED
  BY <1>3, <1>5, <1>7, <1>8, <1>9

\* What a watch reports is events.
LEMMA ReportType ==
  ASSUME FsTypeOK,
         NEW d, NEW mask \in Masks, NEW cookie \in Nat, NEW name \in EntryName
  PROVE  Report(d, mask, cookie, name) \in Seq(EventType)
<1>1. CASE d \in Inode /\ watch[d] # 0
  <2>1. Event(watch[d], mask, cookie, name) \in EventType
    BY <1>1 DEF FsTypeOK, Event, EventType
  <2> QED
    BY <1>1, <2>1 DEF Report
<1>2. CASE ~ (d \in Inode /\ watch[d] # 0)
  BY <1>2 DEF Report
<1> QED
  BY <1>1, <1>2

\* The IN_IGNORED of a wd is an event.
LEMMA IgnoredType ==
  ASSUME NEW wd \in Nat
  PROVE  Ignored(wd) \in EventType
BY DEF Ignored, Event, EventType, Masks, EntryName

\* What the watch of a directory that goes away reports is events.
LEMMA ReportEndType ==
  ASSUME FsTypeOK, NEW d \in Inode
  PROVE  ReportEnd(d) \in Seq(EventType)
<1>1. Report(d, {"IN_DELETE_SELF"}, 0, "") \in Seq(EventType)
  BY ReportType DEF Masks, EntryName
<1>2. <<Ignored(watch[d])>> \in Seq(EventType)
  BY IgnoredType DEF FsTypeOK
<1> DEFINE gone == IF watch[d] # 0 THEN <<Ignored(watch[d])>> ELSE <<>>
<1>3. gone \in Seq(EventType)
  BY <1>2
<1> HIDE DEF gone
<1>4. Report(d, {"IN_DELETE_SELF"}, 0, "") \o gone \in Seq(EventType)
  BY <1>1, <1>3, ConcatProperties
<1> QED
  BY <1>4 DEF ReportEnd, gone

\* What a rename reports is events.
LEMMA ReportMoveType ==
  ASSUME FsTypeOK, NEW i \in Inode, NEW d, NEW n \in Name, Attached(i)
  PROVE  ReportMove(i, d, n) \in Seq(EventType)
<1>1. loc[i][2] \in EntryName /\ n \in EntryName /\ "" \in EntryName
  BY DEF FsTypeOK, Attached, EntryName
<1>2. last_cookie + 1 \in Nat
  BY DEF FsTypeOK
<1>3. /\ {"IN_MOVED_FROM", "IN_ISDIR"} \in Masks
      /\ {"IN_MOVED_TO", "IN_ISDIR"} \in Masks
      /\ {"IN_MOVE_SELF"} \in Masks
  BY DEF Masks
<1> DEFINE from == Report(loc[i][1], {"IN_MOVED_FROM", "IN_ISDIR"}, last_cookie + 1, loc[i][2])
           to == Report(d, {"IN_MOVED_TO", "IN_ISDIR"}, last_cookie + 1, n)
           self == Report(i, {"IN_MOVE_SELF"}, 0, "")
<1>4. from \in Seq(EventType)
  BY <1>1, <1>2, <1>3, ReportType
<1>5. to \in Seq(EventType)
  BY <1>1, <1>2, <1>3, ReportType
<1>6. self \in Seq(EventType)
  BY <1>1, <1>3, ReportType
<1>7. (from \o to) \o self \in Seq(EventType)
  <2> HIDE DEF from, to, self
  <2> QED BY <1>4, <1>5, <1>6, ConcatProperties
<1> QED
  BY <1>7 DEF ReportMove

\* Other processes leave the kernel's variables what they are.
LEMMA FsStepType ==
  ASSUME FsTypeOK, FsNext
  PROVE  FsTypeOK'
<1> USE DEF FsTypeOK, FsOp
<1>1. ASSUME NEW i \in Inode, NEW d \in Parents, NEW n \in Name, Mkdir(i, d, n)
      PROVE  FsTypeOK'
  <2>1. Report(d, {"IN_CREATE", "IN_ISDIR"}, 0, n) \in Seq(EventType)
    BY ReportType DEF Masks, EntryName
  <2>2. queue' \in Seq(EventType)
    BY <1>1, <2>1, EnqueueType DEF Mkdir
  <2>3. <<d, n>> \in (Inode \cup {Root}) \X Name
    BY InotifyAssumption
  <2> QED
    BY <1>1, <2>2, <2>3 DEF Mkdir
<1>2. ASSUME NEW i \in Inode, NEW d \in Parents, NEW n \in Name, Rename(i, d, n)
      PROVE  FsTypeOK'
  <2>1. queue' \in Seq(EventType)
    BY <1>2, ReportMoveType, EnqueueType DEF Rename, Movable
  <2>2. <<d, n>> \in (Inode \cup {Root}) \X Name
    BY InotifyAssumption
  <2> QED
    BY <1>2, <2>1, <2>2 DEF Rename
<1> DEFINE removed(i) == Report(loc[i][1], {"IN_DELETE", "IN_ISDIR"}, 0, loc[i][2])
<1>3. ASSUME NEW i \in Inode, Attached(i)
      PROVE  removed(i) \in Seq(EventType)
  <2>1. loc[i][2] \in EntryName
    BY <1>3 DEF Attached, EntryName
  <2> QED
    BY <2>1, ReportType DEF Masks
<1>4. ASSUME NEW i \in Inode, Rmdir(i)
      PROVE  FsTypeOK'
  <2>1. removed(i) \in Seq(EventType) /\ ReportEnd(i) \in Seq(EventType)
    BY <1>3, <1>4, ReportEndType DEF Rmdir, Removable
  <2> HIDE DEF removed
  <2>2. ReportEnd(i) \o removed(i) \in Seq(EventType)
    BY <2>1, ConcatProperties
  <2>3. queue' \in Seq(EventType)
    BY <1>4, <2>2, EnqueueType DEF Rmdir, removed
  <2> QED
    BY <1>4, <2>3 DEF Rmdir
<1>5. ASSUME NEW i \in Inode, RmdirHeld(i)
      PROVE  FsTypeOK'
  <2>1. queue' \in Seq(EventType)
    BY <1>3, <1>5, EnqueueType DEF RmdirHeld, Removable
  <2> QED
    BY <1>5, <2>1 DEF RmdirHeld
<1>6. ASSUME NEW i \in Inode, Release(i)
      PROVE  FsTypeOK'
  <2>1. queue' \in Seq(EventType)
    BY <1>6, ReportEndType, EnqueueType DEF Release
  <2> QED
    BY <1>6, <2>1 DEF Release
<1>7. ASSUME NEW i \in Inode, NEW t \in Inode, RenameOver(i, t)
      PROVE  FsTypeOK'
  <2>1. loc[t] \in (Inode \cup {Root}) \X Name
    BY <1>7 DEF RenameOver, Removable, Attached
  <2>2. ReportMove(i, loc[t][1], loc[t][2]) \in Seq(EventType) /\ ReportEnd(t) \in Seq(EventType)
    BY <1>7, <2>1, ReportMoveType, ReportEndType DEF RenameOver, Movable
  <2>3. ReportMove(i, loc[t][1], loc[t][2]) \o ReportEnd(t) \in Seq(EventType)
    BY <2>2, ConcatProperties
  <2>4. queue' \in Seq(EventType)
    BY <1>7, <2>3, EnqueueType DEF RenameOver
  <2>5. <<loc[t][1], loc[t][2]>> \in (Inode \cup {Root}) \X Name
    BY <2>1
  <2>6. /\ last_cookie' = last_cookie + 1
        /\ ops' = ops + 1
        /\ last_wd' = last_wd
        /\ watch' = [watch EXCEPT ![t] = 0]
        /\ loc' = [loc EXCEPT ![i] = <<loc[t][1], loc[t][2]>>, ![t] = Gone]
        /\ changed' = (changed \cup ({loc[i][1], loc[t][1]} \cap Inode)) \ {t}
    BY <1>7 DEF RenameOver
  <2>7. loc' \in [Inode -> {Gone, Unlinked} \cup ((Inode \cup {Root}) \X Name)]
    BY <2>5, <2>6
  <2>8. /\ watch' \in [Inode -> Nat]
        /\ last_wd' \in Nat /\ last_cookie' \in Nat /\ ops' \in Nat
        /\ changed' \subseteq Inode
    BY <2>6
  <2> QED
    BY <2>4, <2>7, <2>8
<1>8. ASSUME NEW d \in Inode, WriteFile(d)
      PROVE  FsTypeOK'
  <2>1. /\ Report(d, {"IN_CREATE"}, 0, "file") \in Seq(EventType)
        /\ Report(d, {"IN_CLOSE_WRITE"}, 0, "file") \in Seq(EventType)
    BY ReportType DEF Masks, EntryName
  <2>2. Report(d, {"IN_CREATE"}, 0, "file") \o Report(d, {"IN_CLOSE_WRITE"}, 0, "file")
          \in Seq(EventType)
    BY <2>1, ConcatProperties
  <2>3. queue' \in Seq(EventType)
    BY <1>8, <2>2, EnqueueType DEF WriteFile
  <2> QED
    BY <1>8, <2>3 DEF WriteFile
<1>9. ASSUME NEW d \in Inode, NEW e \in Inode, MoveFile(d, e)
      PROVE  FsTypeOK'
  <2> DEFINE from == Report(d, {"IN_MOVED_FROM"}, last_cookie + 1, "file")
             to == Report(e, {"IN_MOVED_TO"}, last_cookie + 1, "file")
  <2>0. /\ last_cookie + 1 \in Nat
        /\ {"IN_MOVED_FROM"} \in Masks
        /\ {"IN_MOVED_TO"} \in Masks
        /\ "file" \in EntryName
    BY DEF Masks, EntryName
  <2>1. from \in Seq(EventType)
    BY <2>0, ReportType
  <2>2. to \in Seq(EventType)
    BY <2>0, ReportType
  <2>3. from \o to \in Seq(EventType)
    <3> HIDE DEF from, to
    <3> QED BY <2>1, <2>2, ConcatProperties
  <2>4. queue' \in Seq(EventType)
    BY <1>9, <2>3, EnqueueType DEF MoveFile
  <2> QED
    BY <1>9, <2>4 DEF MoveFile
<1> QED
  BY <1>1, <1>2, <1>4, <1>5, <1>6, <1>7, <1>8, <1>9 DEF FsNext

-----------------------------------------------------------------------------
(***************************************************************************)
(* The wd_directory table.                                                 *)
(***************************************************************************)

\* snprintf("%s/%s") of a path and a name is a path.
LEMMA JoinType ==
  ASSUME NEW parent \in PathType, NEW name \in EntryName
  PROVE  Join(parent, name) \in PathType
<1> DEFINE S == EntryName \cup {"(null)"}
<1>1. name \in S /\ "(null)" \in S /\ parent \in Seq(S)
  BY DEF PathType
<1> HIDE DEF S
<1>2. <<"(null)", name>> \in Seq(S) /\ Append(parent, name) \in Seq(S)
  BY <1>1
<1> QED
  BY <1>2 DEF Join, PathType, S

\* A lookup of a path by wd returns a row's path or NULL, and a lookup of a
\* wd by path a row's wd or NULL_WD.
LEMMA FindType ==
  ASSUME NEW rs \in SUBSET RowType, NEW wd, NEW path
  PROVE  /\ find_wd_directory(rs, wd) \in PathType
         /\ find_directory_wd(rs, path) \in Nat
         /\ find_directory_wd(rs, path) # NULL_WD =>
              \E r \in rs : r.path = path /\ r.wd = find_directory_wd(rs, path)
         /\ find_directory_wd(rs, path) = NULL_WD => \A r \in rs : r.path # path
<1>1. NULL_PATH \in PathType
  BY DEF NULL_PATH, PathType
<1>2. find_wd_directory(rs, wd) \in PathType
  BY <1>1 DEF find_wd_directory, wd_directory_exists, RowType
<1>3. CASE \E r \in rs : r.path = path
  <2>1. (CHOOSE r \in rs : r.path = path) \in {r \in rs : r.path = path}
    BY <1>3
  <2>2. find_directory_wd(rs, path) = (CHOOSE r \in rs : r.path = path).wd
    BY <1>3 DEF find_directory_wd
  <2> QED
    BY <1>2, <2>1, <2>2 DEF RowType
<1>4. CASE ~ \E r \in rs : r.path = path
  BY <1>2, <1>4 DEF find_directory_wd, NULL_WD
<1> QED
  BY <1>3, <1>4

\* prune_wd_directory removes the rows of the wds it returns and no others;
\* it returns the wd it was given, and beside it only wds of rows.
LEMMA PruneFacts ==
  ASSUME NEW rs, NEW wd
  PROVE  /\ wd \in PruneSet(rs, wd)
         /\ PruneSet(rs, wd) \subseteq {wd} \cup {r.wd : r \in rs}
         /\ prune_wd_directory(rs, wd) \subseteq rs
         /\ \A r \in rs : r \in prune_wd_directory(rs, wd) <=> r.wd \notin PruneSet(rs, wd)
<1>1. wd \in PruneSet(rs, wd)
  BY DEF PruneSet
<1>2. PruneSet(rs, wd) \subseteq {wd} \cup {r.wd : r \in rs}
  BY DEF PruneSet
<1> QED
  BY <1>1, <1>2 DEF prune_wd_directory

-----------------------------------------------------------------------------
(***************************************************************************)
(* Type correctness.  ControlInv is needed with it: the first call, the    *)
(* first event and their paths are of their types only where there is a    *)
(* first one.                                                              *)
(***************************************************************************)
TypeInv == TypeOK /\ ControlInv

\* The end of the loop body of process_inotify_events: the next event is the
\* program's, a notification changes nothing but cache and changed.
LEMMA NextEventType ==
  ASSUME TypeOK, buf # <<>>, NextEvent
  PROVE  /\ buf' \in Seq(EventType)
         /\ pc' \in {"idle", "dispatch"}
         /\ pc' = "dispatch" => buf' # <<>>
         /\ pc' = "idle" => buf' = <<>>
<1>1. /\ buf' \in Seq(EventType)
      /\ Len(buf') = Len(buf) - 1
      /\ Len(buf) \in Nat \ {0}
  BY HeadTailProperties, EmptySeq DEF TypeOK, NextEvent
<1>2. buf' = <<>> <=> Len(buf') = 0
  BY <1>1, EmptySeq
<1> QED
  BY <1>1, <1>2 DEF NextEvent

\* hash_cache_add, or the flush when it refuses, keeps the cache a set of paths.
LEMMA NotifyType ==
  ASSUME TypeOK, NEW path \in PathType, Notify(path)
  PROVE  cache' \subseteq PathType /\ changed' \subseteq Inode
BY DEF TypeOK, FsTypeOK, Notify, Publish

\* prune_wd_directory keeps the table a table and returns a list of wds.
LEMMA PruneType ==
  ASSUME TypeOK, NEW wd \in Nat \ {NULL_WD}, Prune(wd), doomed = {}
  PROVE  /\ rows' \in SUBSET RowType
         /\ doomed' \in SUBSET (Nat \ {NULL_WD})
         /\ pc' \in {"prune", "hung"}
         /\ pc' # "prune" => doomed' = {}
<1>1. \A r \in rows : r.wd \in Nat \ {NULL_WD}
  BY DEF TypeOK, RowType
<1>2. PruneSet(rows, wd) \subseteq Nat \ {NULL_WD} /\ prune_wd_directory(rows, wd) \subseteq rows
  BY <1>1, PruneFacts
<1> QED
  BY <1>2 DEF Prune, TypeOK

\* add_wd_directory keeps the table a table.
LEMMA InsertType ==
  ASSUME TypeOK, NEW wd \in Nat \ {NULL_WD}, NEW call \in CallType, Insert(rows, wd, call)
  PROVE  /\ rows' \in SUBSET RowType
         /\ pc' \in {"list", "sql_error"}
         /\ pc' = "list" => wd_directory_exists(rows', wd)
<1>1. CASE InsertAllowed(rows, wd, call.path)
  <2> DEFINE row == Row(wd, call.parent_wd, call.path)
  <2>1. rows' = rows \cup {row} /\ pc' = "list"
    BY <1>1 DEF Insert, add_wd_directory
  <2>2. row \in RowType /\ row.wd = wd
    BY DEF Row, RowType, CallType
  <2> HIDE DEF row
  <2> QED
    BY <2>1, <2>2 DEF TypeOK, wd_directory_exists
<1>2. CASE ~ InsertAllowed(rows, wd, call.path)
  BY <1>2 DEF Insert, TypeOK
<1> QED
  BY <1>1, <1>2

\* add_watch and what it calls.
LEMMA AddWatchType ==
  ASSUME TypeInv, AddWatchDeclined \/ AddWatch \/ ListSubDirs
  PROVE  TypeInv'
<1> USE DEF TypeInv
<1>1. calls # <<>> => Head(calls) \in CallType /\ Tail(calls) \in Seq(CallType)
  BY HeadTailProperties DEF TypeOK
<1>2. CASE AddWatchDeclined
  BY <1>1, <1>2 DEF AddWatchDeclined, TypeOK, ControlInv, FsTypeOK, fsVars
<1>3. CASE AddWatch
  <2> DEFINE call == Head(calls)
  <2>1. call \in CallType
    BY <1>1, <1>3 DEF AddWatch
  <2>2. PICK i \in Inode :
          /\ InotifyAddWatch(i)
          /\ IF wd_directory_exists(rows, watch_descriptor')
               THEN Prune(watch_descriptor')
               ELSE /\ Insert(rows, watch_descriptor', call)
                    /\ UNCHANGED doomed
    BY <1>3 DEF AddWatch, InotifyAddWatch
  <2>3. /\ watch_descriptor' \in Nat \ {NULL_WD}
        /\ watch' \in [Inode -> Nat]
        /\ last_wd' \in Nat
    BY <2>2 DEF InotifyAddWatch, TypeOK, FsTypeOK, NULL_WD
  <2>4. doomed = {} /\ calls # <<>> /\ pc = "add"
    BY <1>3 DEF AddWatch, ControlInv
  <2>5. /\ rows' \in SUBSET RowType
        /\ doomed' \in SUBSET (Nat \ {NULL_WD})
        /\ pc' = "list" => wd_directory_exists(rows', watch_descriptor')
        /\ pc' \in {"prune", "hung", "list", "sql_error"}
        /\ pc' # "prune" => doomed' = {}
    <3> HIDE DEF call
    <3>1. CASE wd_directory_exists(rows, watch_descriptor')
      BY <2>2, <2>3, <2>4, <3>1, PruneType
    <3>2. CASE ~ wd_directory_exists(rows, watch_descriptor')
      <4>1. Insert(rows, watch_descriptor', call) /\ doomed' = {}
        BY <2>2, <2>4, <3>2
      <4> QED
        BY <2>1, <2>3, <4>1, InsertType
    <3> QED
      BY <3>1, <3>2
  <2>6. /\ UNCHANGED <<loc, queue, last_cookie, ops, changed, buf, prev_wd,
                       parent_dir_p, prev_cookie, calls, cache>>
        /\ notify' = TRUE
    BY <1>3 DEF AddWatch
  <2>7. TypeOK'
    BY <2>3, <2>5, <2>6 DEF TypeOK, FsTypeOK, Pcs
  <2>8. ControlInv'
    BY <2>3, <2>4, <2>5, <2>6 DEF ControlInv
  <2> QED
    BY <2>7, <2>8
<1>4. CASE ListSubDirs
  <2> DEFINE subs == UNION {Children(d) : d \in Resolve(Head(calls).path)}
  <2>1. Head(calls) \in CallType /\ Tail(calls) \in Seq(CallType)
    BY <1>1, <1>4 DEF ListSubDirs, ControlInv
  <2>2. subs \subseteq {i \in Inode : Attached(i)}
    BY DEF Children
  <2>3. Cardinality(subs) \in Nat
    BY <2>2, InotifyAssumption, FS_Subset, FS_CardinalityType
  <2>4. PICK order \in [1 .. Cardinality(subs) -> subs] :
          calls' = [k \in 1 .. Cardinality(subs) |->
                      Call(watch_descriptor, Join(Head(calls).path, loc[order[k]][2]))]
                   \o Tail(calls)
    BY <1>4 DEF ListSubDirs
  <2> HIDE DEF subs
  <2>5. ASSUME NEW k \in 1 .. Cardinality(subs)
        PROVE  Call(watch_descriptor, Join(Head(calls).path, loc[order[k]][2])) \in CallType
    <3>1. order[k] \in Inode /\ Attached(order[k])
      BY <2>2
    <3>2. loc[order[k]][2] \in EntryName
      BY <3>1 DEF TypeOK, FsTypeOK, Attached, EntryName
    <3>3. Join(Head(calls).path, loc[order[k]][2]) \in PathType
      BY <2>1, <3>2, JoinType DEF CallType
    <3> QED
      BY <3>3 DEF Call, CallType, TypeOK
  <2>6. calls' \in Seq(CallType)
    <3> DEFINE new == [k \in 1 .. Cardinality(subs) |->
                 Call(watch_descriptor, Join(Head(calls).path, loc[order[k]][2]))]
    <3>1. new \in [1 .. Cardinality(subs) -> CallType]
      BY <2>5
    <3>2. new \in Seq(CallType)
      BY <2>3, <3>1
    <3> HIDE DEF new
    <3>3. new \o Tail(calls) \in Seq(CallType)
      BY <2>1, <3>2, ConcatProperties
    <3> QED
      BY <2>4, <3>3 DEF new
  <2>7. /\ pc' = "add" /\ watch_descriptor' = NULL_WD
        /\ pc = "list"
        /\ UNCHANGED <<fsVars, rows, buf, prev_wd, parent_dir_p, prev_cookie,
                       doomed, notify, cache>>
    BY <1>4 DEF ListSubDirs
  <2>8. TypeOK'
    BY <2>6, <2>7 DEF TypeOK, FsTypeOK, fsVars, Pcs, NULL_WD
  <2>9. ControlInv'
    BY <2>7 DEF ControlInv
  <2> QED
    BY <2>8, <2>9
<1> QED
  BY <1>2, <1>3, <1>4

\* remove_pruned_wds, and what its two callers do next.
LEMMA RemovePrunedType ==
  ASSUME TypeInv, RemovePruned \/ InsertAfterPrune \/ PruneMovedDone
  PROVE  TypeInv'
<1> USE DEF TypeInv
<1>1. CASE RemovePruned
  <2>1. PICK wd \in doomed : InotifyRmWatch(wd) /\ doomed' = doomed \ {wd}
    BY <1>1 DEF RemovePruned
  <2>2. wd \in Nat
    BY DEF TypeOK
  <2>3. <<Ignored(wd)>> \in Seq(EventType)
    BY <2>2, IgnoredType
  <2>4. Enqueue(queue, <<Ignored(wd)>>) \in Seq(EventType)
    BY <2>3, EnqueueType DEF TypeOK, FsTypeOK
  <2>5. watch' \in [Inode -> Nat] /\ queue' \in Seq(EventType)
    BY <2>1, <2>4 DEF InotifyRmWatch, TypeOK, FsTypeOK
  <2> QED
    BY <1>1, <2>1, <2>5 DEF RemovePruned, TypeOK, FsTypeOK, ControlInv
<1>2. CASE InsertAfterPrune
  <2>1. /\ Head(calls) \in CallType
        /\ watch_descriptor \in Nat \ {NULL_WD}
        /\ calls # <<>>
        /\ Insert(rows, watch_descriptor, Head(calls))
        /\ doomed = {}
    BY <1>2, HeadTailProperties DEF InsertAfterPrune, ControlInv, TypeOK
  <2>2. /\ rows' \in SUBSET RowType /\ pc' \in {"list", "sql_error"}
        /\ pc' = "list" => wd_directory_exists(rows', watch_descriptor)
    BY <2>1, InsertType
  <2> QED
    BY <1>2, <2>1, <2>2
    DEF InsertAfterPrune, TypeOK, FsTypeOK, fsVars, Pcs, ControlInv
<1>3. CASE PruneMovedDone
  <2>1. /\ buf # <<>> /\ doomed = {} /\ watch_descriptor = NULL_WD
        /\ NextEvent /\ Notify(parent_dir_p) /\ parent_dir_p \in PathType
    BY <1>3 DEF PruneMovedDone, FallThrough, ControlInv, TypeOK
  <2>2. /\ buf' \in Seq(EventType) /\ pc' \in {"idle", "dispatch"}
        /\ pc' = "dispatch" => buf' # <<>>
        /\ pc' = "idle" => buf' = <<>>
    BY <2>1, NextEventType
  <2>3. cache' \subseteq PathType /\ changed' \subseteq Inode
    BY <2>1, NotifyType
  <2> QED
    BY <1>3, <2>1, <2>2, <2>3 DEF PruneMovedDone, TypeOK, FsTypeOK, Pcs, ControlInv
<1> QED
  BY <1>1, <1>2, <1>3

\* The steps between two events.
LEMMA MainLoopType ==
  ASSUME TypeInv, ReadEvents \/ WatchNewDone \/ StartupDone \/ Flush
  PROVE  TypeInv'
<1> USE DEF TypeInv
<1>1. CASE ReadEvents
  <2> DEFINE n == IF Len(queue) < BatchLimit THEN Len(queue) ELSE BatchLimit
  <2>1. queue \in Seq(EventType) /\ Len(queue) \in Nat \ {0}
    BY <1>1, EmptySeq DEF ReadEvents, TypeOK, FsTypeOK
  <2>2. n \in 1 .. Len(queue)
    BY <2>1, DirWatcherAssumption
  <2>3. buf' = SubSeq(queue, 1, n) /\ queue' = SubSeq(queue, n + 1, Len(queue))
    BY <1>1 DEF ReadEvents
  <2> HIDE DEF n
  <2>4. buf' \in Seq(EventType) /\ Len(buf') = n /\ queue' \in Seq(EventType)
    <3>1. \A k \in 1 .. Len(queue) : queue[k] \in EventType
      BY <2>1, ElementOfSeq
    <3>2. buf' \in Seq(EventType) /\ Len(buf') = n
      BY <2>1, <2>2, <2>3, <3>1, SubSeqProperties
    <3>3. queue' \in Seq(EventType)
      BY <2>1, <2>2, <2>3, <3>1, SubSeqProperties
    <3> QED
      BY <3>2, <3>3
  <2>5. buf' # <<>>
    BY <2>2, <2>4
  <2>6. NULL_PATH \in PathType
    BY DEF NULL_PATH, PathType
  <2> QED
    BY <1>1, <2>4, <2>5, <2>6
    DEF ReadEvents, TypeOK, FsTypeOK, Pcs, ControlInv, NULL_WD
<1>2. CASE WatchNewDone
  <2>1. /\ buf # <<>> /\ NextEvent /\ parent_dir_p \in PathType
        /\ Notify(parent_dir_p) \/ UNCHANGED <<cache, changed>>
        /\ pc = "add"
    BY <1>2 DEF WatchNewDone, FallThrough, Continue, TypeOK
  <2>2. /\ buf' \in Seq(EventType) /\ pc' \in {"idle", "dispatch"}
        /\ pc' = "dispatch" => buf' # <<>>
        /\ pc' = "idle" => buf' = <<>>
    BY <2>1, NextEventType
  <2>3. cache' \subseteq PathType /\ changed' \subseteq Inode
    BY <2>1, NotifyType DEF TypeOK, FsTypeOK
  <2> QED
    BY <1>2, <2>1, <2>2, <2>3 DEF WatchNewDone, TypeOK, FsTypeOK, Pcs, ControlInv
<1>3. CASE StartupDone
  BY <1>3 DEF StartupDone, TypeOK, FsTypeOK, fsVars, Pcs, ControlInv
<1>4. CASE Flush
  BY <1>4 DEF Flush, Publish, TypeOK, FsTypeOK, ControlInv
<1> QED
  BY <1>1, <1>2, <1>3, <1>4

\* What every handler starts from: an event, and its parent's path.
LEMMA DispatchType ==
  ASSUME TypeInv, NEW e, buf # <<>>, e = Head(buf), Dispatch(e)
  PROVE  /\ e \in EventType
         /\ prev_wd' \in Nat
         /\ parent_dir_p' \in PathType
         /\ Join(parent_dir_p', e.name) \in PathType
         /\ pc = "dispatch" /\ doomed = {} /\ watch_descriptor = NULL_WD
<1>1. e \in EventType
  BY HeadTailProperties DEF TypeInv, TypeOK
<1>2. parent_dir_p' \in PathType
  BY FindType DEF TypeInv, TypeOK, Dispatch, ParentDir
<1>3. Join(parent_dir_p', e.name) \in PathType
  BY <1>1, <1>2, JoinType DEF EventType
<1> QED
  BY <1>1, <1>2, <1>3 DEF EventType, Dispatch, TypeInv, ControlInv

\* Handlers that end with the event.
LEMMA DoneType ==
  ASSUME TypeInv, NEW e, buf # <<>>, e = Head(buf),
         HandleSkipped(e) \/ HandleIgnored(e) \/ HandleChange(e)
  PROVE  TypeInv'
<1>1. Dispatch(e) /\ NextEvent
  BY DEF HandleSkipped, HandleIgnored, HandleChange, Continue, FallThrough
<1>2. /\ prev_wd' \in Nat /\ parent_dir_p' \in PathType
      /\ doomed = {} /\ watch_descriptor = NULL_WD
  BY <1>1, DispatchType
<1>3. /\ buf' \in Seq(EventType) /\ pc' \in {"idle", "dispatch"}
      /\ pc' = "dispatch" => buf' # <<>>
      /\ pc' = "idle" => buf' = <<>>
  BY <1>1, NextEventType DEF TypeInv
<1>4. cache' \subseteq PathType /\ changed' \subseteq Inode
  BY <1>2, NotifyType DEF HandleSkipped, HandleIgnored, HandleChange, Continue,
                          FallThrough, TypeInv, TypeOK, FsTypeOK
<1>5. rows' \in SUBSET RowType
  BY DEF HandleSkipped, HandleIgnored, HandleChange, remove_wd_directory, TypeInv, TypeOK
<1>6. UNCHANGED <<loc, watch, queue, last_wd, last_cookie, ops, prev_cookie,
                  calls, watch_descriptor, doomed, notify>>
  BY DEF HandleSkipped, HandleIgnored, HandleChange
<1> QED
  BY <1>2, <1>3, <1>4, <1>5, <1>6 DEF TypeInv, TypeOK, FsTypeOK, Pcs, ControlInv

\* IN_MOVED_FROM keeps the types and what pc says of the locals.
LEMMA HandleMovedFromType ==
  ASSUME TypeInv, NEW e, buf # <<>>, e = Head(buf), HandleMovedFrom(e)
  PROVE  TypeInv'
<1> DEFINE wd == find_directory_wd(rows, Join(parent_dir_p', e.name))
<1>1. /\ e \in EventType
      /\ prev_wd' \in Nat /\ parent_dir_p' \in PathType
      /\ pc = "dispatch" /\ doomed = {} /\ watch_descriptor = NULL_WD
  BY DispatchType DEF HandleMovedFrom
<1>2. wd \in Nat
  BY FindType DEF TypeInv, TypeOK
<1>3. UNCHANGED <<loc, watch, queue, last_wd, last_cookie, ops, calls,
                  watch_descriptor, notify>>
  BY DEF HandleMovedFrom
<1> HIDE DEF wd
<1>4. CASE e.cookie = prev_cookie
  <2>1. /\ pc' = "cookie_error"
        /\ UNCHANGED <<prev_cookie, rows, doomed, buf, cache, changed>>
    BY <1>4 DEF HandleMovedFrom
  <2> QED
    BY <1>1, <1>3, <2>1 DEF TypeInv, TypeOK, FsTypeOK, Pcs, ControlInv
<1>5. CASE e.cookie # prev_cookie /\ "IN_ISDIR" \in e.mask /\ wd # NULL_WD
  <2>1. Prune(wd) /\ UNCHANGED <<buf, cache, changed>> /\ prev_cookie' = e.cookie
    BY <1>5 DEF HandleMovedFrom, wd
  <2>2. /\ rows' \in SUBSET RowType
        /\ doomed' \in SUBSET (Nat \ {NULL_WD})
        /\ pc' \in {"prune", "hung"}
        /\ pc' # "prune" => doomed' = {}
    BY <1>1, <1>2, <1>5, <2>1, PruneType DEF TypeInv
  <2>3. Head(buf).mask \cap {"IN_IGNORED", "IN_Q_OVERFLOW"} = {}
    BY <1>1 DEF HandleMovedFrom, EventType, Masks
  <2> QED
    BY <1>1, <1>3, <2>1, <2>2, <2>3 DEF TypeInv, TypeOK, FsTypeOK, Pcs, ControlInv, EventType
<1>6. CASE e.cookie # prev_cookie /\ ~("IN_ISDIR" \in e.mask /\ wd # NULL_WD)
  <2>1. NextEvent /\ Notify(parent_dir_p') /\ UNCHANGED <<rows, doomed>> /\ prev_cookie' = e.cookie
    BY <1>6 DEF HandleMovedFrom, FallThrough, wd
  <2>2. /\ buf' \in Seq(EventType) /\ pc' \in {"idle", "dispatch"}
        /\ pc' = "dispatch" => buf' # <<>>
        /\ pc' = "idle" => buf' = <<>>
    BY <2>1, NextEventType DEF TypeInv
  <2>3. cache' \subseteq PathType /\ changed' \subseteq Inode
    BY <1>1, <2>1, NotifyType DEF TypeInv
  <2> QED
    BY <1>1, <1>3, <2>1, <2>2, <2>3 DEF TypeInv, TypeOK, FsTypeOK, Pcs, ControlInv, EventType
<1> QED
  BY <1>4, <1>5, <1>6

\* IN_MOVED_TO keeps the types and what pc says of the locals.
LEMMA HandleMovedToType ==
  ASSUME TypeInv, NEW e, buf # <<>>, e = Head(buf), HandleMovedTo(e)
  PROVE  TypeInv'
<1>1. /\ e \in EventType
      /\ prev_wd' \in Nat /\ parent_dir_p' \in PathType
      /\ Join(parent_dir_p', e.name) \in PathType
      /\ pc = "dispatch" /\ doomed = {} /\ watch_descriptor = NULL_WD
  BY DispatchType DEF HandleMovedTo
<1>2. prev_cookie' \in Nat
  BY <1>1 DEF HandleMovedTo, EventType
<1>3. UNCHANGED <<loc, watch, queue, last_wd, last_cookie, ops, rows,
                  watch_descriptor, doomed>>
  BY DEF HandleMovedTo
<1>4. CASE "IN_ISDIR" \in e.mask
  <2>1. /\ calls' = <<Call(e.wd, Join(parent_dir_p', e.name))>>
        /\ notify' = TRUE /\ pc' = "add"
        /\ UNCHANGED <<buf, cache, changed>>
    BY <1>4 DEF HandleMovedTo
  <2>2. Call(e.wd, Join(parent_dir_p', e.name)) \in CallType
    BY <1>1 DEF Call, CallType, EventType
  <2>3. calls' \in Seq(CallType)
    BY <2>1, <2>2
  <2>4. Head(buf).mask \cap {"IN_IGNORED", "IN_Q_OVERFLOW"} = {}
    BY <1>1 DEF HandleMovedTo, EventType, Masks
  <2> QED
    BY <1>1, <1>2, <1>3, <2>1, <2>3, <2>4 DEF TypeInv, TypeOK, FsTypeOK, Pcs, ControlInv
<1>5. CASE "IN_ISDIR" \notin e.mask
  <2>1. NextEvent /\ Notify(parent_dir_p') /\ UNCHANGED <<calls, notify>>
    BY <1>5 DEF HandleMovedTo, FallThrough
  <2>2. /\ buf' \in Seq(EventType) /\ pc' \in {"idle", "dispatch"}
        /\ pc' = "dispatch" => buf' # <<>>
        /\ pc' = "idle" => buf' = <<>>
    BY <2>1, NextEventType DEF TypeInv
  <2>3. cache' \subseteq PathType /\ changed' \subseteq Inode
    BY <1>1, <2>1, NotifyType DEF TypeInv
  <2> QED
    BY <1>1, <1>2, <1>3, <2>1, <2>2, <2>3 DEF TypeInv, TypeOK, FsTypeOK, Pcs, ControlInv
<1> QED
  BY <1>4, <1>5

\* The IN_CREATE of a directory keeps the types and what pc says of the locals.
LEMMA HandleCreateDirType ==
  ASSUME TypeInv, NEW e, buf # <<>>, e = Head(buf), HandleCreateDir(e) \/ HandleOverflow(e)
  PROVE  TypeInv'
<1>1. /\ e \in EventType
      /\ prev_wd' \in Nat /\ parent_dir_p' \in PathType
      /\ Join(parent_dir_p', e.name) \in PathType
      /\ pc = "dispatch" /\ doomed = {} /\ watch_descriptor = NULL_WD
  BY DispatchType DEF HandleCreateDir, HandleOverflow
<1>2. UNCHANGED <<fsVars, rows, buf, prev_cookie, watch_descriptor, doomed, cache>>
  BY DEF HandleCreateDir, HandleOverflow
<1>3. CASE HandleCreateDir(e)
  <2>1. /\ calls' = <<Call(e.wd, Join(parent_dir_p', e.name))>>
        /\ notify' = FALSE /\ pc' = "add"
    BY <1>3 DEF HandleCreateDir
  <2>2. Call(e.wd, Join(parent_dir_p', e.name)) \in CallType
    BY <1>1 DEF Call, CallType, EventType
  <2>3. calls' \in Seq(CallType)
    BY <2>1, <2>2
  <2>4. Head(buf).mask \cap {"IN_IGNORED", "IN_Q_OVERFLOW"} = {}
    BY <1>1, <1>3 DEF HandleCreateDir, EventType, Masks
  <2> QED
    BY <1>1, <1>2, <2>1, <2>3, <2>4
    DEF TypeInv, TypeOK, FsTypeOK, fsVars, Pcs, ControlInv
<1>4. CASE HandleOverflow(e)
  BY <1>1, <1>2, <1>4
  DEF HandleOverflow, TypeInv, TypeOK, FsTypeOK, fsVars, Pcs, ControlInv
<1> QED
  BY <1>3, <1>4

\* The program starts with TypeInv.
LEMMA InitType == Init => TypeInv
<1> SUFFICES ASSUME Init PROVE TypeInv
  OBVIOUS
<1>1. FsTypeOK
  <2>1. <<>> \in Seq(EventType)
    OBVIOUS
  <2>2. loc \in [Inode -> {Gone, Unlinked} \cup ((Inode \cup {Root}) \X Name)]
    BY InotifyAssumption DEF Init, FsInit
  <2> QED
    BY <2>1, <2>2 DEF Init, FsInit, FsTypeOK
<1>2. calls \in Seq(CallType)
  <2>1. /\ Len(TopLevel) \in Nat
        /\ \A k \in 1 .. Len(TopLevel) : TopLevel[k] \in Seq(Name)
    BY DirWatcherAssumption, LenProperties, ElementOfSeq
  <2>2. \A k \in 1 .. Len(TopLevel) : TopLevel[k] \in PathType
    BY <2>1, SeqMonotonic DEF PathType, EntryName
  <2>3. \A k \in 1 .. Len(TopLevel) : Call(NULL_WD, TopLevel[k]) \in CallType
    BY <2>2 DEF Call, CallType, NULL_WD
  <2>4. calls \in [1 .. Len(TopLevel) -> CallType]
    BY <2>3 DEF Init
  <2> QED
    BY <2>1, <2>4
<1>3. buf \in Seq(EventType) /\ parent_dir_p \in PathType
  BY DEF Init, NULL_PATH, PathType
<1> QED
  BY <1>1, <1>2, <1>3 DEF Init, TypeInv, TypeOK, ControlInv, Pcs, NULL_WD

\* Every step, of the program or of its environment, keeps TypeInv.
LEMMA StepType == TypeInv /\ [Next]_vars => TypeInv'
<1> SUFFICES ASSUME TypeInv, [Next]_vars PROVE TypeInv'
  OBVIOUS
<1>1. CASE AddWatchDeclined \/ AddWatch \/ ListSubDirs
  BY <1>1, AddWatchType
<1>2. CASE RemovePruned \/ InsertAfterPrune \/ PruneMovedDone
  BY <1>2, RemovePrunedType
<1>3. CASE ReadEvents \/ WatchNewDone \/ StartupDone \/ Flush
  BY <1>3, MainLoopType
<1>4. CASE buf # <<>> /\ Handle(Head(buf))
  BY <1>4, DoneType, HandleMovedFromType, HandleMovedToType, HandleCreateDirType DEF Handle
<1>5. CASE Environment
  <2>1. FsTypeOK'
    BY <1>5, FsStepType DEF Environment, TypeInv, TypeOK
  <2> QED
    BY <1>5, <2>1 DEF Environment, TypeInv, TypeOK, ControlInv
<1>6. CASE UNCHANGED vars
  BY <1>6 DEF vars, fsVars, TypeInv, TypeOK, FsTypeOK, ControlInv
<1>7. CASE AddWatchFails \/ OpendirFails \/ RemovePrunedFails \/ ReadFails
  <2>1. UNCHANGED <<fsVars, rows, buf, prev_wd, parent_dir_p, prev_cookie, calls,
                    watch_descriptor, doomed, notify, cache>>
    BY <1>7 DEF AddWatchFails, OpendirFails, RemovePrunedFails, ReadFails, CallFailed
  <2>2. pc' = "call_error"
    BY <1>7 DEF AddWatchFails, OpendirFails, RemovePrunedFails, ReadFails, CallFailed
  <2> QED
    BY <2>1, <2>2 DEF fsVars, TypeInv, TypeOK, FsTypeOK, Pcs, ControlInv
<1> QED
  BY <1>1, <1>2, <1>3, <1>4, <1>5, <1>6, <1>7 DEF Next, Watcher

\* Every variable always has its type.
THEOREM TypeCorrect == Spec => []TypeOK
<1>1. TypeInv => TypeOK
  BY DEF TypeInv
<1> QED
  BY <1>1, InitType, StepType, PTL DEF Spec
=============================================================================
