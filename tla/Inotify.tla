------------------------------- MODULE Inotify -------------------------------
(***************************************************************************)
(* What the program runs on: a tree of directories that other processes    *)
(* change at any time, and the kernel's side of one inotify instance.      *)
(* None of this is in the repository; it is modelled from the system calls *)
(* src/ makes and the masks it subscribes to (main.c watch_mask).          *)
(*                                                                         *)
(* A watch belongs to a directory (an inode), not to a path, and a         *)
(* directory has at most one: inotify_add_watch on a watched directory     *)
(* returns the wd it has.  wds are never reused.  Removing a watch, or the *)
(* directory under it, queues IN_IGNORED for its wd.                       *)
(***************************************************************************)
EXTENDS Naturals, Sequences, FiniteSets

CONSTANTS
  Inode,       \* the directories that may exist below Root
  Root,        \* the directory above them all; never watched
  Name,        \* names a directory entry may have
  InitLoc,     \* where each directory is at the start
  Fixed,       \* directories other processes leave where they are
  Parents,     \* directories other processes put directories in
  FsOps,       \* the kinds of change other processes make
  MaxOps,      \* bound: how many changes they make
  QueueLimit   \* fs.inotify.max_queued_events

VARIABLES
  loc,          \* loc[i]: <<directory, name>>, Gone or Unlinked
  watch,        \* watch[i]: the wd watching i, 0 when there is none
  queue,        \* events the program has not read yet
  last_wd,      \* the last wd handed out
  last_cookie,  \* the last rename cookie handed out
  ops,          \* how many changes were made
  changed       \* history: directories changed since they were last published

fsVars == <<loc, watch, queue, last_wd, last_cookie, ops, changed>>

Gone == <<>>
Unlinked == <<"unlinked">>   \* removed, but some process holds it open

AllOps == {"mkdir", "rmdir", "hold", "rename", "replace", "write", "mvfile"}

ASSUME InotifyAssumption ==
  /\ IsFiniteSet(Inode) /\ Root \notin Inode
  /\ Fixed \subseteq Inode
  /\ Parents \subseteq Inode \cup {Root}
  /\ FsOps \subseteq AllOps
  /\ MaxOps \in Nat
  /\ QueueLimit \in Nat \ {0}
  /\ InitLoc \in [Inode -> {Gone} \cup ((Inode \cup {Root}) \X Name)]
  /\ \A i, j \in Inode : InitLoc[i] = InitLoc[j] /\ InitLoc[i] # Gone => i = j
  /\ \A i \in Inode : InitLoc[i] # Gone =>
       LET d == InitLoc[i][1] IN d \in Inode => InitLoc[d] # Gone

-----------------------------------------------------------------------------
(***************************************************************************)
(* The tree.                                                               *)
(***************************************************************************)
Attached(i) == i \in Inode => loc[i] \notin {Gone, Unlinked}

Children(d) == {i \in Inode : Attached(i) /\ loc[i][1] = d}

\* i and the directories above it.
Ancestors(i) ==
  LET up[n \in 0 .. Cardinality(Inode)] ==
        IF n = 0 THEN {i}
        ELSE up[n-1] \cup {loc[j][1] : j \in {k \in up[n-1] \ {Root} : Attached(k)}}
  IN  up[Cardinality(Inode)]

\* The directory at a path: a one-element set, or {} when there is none.
Resolve(path) ==
  LET step[n \in 0 .. Len(path)] ==
        IF n = 0 THEN {Root}
        ELSE {i \in Inode : /\ Attached(i)
                            /\ loc[i][1] \in step[n-1]
                            /\ loc[i][2] = path[n]}
  IN  step[Len(path)]

-----------------------------------------------------------------------------
(***************************************************************************)
(* The event queue.  A full queue loses events and holds one IN_Q_OVERFLOW *)
(* in their place.  Its wd, -1 in the kernel, is 0 here: no row has either. *)
(***************************************************************************)
Event(wd, mask, cookie, name) ==
  [wd |-> wd, mask |-> mask, cookie |-> cookie, name |-> name]

Masks == { {"IN_CREATE", "IN_ISDIR"}, {"IN_DELETE", "IN_ISDIR"},
           {"IN_MOVED_FROM", "IN_ISDIR"}, {"IN_MOVED_TO", "IN_ISDIR"},
           {"IN_CREATE"}, {"IN_CLOSE_WRITE"}, {"IN_MOVED_FROM"}, {"IN_MOVED_TO"},
           {"IN_DELETE_SELF"}, {"IN_MOVE_SELF"}, {"IN_IGNORED"}, {"IN_Q_OVERFLOW"} }

EntryName == Name \cup {"", "file"}

EventType ==
  [wd : Nat, mask : Masks, cookie : Nat, name : EntryName]

Ignored(wd) == Event(wd, {"IN_IGNORED"}, 0, "")

Overflow == Event(0, {"IN_Q_OVERFLOW"}, 0, "")

Queued(q, e) == \E n \in 1 .. Len(q) : q[n] = e

Enqueue(q, events) ==
  LET room == IF Len(q) < QueueLimit THEN QueueLimit - Len(q) ELSE 0
  IN  IF Len(events) <= room THEN q \o events
      ELSE IF Queued(q, Overflow) THEN q \o SubSeq(events, 1, room)
      ELSE q \o SubSeq(events, 1, room) \o <<Overflow>>

\* What the watch on directory d, if any, reports.
Report(d, mask, cookie, name) ==
  IF d \in Inode /\ watch[d] # 0
    THEN <<Event(watch[d], mask, cookie, name)>>
    ELSE <<>>

\* The watch on a directory that goes away reports that, then goes away too.
ReportEnd(d) ==
  Report(d, {"IN_DELETE_SELF"}, 0, "") \o
  (IF watch[d] # 0 THEN <<Ignored(watch[d])>> ELSE <<>>)

-----------------------------------------------------------------------------
(***************************************************************************)
(* Changes other processes make to the tree.                               *)
(***************************************************************************)
FsOp(op) ==
  /\ op \in FsOps
  /\ ops < MaxOps
  /\ ops' = ops + 1

Free(d, n) == Attached(d) /\ \A i \in Children(d) : loc[i][2] # n

Mkdir(i, d, n) ==
  /\ FsOp("mkdir")
  /\ loc[i] = Gone
  /\ Free(d, n)
  /\ loc' = [loc EXCEPT ![i] = <<d, n>>]
  /\ queue' = Enqueue(queue, Report(d, {"IN_CREATE", "IN_ISDIR"}, 0, n))
  /\ changed' = changed \cup ({d} \cap Inode)
  /\ UNCHANGED <<watch, last_wd, last_cookie>>

Removable(i) == Attached(i) /\ i \notin Fixed /\ Children(i) = {}

Rmdir(i) ==
  /\ FsOp("rmdir")
  /\ Removable(i)
  /\ loc' = [loc EXCEPT ![i] = Gone]
  /\ watch' = [watch EXCEPT ![i] = 0]
  /\ queue' = Enqueue(queue, ReportEnd(i) \o
                 Report(loc[i][1], {"IN_DELETE", "IN_ISDIR"}, 0, loc[i][2]))
  /\ changed' = (changed \cup ({loc[i][1]} \cap Inode)) \ {i}
  /\ UNCHANGED <<last_wd, last_cookie>>

\* A directory some process has open is unlinked at once, but its inode,
\* and the watch on it, stay until it is closed.
RmdirHeld(i) ==
  /\ FsOp("hold")
  /\ Removable(i)
  /\ loc' = [loc EXCEPT ![i] = Unlinked]
  /\ queue' = Enqueue(queue,
                 Report(loc[i][1], {"IN_DELETE", "IN_ISDIR"}, 0, loc[i][2]))
  /\ changed' = (changed \cup ({loc[i][1]} \cap Inode)) \ {i}
  /\ UNCHANGED <<watch, last_wd, last_cookie>>

Release(i) ==
  /\ loc[i] = Unlinked
  /\ loc' = [loc EXCEPT ![i] = Gone]
  /\ watch' = [watch EXCEPT ![i] = 0]
  /\ queue' = Enqueue(queue, ReportEnd(i))
  /\ UNCHANGED <<last_wd, last_cookie, ops, changed>>

\* What rename(2) reports: IN_MOVED_FROM and IN_MOVED_TO with one cookie, in
\* this order, then IN_MOVE_SELF.
ReportMove(i, d, n) ==
  Report(loc[i][1], {"IN_MOVED_FROM", "IN_ISDIR"}, last_cookie + 1, loc[i][2]) \o
  Report(d, {"IN_MOVED_TO", "IN_ISDIR"}, last_cookie + 1, n) \o
  Report(i, {"IN_MOVE_SELF"}, 0, "")

Movable(i, d) == Attached(i) /\ i \notin Fixed /\ Attached(d) /\ i \notin Ancestors(d)

Rename(i, d, n) ==
  /\ FsOp("rename")
  /\ Movable(i, d)
  /\ Free(d, n)
  /\ loc' = [loc EXCEPT ![i] = <<d, n>>]
  /\ last_cookie' = last_cookie + 1
  /\ queue' = Enqueue(queue, ReportMove(i, d, n))
  /\ changed' = changed \cup ({loc[i][1], d} \cap Inode)
  /\ UNCHANGED <<watch, last_wd>>

\* rename(2) onto an empty directory t replaces it.
RenameOver(i, t) ==
  LET d == loc[t][1]
      n == loc[t][2]
  IN  /\ FsOp("replace")
      /\ i # t
      /\ Removable(t)
      /\ Movable(i, d)
      /\ loc' = [loc EXCEPT ![i] = <<d, n>>, ![t] = Gone]
      /\ watch' = [watch EXCEPT ![t] = 0]
      /\ last_cookie' = last_cookie + 1
      /\ queue' = Enqueue(queue, ReportMove(i, d, n) \o ReportEnd(t))
      /\ changed' = (changed \cup ({loc[i][1], d} \cap Inode)) \ {t}
      /\ UNCHANGED last_wd

\* A new file is written and closed in directory d.
WriteFile(d) ==
  /\ FsOp("write")
  /\ Attached(d)
  /\ queue' = Enqueue(queue, Report(d, {"IN_CREATE"}, 0, "file") \o
                             Report(d, {"IN_CLOSE_WRITE"}, 0, "file"))
  /\ changed' = changed \cup {d}
  /\ UNCHANGED <<loc, watch, last_wd, last_cookie>>

\* A file is moved from directory d to directory e.
MoveFile(d, e) ==
  /\ FsOp("mvfile")
  /\ Attached(d) /\ Attached(e)
  /\ last_cookie' = last_cookie + 1
  /\ queue' = Enqueue(queue,
                 Report(d, {"IN_MOVED_FROM"}, last_cookie + 1, "file") \o
                 Report(e, {"IN_MOVED_TO"}, last_cookie + 1, "file"))
  /\ changed' = changed \cup {d, e}
  /\ UNCHANGED <<loc, watch, last_wd>>

FsInit ==
  /\ loc = InitLoc
  /\ watch = [i \in Inode |-> 0]
  /\ queue = <<>>
  /\ last_wd = 0
  /\ last_cookie = 0
  /\ ops = 0
  /\ changed = {}

FsNext ==
  \/ \E i \in Inode, d \in Parents, n \in Name :
        Mkdir(i, d, n) \/ Rename(i, d, n)
  \/ \E i \in Inode : Rmdir(i) \/ RmdirHeld(i) \/ Release(i) \/ WriteFile(i)
  \/ \E i, t \in Inode : RenameOver(i, t) \/ MoveFile(i, t)

\* The variables above have their types.
FsTypeOK ==
  /\ loc \in [Inode -> {Gone, Unlinked} \cup ((Inode \cup {Root}) \X Name)]
  /\ watch \in [Inode -> Nat]
  /\ queue \in Seq(EventType)
  /\ last_wd \in Nat
  /\ last_cookie \in Nat
  /\ ops \in Nat
  /\ changed \subseteq Inode
=============================================================================
