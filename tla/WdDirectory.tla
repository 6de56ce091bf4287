----------------------------- MODULE WdDirectory -----------------------------
(***************************************************************************)
(* wd_directory.c on its own: the table, and prune_wd_directory one turn   *)
(* of its two loops at a time.  The callers are those of main.c, which     *)
(* give a row any parent_wd: one whose row is gone, one below the row, or  *)
(* the row's own wd (DirWatcher reaches all three).                        *)
(***************************************************************************)
EXTENDS WdTable, FiniteSets

CONSTANTS
  Wd,      \* watch descriptors
  Path,    \* directory names
  MaxList  \* bound: the length a list that does not end grows to

ASSUME WdDirectoryAssumption ==
  /\ IsFiniteSet(Wd) /\ Wd \subseteq Nat \ {NULL_WD}
  /\ MaxList \in Nat \ {0}

VARIABLES
  pc,       \* "ready", the loop prune_wd_directory is in, or "exit"
  rows,     \* the table
  list,     \* the wds from head_p on
  current,  \* the position of current_p in list
  returned  \* the list prune_wd_directory returned last

vars == <<pc, rows, list, current, returned>>

Elements(s) == {s[k] : k \in DOMAIN s}

Init ==
  /\ pc = "ready"
  /\ rows = {}
  /\ list = <<>>
  /\ current = 1
  /\ returned = <<>>

\* add_wd_directory, with execute_sql's exit(-1) when the INSERT fails.
Add(wd, parent_wd, path) ==
  /\ pc = "ready"
  /\ IF InsertAllowed(rows, wd, path)
       THEN rows' = add_wd_directory(rows, wd, parent_wd, path) /\ UNCHANGED pc
       ELSE pc' = "exit" /\ UNCHANGED rows
  /\ UNCHANGED <<list, current, returned>>

Remove(wd) ==
  /\ pc = "ready"
  /\ rows' = remove_wd_directory(rows, wd)
  /\ UNCHANGED <<pc, list, current, returned>>

StartPrune(wd) ==
  /\ pc = "ready"
  /\ list' = <<wd>>
  /\ current' = 1
  /\ pc' = "append"
  /\ UNCHANGED <<rows, returned>>

\* Mutation: the loop goes one past the end.
AppendChildren_PastEnd ==
  /\ pc = "append" /\ Len(list) <= MaxList
  /\ LET children == find_children(rows, list[current])
     IN  \E order \in [1 .. Cardinality(children) -> children] :
           /\ children \subseteq Elements(order)
           /\ list' = list \o order
  /\ IF current <= Len(list')
       THEN current' = current + 1 /\ UNCHANGED pc
       ELSE current' = 1 /\ pc' = "remove"
  /\ UNCHANGED <<rows, returned>>

\* Mutation: the children of head_p every time.
AppendChildren_OfHead ==
  /\ pc = "append" /\ Len(list) <= MaxList
  /\ LET children == find_children(rows, list[1])
     IN  \E order \in [1 .. Cardinality(children) -> children] :
           /\ children \subseteq Elements(order)
           /\ list' = list \o order
  /\ IF current < Len(list')
       THEN current' = current + 1 /\ UNCHANGED pc
       ELSE current' = 1 /\ pc' = "remove"
  /\ UNCHANGED <<rows, returned>>

\* Mutation: current_p stays where it is while there are children.
AppendChildren_Stay ==
  /\ pc = "append" /\ Len(list) <= MaxList
  /\ LET children == find_children(rows, list[current])
     IN  \E order \in [1 .. Cardinality(children) -> children] :
           /\ children \subseteq Elements(order)
           /\ list' = list \o order
  /\ IF list' # list
       THEN UNCHANGED <<current, pc>>
       ELSE current' = 1 /\ pc' = "remove"
  /\ UNCHANGED <<rows, returned>>

\* Mutation: the end of the list is taken before the children are there.
AppendChildren_OldTail ==
  /\ pc = "append" /\ Len(list) <= MaxList
  /\ LET children == find_children(rows, list[current])
     IN  \E order \in [1 .. Cardinality(children) -> children] :
           /\ children \subseteq Elements(order)
           /\ list' = list \o order
  /\ IF current < Len(list)
       THEN current' = current + 1 /\ UNCHANGED pc
       ELSE current' = 1 /\ pc' = "remove"
  /\ UNCHANGED <<rows, returned>>

\* A turn of the first loop: the children of current_p, in the order SQLite
\* finds them in, go to the end of the list; at its end the second loop starts.
AppendChildren ==
  /\ pc = "append" /\ Len(list) <= MaxList
  /\ LET children == find_children(rows, list[current])
     IN  \E order \in [1 .. Cardinality(children) -> children] :
           /\ children \subseteq Elements(order)
           /\ list' = list \o order
  /\ IF current < Len(list')
       THEN current' = current + 1 /\ UNCHANGED pc
       ELSE current' = 1 /\ pc' = "remove"
  /\ UNCHANGED <<rows, returned>>

\* Mutation: the rows of the children stay.
RemoveListed_HeadOnly ==
  /\ pc = "remove"
  /\ rows' = remove_wd_directory(rows, list[1])
  /\ IF current < Len(list)
       THEN current' = current + 1 /\ UNCHANGED <<pc, returned>>
       ELSE current' = 1 /\ pc' = "ready" /\ returned' = list
  /\ UNCHANGED list

\* A turn of the second loop; after the last the list is the caller's.
RemoveListed ==
  /\ pc = "remove"
  /\ rows' = remove_wd_directory(rows, list[current])
  /\ IF current < Len(list)
       THEN current' = current + 1 /\ UNCHANGED <<pc, returned>>
       ELSE current' = 1 /\ pc' = "ready" /\ returned' = list
  /\ UNCHANGED list

Next ==
  \/ \E wd \in Wd, parent_wd \in Wd \cup {NULL_WD}, path \in Path :
       Add(wd, parent_wd, path)
  \/ \E wd \in Wd : Remove(wd) \/ StartPrune(wd)
  \/ AppendChildren \/ RemoveListed

Spec == Init /\ [][Next]_vars

\* A call that was made runs on.
FairSpec == Spec /\ WF_vars(AppendChildren \/ RemoveListed)

-----------------------------------------------------------------------------
\* Every variable has its type.
TypeOK ==
  /\ pc \in {"ready", "append", "remove", "exit"}
  /\ rows \subseteq [wd : Wd, parent_wd : Wd \cup {NULL_WD}, path : Path]
  /\ list \in Seq(Wd) /\ returned \in Seq(Wd)
  /\ current \in Nat \ {0}
  /\ pc \in {"append", "remove"} => current <= Len(list)

\* While the list is built it holds wd, then wds below it, each with its
\* children once current_p has passed it (the first loop's invariant).
ListSound ==
  pc = "append" =>
    /\ list[1] \in Elements(list)
    /\ Elements(list) \subseteq PruneSet(rows, list[1])
    /\ \A k \in 1 .. current - 1 : find_children(rows, list[k]) \subseteq Elements(list)

\* A list that ends names no wd twice, so it has at most one node for each
\* row and inotify_rm_watch is called once for each of its wds
\* (prune_wd_directory and remove_pruned_wds).
ListedOnce ==
  (pc = "append" /\ ~ PruneDiverges(rows, list[1])) \/ pc = "remove" =>
    \A j, k \in DOMAIN list : list[j] = list[k] => j = k

\* What the first loop has done: a wd is in the list behind its parent, and
\* current_p has passed no parent whose children are not behind it.
ListInv ==
  pc = "append" =>
    /\ \A m \in 2 .. Len(list) : \E r \in rows, j \in 1 .. current - 1 :
         r.wd = list[m] /\ r.parent_wd = list[j]
    /\ \A j \in 1 .. current - 1 : \A w \in find_children(rows, list[j]) :
         \E m \in j + 1 .. Len(list) : list[m] = w

\* The PRIMARY KEY.
UniqueWds == \A r, q \in rows : r.wd = q.wd => r = q

\* The inductive invariant of WdDirectoryProofs.
IInv == TypeOK /\ ListSound /\ ListedOnce /\ ListInv /\ UniqueWds

\* The first loop is never left for a wd that is below itself.
DivergingNeverReturns ==
  [][pc = "append" /\ PruneDiverges(rows, list[1]) => pc' = "append"]_vars

\* Every other prune returns.
PruneEnds ==
  (pc = "append" /\ ~ PruneDiverges(rows, list[1])) ~> pc = "ready"

\* The two loops do what wd_directory.h promises in one step: the rows go
\* when the first loop has found them all.
Store == INSTANCE WdStore WITH
  table <- IF pc = "remove"
             THEN {r \in rows : \A k \in current .. Len(list) : list[k] # r.wd}
             ELSE rows,
  returned <- Elements(IF pc = "remove" THEN list ELSE returned),
  pruning <- pc = "remove"

StoreSpec == Store!Spec
=============================================================================
