------------------------------- MODULE WdTable -------------------------------
(***************************************************************************)
(* The table of wd_directory.c as a value: a set of rows                   *)
(*     [wd, parent_wd, path]                                               *)
(* and one operator per SQL statement the program runs on it.  A path is   *)
(* the sequence of its components.  The state of the table, and who runs   *)
(* the statements when, is in the modules that use this one: WdDirectory   *)
(* for the table on its own, DirWatcher for the table inside the program.  *)
(***************************************************************************)
EXTENDS Naturals, Sequences

\* wd_directory.h: the wd no watch has, and the char * NULL of a failed lookup.
NULL_WD == 0
NULL_PATH == <<>>

Row(wd, parent_wd, path) == [wd |-> wd, parent_wd |-> parent_wd, path |-> path]

-----------------------------------------------------------------------------
(***************************************************************************)
(* Queries.                                                                *)
(***************************************************************************)
wd_directory_exists(rows, wd) == \E r \in rows : r.wd = wd

find_wd_directory(rows, wd) ==
  IF wd_directory_exists(rows, wd)
    THEN (CHOOSE r \in rows : r.wd = wd).path
    ELSE NULL_PATH

find_directory_wd(rows, path) ==
  IF \E r \in rows : r.path = path
    THEN (CHOOSE r \in rows : r.path = path).wd
    ELSE NULL_WD

find_wd_parent(rows, wd) ==
  IF wd_directory_exists(rows, wd)
    THEN (CHOOSE r \in rows : r.wd = wd).parent_wd
    ELSE NULL_WD

find_children(rows, wd) == {r.wd : r \in {q \in rows : q.parent_wd = wd}}

-----------------------------------------------------------------------------
(***************************************************************************)
(* Updates.  wd is the PRIMARY KEY and path has a UNIQUE index: an INSERT  *)
(* that breaks either makes execute_sql report the error and exit(-1).     *)
(***************************************************************************)
InsertAllowed(rows, wd, path) == \A r \in rows : r.wd # wd /\ r.path # path

add_wd_directory(rows, wd, parent_wd, path) ==
  rows \cup {Row(wd, parent_wd, path)}

remove_wd_directory(rows, wd) == {r \in rows : r.wd # wd}

-----------------------------------------------------------------------------
(***************************************************************************)
(* prune_wd_directory.  The list the C loop builds starts with wd and is   *)
(* closed under find_children, and holds nothing else: it is the least     *)
(* such set (WdDirectory checks the loop against this definition).  If wd  *)
(* is its own descendant the loop appends wd again for ever.               *)
(***************************************************************************)
ClosedUnderChildren(rows, S) ==
  \A r \in rows : r.parent_wd \in S => r.wd \in S

PruneSet(rows, wd) ==
  LET wds == {wd} \cup {r.wd : r \in rows}
  IN  {w \in wds : \A S \in SUBSET wds :
                     wd \in S /\ ClosedUnderChildren(rows, S) => w \in S}

PruneDiverges(rows, wd) ==
  \E r \in rows : r.wd = wd /\ r.parent_wd \in PruneSet(rows, wd)

prune_wd_directory(rows, wd) == {r \in rows : r.wd \notin PruneSet(rows, wd)}
=============================================================================
