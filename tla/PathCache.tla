------------------------------ MODULE PathCache ------------------------------
(***************************************************************************)
(* What process_inotify_events and flush_hash_cache rely on when they use  *)
(* hash_cache.c: a set of paths.  A path that is added is in the set until *)
(* the next flush, which sees each path of it once; hash_cache_add may     *)
(* refuse a path, and its caller then flushes.                             *)
(***************************************************************************)
EXTENDS Naturals

CONSTANT Data

VARIABLES
  pending,  \* the paths to publish
  flushed,  \* the paths the last flush saw
  refused   \* whether the last hash_cache_add returned 0

Init ==
  /\ pending = {}
  /\ flushed = {}
  /\ refused = FALSE

Take(d) ==
  /\ pending' = pending \cup {d}
  /\ refused' = FALSE
  /\ UNCHANGED flushed

\* A refusal takes nothing, and never happens to an empty cache: a caller
\* that flushes and goes on gets its next path in.
Refuse ==
  /\ pending # {}
  /\ refused' = TRUE
  /\ UNCHANGED <<pending, flushed>>

Flush ==
  /\ flushed' = pending
  /\ pending' = {}
  /\ UNCHANGED refused

Next == (\E d \in Data : Take(d)) \/ Refuse \/ Flush

Spec == Init /\ [][Next]_<<pending, flushed, refused>>
=============================================================================
