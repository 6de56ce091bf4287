------------------------------ MODULE EventBatch ------------------------------
(***************************************************************************)
(* What iterate_inotify_events.h promises: one call reads some of the      *)
(* events that are waiting, and the following ones hand them out one by    *)
(* one, whole and in order.  DirWatcher's buf, ReadEvents and NextEvent    *)
(* are this; EventBuffer implements it.                                    *)
(***************************************************************************)
EXTENDS Naturals, SequencesExt

VARIABLES
  queue,   \* events that wait in the kernel
  buf      \* events read and not yet done; the first is event_p

Init == queue = <<>> /\ buf = <<>>

\* The kernel appends an event.
Arrive == queue' # <<>> /\ Front(queue') = queue /\ UNCHANGED buf

\* start_iter_inotify
Start(n) ==
  /\ buf = <<>>
  /\ buf' = SubSeq(queue, 1, n)
  /\ queue' = SubSeq(queue, n + 1, Len(queue))

\* next_iter_inotify; an empty buf is the NULL it returns in the end.
Step == buf # <<>> /\ buf' = Tail(buf) /\ UNCHANGED queue

Next ==
  \/ Arrive
  \/ \E n \in 1 .. Len(queue) : Start(n)
  \/ Step

Spec == Init /\ [][Next]_<<queue, buf>>
=============================================================================
