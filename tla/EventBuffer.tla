----------------------------- MODULE EventBuffer -----------------------------
(***************************************************************************)
(* iterate_inotify_events.c: the buffer, and the offsets that lead from    *)
(* one event to the next, against what the kernel puts there.  The buffer  *)
(* is made of cells of 8 bytes.  An event is a header of two cells, the    *)
(* first of which tells len, and len cells of name: the kernel fills names *)
(* up.  What a read does not overwrite stays from the reads before.        *)
(***************************************************************************)
EXTENDS Naturals, Sequences, FiniteSetsExt

CONSTANTS
  BufferLen,    \* INOTIFY_EVENT_BUFFER_LEN, in cells
  Event,        \* events: records with a name and its len
  WaitingLimit  \* bound: events that wait in the kernel

HeaderLen == 2           \* INOTIFY_EVENT_SIZE
NoEvent == BufferLen     \* the NULL that ends the iteration: no event is there

\* The constants make sense: every event fits in the buffer.
BufferConstants ==
  /\ BufferLen \in Nat \ {0} /\ WaitingLimit \in Nat
  /\ \A e \in Event : e.len \in Nat /\ HeaderLen + e.len <= BufferLen

VARIABLES
  queue,                \* events that wait in the kernel
  cells,                \* inotify_event_buffer
  start_unused_buffer,  \* end of what the last read gave
  event_start_index,    \* where the current event is, and its size
  event_size,
  event_p,              \* the index returned last, or NoEvent
  invalid,              \* exit(-1) for an "invalid event structure"
  later                 \* events of the batch behind this one (history)

vars == <<queue, cells, start_unused_buffer, event_start_index, event_size,
          event_p, invalid, later>>

-----------------------------------------------------------------------------
\* What an event takes in memory, its name included.
Size(e) == HeaderLen + e.len

\* Where each of some events ends when they lie one behind the other from the
\* start of the buffer on; Ends(events)[k - 1] is where the k-th one begins.
Ends(events) ==
  LET end[k \in 0 .. Len(events)] ==
        IF k = 0 THEN 0 ELSE end[k - 1] + Size(events[k])
  IN  end

BytesOf(events) == Ends(events)[Len(events)]

\* A cell behind the first one of an event, taken for the start of an event,
\* would tell a len that is too large.
Junk == [name |-> "junk", len |-> BufferLen]

\* What the events put in cell c.
CellOf(events, c) ==
  LET starts == {k \in DOMAIN events : Ends(events)[k - 1] = c}
  IN  IF starts = {} THEN Junk ELSE events[CHOOSE k \in starts : TRUE]

\* read takes as many events as fit, and no part of one.
Fits(n) == BytesOf(SubSeq(queue, 1, n)) <= BufferLen

Batch == SubSeq(queue, 1, Max({n \in 0 .. Len(queue) : Fits(n)}))

Init ==
  /\ queue = <<>>
  /\ cells = [k \in 0 .. BufferLen - 1 |-> [name |-> "zero", len |-> 0]]
  /\ start_unused_buffer = 0 /\ event_start_index = 0 /\ event_size = 0
  /\ event_p = NoEvent /\ invalid = FALSE /\ later = <<>>

Arrive(e) ==
  /\ Len(queue) < WaitingLimit
  /\ queue' = Append(queue, e)
  /\ UNCHANGED <<cells, start_unused_buffer, event_start_index, event_size,
                 event_p, invalid, later>>

\* read(): the batch is in the buffer.
BytesRead == BytesOf(Batch)

Read ==
  /\ queue' = SubSeq(queue, Len(Batch) + 1, Len(queue))
  /\ cells' = [c \in DOMAIN cells |->
                 IF c < BytesRead THEN CellOf(Batch, c) ELSE cells[c]]
  /\ later' = Tail(Batch)

\* Mutation: event_start_index is where the last batch left it.
start_iter_inotify_NoReset ==
  /\ event_p = NoEvent /\ ~ invalid /\ queue # <<>>
  /\ Read
  /\ start_unused_buffer' = BytesRead
  /\ event_p' = event_start_index
  /\ event_size' = Size(cells'[event_start_index])
  /\ UNCHANGED <<event_start_index, invalid>>

\* Mutation: the size of an event counts its name twice.
start_iter_inotify_TwiceLen ==
  /\ event_p = NoEvent /\ ~ invalid /\ queue # <<>>
  /\ Read
  /\ start_unused_buffer' = BytesRead
  /\ event_start_index' = 0
  /\ event_p' = 0
  /\ event_size' = HeaderLen + 2 * cells'[0].len
  /\ UNCHANGED invalid

\* The first event; a read that gave less than it needs is given up.
start_iter_inotify ==
  /\ event_p = NoEvent /\ ~ invalid /\ queue # <<>>
  /\ Read
  /\ event_start_index' = 0
  /\ IF BytesRead < HeaderLen \/ BytesRead < Size(cells'[0])
       THEN /\ start_unused_buffer' = 0
            /\ UNCHANGED <<event_p, event_size>>
       ELSE /\ start_unused_buffer' = BytesRead
            /\ event_p' = 0
            /\ event_size' = Size(cells'[0])
  /\ UNCHANGED invalid

\* Mutation: an event may not end where the bytes end.
next_iter_inotify_OffByOne ==
  /\ event_p # NoEvent /\ ~ invalid
  /\ LET next_event_start_index == event_start_index + event_size
         next_event_size == Size(cells[next_event_start_index])
     IN  IF next_event_start_index = start_unused_buffer
           THEN /\ event_p' = NoEvent
                /\ UNCHANGED <<event_start_index, event_size, invalid, later>>
         ELSE IF next_event_start_index + next_event_size >= start_unused_buffer
           THEN /\ invalid' = TRUE
                /\ UNCHANGED <<event_start_index, event_size, event_p, later>>
         ELSE /\ event_start_index' = next_event_start_index
              /\ event_size' = next_event_size
              /\ event_p' = next_event_start_index
              /\ later' = Tail(later)
              /\ UNCHANGED invalid
  /\ UNCHANGED <<queue, cells, start_unused_buffer>>

\* The next event of the batch; NULL behind the last one; or an exit, when the
\* bytes that are left do not hold an event.
next_iter_inotify ==
  /\ event_p # NoEvent /\ ~ invalid
  /\ LET next_event_start_index == event_start_index + event_size
         next_event_size == Size(cells[next_event_start_index])
     IN  IF next_event_start_index = start_unused_buffer
           THEN /\ event_p' = NoEvent
                /\ UNCHANGED <<event_start_index, event_size, invalid, later>>
         ELSE IF \/ next_event_start_index + HeaderLen > start_unused_buffer
                 \/ next_event_start_index + next_event_size > start_unused_buffer
           THEN /\ invalid' = TRUE
                /\ UNCHANGED <<event_start_index, event_size, event_p, later>>
         ELSE /\ event_start_index' = next_event_start_index
              /\ event_size' = next_event_size
              /\ event_p' = next_event_start_index
              /\ later' = Tail(later)
              /\ UNCHANGED invalid
  /\ UNCHANGED <<queue, cells, start_unused_buffer>>

Next ==
  \/ \E e \in Event : Arrive(e)
  \/ start_iter_inotify
  \/ next_iter_inotify

Spec == Init /\ [][Next]_vars

-----------------------------------------------------------------------------
\* Types, and bounds: the event that is handed out lies within the bytes of
\* the last read, and those within the buffer.
TypeOK ==
  /\ queue \in Seq(Event) /\ later \in Seq(Event)
  /\ DOMAIN cells = 0 .. BufferLen - 1
  /\ start_unused_buffer \in 0 .. BufferLen
  /\ event_start_index \in DOMAIN cells /\ event_size \in 0 .. BufferLen
  /\ invalid \in BOOLEAN
  /\ event_p # NoEvent =>
       /\ event_p = event_start_index
       /\ event_start_index + event_size <= start_unused_buffer

\* The current event, and behind it those still to come, lie one behind the
\* other up to the end of what was read; end[k] is where the k-th of those
\* ends.
LayoutInv ==
  event_p # NoEvent =>
    /\ cells[event_p] \in Event /\ event_size = Size(cells[event_p])
    /\ \E end \in [0 .. Len(later) -> 0 .. BufferLen] :
         /\ end[0] = event_start_index + event_size
         /\ end[Len(later)] = start_unused_buffer
         /\ \A k \in 1 .. Len(later) :
              end[k] = end[k - 1] + Size(later[k]) /\ cells[end[k - 1]] = later[k]

\* What the kernel gives is never taken for an invalid structure, however the
\* sizes of the events and what is left in the buffer fall.
NoInvalidStructure == ~ invalid

\* The inductive invariant of InputProofs.
IInv == TypeOK /\ LayoutInv /\ NoInvalidStructure

\* The events of a read are handed out once each, in order, with their own
\* bytes and none of an earlier read.
Iteration == INSTANCE EventBatch WITH
  buf <- IF event_p = NoEvent THEN <<>> ELSE <<cells[event_p]>> \o later

BatchSpec == Iteration!Spec
=============================================================================
