----------------------------- MODULE WatchProofs -----------------------------
(***************************************************************************)
(* Theorems about DirWatcher for every value of its constants.  The table  *)
(* of the program and the watches of the kernel agree (RowBacked,          *)
(* WatchTracked), and two ends of the program never come: the exit(-1) of  *)
(* execute_sql (NoSqlFailure) and exit(17) of an IN_MOVED_FROM that finds  *)
(* its own cookie (NoCookieError).  Together they make IInv an invariant.  *)
(***************************************************************************)
EXTENDS DirWatcherProofs

-----------------------------------------------------------------------------
(***************************************************************************)
(* Events in the queue and in the buffer.                                  *)
(***************************************************************************)
LEMMA QueuedConcat ==
  ASSUME NEW q \in Seq(EventType), NEW s \in Seq(EventType), NEW e
  PROVE  Queued(q \o s, e) <=> Queued(q, e) \/ Queued(s, e)
<1>1. /\ Len(q) \in Nat /\ Len(s) \in Nat
      /\ Len(q \o s) = Len(q) + Len(s)
      /\ \A i \in 1 .. Len(q) + Len(s) :
           (q \o s)[i] = IF i <= Len(q) THEN q[i] ELSE s[i - Len(q)]
  BY ConcatProperties, LenProperties
<1>2. ASSUME NEW n \in 1 .. Len(q), q[n] = e
      PROVE  Queued(q \o s, e)
  <2>1. n \in 1 .. Len(q) + Len(s) /\ (q \o s)[n] = e
    BY <1>1, <1>2
  <2> QED
    BY <1>1, <2>1 DEF Queued
<1>3. ASSUME NEW n \in 1 .. Len(s), s[n] = e
      PROVE  Queued(q \o s, e)
  <2>1. /\ n + Len(q) \in 1 .. Len(q) + Len(s)
        /\ (q \o s)[n + Len(q)] = s[(n + Len(q)) - Len(q)]
        /\ (n + Len(q)) - Len(q) = n
    BY <1>1
  <2> QED
    BY <1>1, <1>3, <2>1 DEF Queued
<1>4. ASSUME NEW n \in 1 .. Len(q) + Len(s), (q \o s)[n] = e
      PROVE  Queued(q, e) \/ Queued(s, e)
  <2>1. CASE n <= Len(q)
    BY <1>1, <1>4, <2>1 DEF Queued
  <2>2. CASE ~(n <= Len(q))
    <3>1. n - Len(q) \in 1 .. Len(s) /\ s[n - Len(q)] = e
      BY <1>1, <1>4, <2>2
    <3> QED
      BY <3>1 DEF Queued
  <2> QED
    BY <2>1, <2>2
<1> QED
  BY <1>1, <1>2, <1>3, <1>4 DEF Queued

\* What a full queue does: it keeps what it has, takes what it is given or
\* reports that it did not, and makes nothing up.
LEMMA EnqueueFacts ==
  ASSUME NEW q \in Seq(EventType), NEW es \in Seq(EventType), NEW e
  PROVE  /\ Queued(q, e) => Queued(Enqueue(q, es), e)
         /\ Queued(es, e) => Queued(Enqueue(q, es), e) \/ Queued(Enqueue(q, es), Overflow)
         /\ Queued(Enqueue(q, es), e) => Queued(q, e) \/ Queued(es, e) \/ e = Overflow
<1> DEFINE room == IF Len(q) < QueueLimit THEN QueueLimit - Len(q) ELSE 0
           first == SubSeq(es, 1, room)
<1>1. room \in Nat /\ Len(q) \in Nat /\ Len(es) \in Nat
  BY InotifyAssumption, LenProperties
<1>2. CASE Len(es) <= room
  <2>1. Enqueue(q, es) = q \o es
    BY <1>2 DEF Enqueue
  <2> QED
    BY <2>1, QueuedConcat
<1>3. CASE ~ (Len(es) <= room)
  <2>1. \A i \in 1 .. room : es[i] \in EventType
    BY <1>1, <1>3, ElementOfSeq
  <2>2. /\ first \in Seq(EventType)
        /\ Len(first) = room
        /\ \A i \in 1 .. room : first[i] = es[i]
    BY <1>1, <2>1, SubSeqProperties
  <2> HIDE DEF first
  <2>3. Queued(first, e) => Queued(es, e)
    BY <1>1, <1>3, <2>2 DEF Queued
  <2>4. q \o first \in Seq(EventType)
    BY <2>2, ConcatProperties
  <2>5. \A f : Queued(q \o first, f) <=> Queued(q, f) \/ Queued(first, f)
    BY <2>2, QueuedConcat
  <2>6. CASE Queued(q, Overflow)
    <3>1. Enqueue(q, es) = q \o first
      BY <1>3, <2>6 DEF Enqueue, first
    <3> QED
      BY <2>3, <2>5, <2>6, <3>1
  <2>7. CASE ~ Queued(q, Overflow)
    <3>1. Enqueue(q, es) = (q \o first) \o <<Overflow>>
      BY <1>3, <2>7 DEF Enqueue, first
    <3>2. <<Overflow>> \in Seq(EventType)
      <4>1. Overflow \in EventType
        BY DEF Overflow, Event, EventType, Masks, EntryName
      <4> QED
        BY <4>1
    <3>3. ASSUME NEW f
          PROVE  Queued(Enqueue(q, es), f) <=>
                   Queued(q, f) \/ Queued(first, f) \/ Queued(<<Overflow>>, f)
      <4>1. Queued((q \o first) \o <<Overflow>>, f) <=>
              Queued(q \o first, f) \/ Queued(<<Overflow>>, f)
        BY <2>4, <3>2, QueuedConcat
      <4> QED
        BY <2>5, <3>1, <4>1
    <3>4. \A f : Queued(<<Overflow>>, f) <=> f = Overflow
      BY DEF Queued
    <3> QED
      BY <2>3, <3>3, <3>4
  <2> QED
    BY <2>6, <2>7
<1> QED
  BY <1>2, <1>3

\* A read moves events from the queue to the buffer.
LEMMA ReadFacts ==
  ASSUME TypeInv, ReadEvents, NEW e
  PROVE  Queued(queue, e) <=> Queued(buf', e) \/ Queued(queue', e)
<1> DEFINE n == IF Len(queue) < BatchLimit THEN Len(queue) ELSE BatchLimit
<1>1. queue \in Seq(EventType) /\ Len(queue) \in Nat \ {0}
  BY EmptySeq DEF ReadEvents, TypeInv, TypeOK, FsTypeOK
<1>2. n \in 1 .. Len(queue)
  BY <1>1, DirWatcherAssumption
<1>3. buf' = SubSeq(queue, 1, n) /\ queue' = SubSeq(queue, n + 1, Len(queue))
  BY DEF ReadEvents
<1> HIDE DEF n
<1>4. SubSeq(queue, 1, n) \o SubSeq(queue, n + 1, Len(queue)) = SubSeq(queue, 1, Len(queue))
  BY <1>1, <1>2, ConcatAdjacentSubSeq
<1>5. queue = buf' \o queue'
  BY <1>1, <1>3, <1>4, SubSeqFull
<1>6. buf' \in Seq(EventType) /\ queue' \in Seq(EventType)
  BY MainLoopType DEF TypeInv, TypeOK, FsTypeOK
<1> QED
  BY <1>5, <1>6, QueuedConcat

\* The next event is the program's: the one before is done.
LEMMA NextEventFacts ==
  ASSUME TypeInv, buf # <<>>, NextEvent, NEW e
  PROVE  /\ Queued(buf, Head(buf))
         /\ Queued(buf', e) => Queued(buf, e)
         /\ Queued(buf, e) => e = Head(buf) \/ Queued(buf', e)
<1>1. /\ buf \in Seq(EventType) /\ Len(buf) \in Nat \ {0}
      /\ Len(buf') = Len(buf) - 1
      /\ \A i \in 1 .. Len(buf') : buf'[i] = buf[i + 1]
  BY HeadTailProperties, EmptySeq DEF TypeInv, TypeOK, NextEvent
<1>2. Head(buf) = buf[1]
  BY <1>1
<1>3. Queued(buf', e) => Queued(buf, e)
  BY <1>1 DEF Queued
<1>4. ASSUME NEW i \in 1 .. Len(buf), buf[i] = e, i # 1
      PROVE  Queued(buf', e)
  <2>1. i - 1 \in 1 .. Len(buf') /\ buf'[i - 1] = buf[(i - 1) + 1] /\ (i - 1) + 1 = i
    BY <1>1, <1>4
  <2> QED
    BY <1>4, <2>1 DEF Queued
<1> QED
  BY <1>1, <1>2, <1>3, <1>4 DEF Queued

-----------------------------------------------------------------------------
(***************************************************************************)
(* Watches.  Whether another process removes a directory or the program    *)
(* removes a watch, the kernel does the same: some watches go, each with   *)
(* an IN_IGNORED, and no other wd is reported as gone.                     *)
(***************************************************************************)
WatchesGo(es) ==
  /\ es \in Seq(EventType)
  /\ queue' = Enqueue(queue, es)
  /\ last_wd' = last_wd
  /\ \A i \in Inode :
       \/ watch'[i] = watch[i]
       \/ watch'[i] = 0 /\ Queued(es, Ignored(watch[i]))
  /\ \A e : Queued(es, e) /\ "IN_IGNORED" \in e.mask =>
       \E i \in Inode : watch[i] # 0 /\ watch'[i] = 0 /\ e = Ignored(watch[i])

\* IN_IGNORED is only ever in the mask of an Ignored event, and that mask
\* has nothing else.
LEMMA IgnoredMask ==
  /\ \A wd : Ignored(wd).mask = {"IN_IGNORED"} /\ Ignored(wd).wd = wd
  /\ Overflow.mask = {"IN_Q_OVERFLOW"}
BY DEF Ignored, Overflow, Event

\* A wd that is accounted for stays accounted for when its watch goes, and
\* a wd that is gone is not handed out again.
LEMMA WatchesGoFacts ==
  ASSUME TypeInv, TypeInv', WdInv, NEW es, WatchesGo(es), buf' = buf
  PROVE  /\ \A wd \in Nat \ {NULL_WD} : Backed(wd) => Backed(wd)'
         /\ IgnoredGone(queue)' /\ IgnoredGone(buf)'
         /\ \A i, j \in Inode : watch'[i] = watch'[j] /\ watch'[i] # 0 => i = j
         /\ \A i \in Inode : watch'[i] <= last_wd'
         /\ \A i \in Inode : watch'[i] # 0 => watch'[i] = watch[i]
<1>0. /\ queue \in Seq(EventType) /\ es \in Seq(EventType)
      /\ watch \in [Inode -> Nat] /\ watch' \in [Inode -> Nat]
      /\ last_wd \in Nat /\ last_wd' = last_wd
      /\ queue' = Enqueue(queue, es)
  BY DEF TypeInv, TypeOK, FsTypeOK, WatchesGo
<1>1. \A i \in Inode : watch'[i] # 0 => watch'[i] = watch[i]
  BY DEF WatchesGo
<1>2. \A i, j \in Inode : watch'[i] = watch'[j] /\ watch'[i] # 0 => i = j
  BY <1>1 DEF WdInv
<1>3. \A i \in Inode : watch'[i] <= last_wd'
  BY <1>0, <1>1 DEF WdInv
<1>4. ASSUME NEW e PROVE Queued(queue, e) => Queued(queue', e)
  BY <1>0, EnqueueFacts
<1>5. ASSUME NEW wd \in Nat \ {NULL_WD}, Backed(wd)
      PROVE  Backed(wd)'
  <2>1. CASE Live(wd)
    <3>1. PICK i \in Inode : watch[i] = wd
      BY <2>1 DEF Live
    <3>2. CASE watch'[i] = watch[i]
      BY <3>1, <3>2 DEF Backed, Live
    <3>3. CASE Queued(es, Ignored(watch[i]))
      <4>1. Queued(queue', Ignored(wd)) \/ Queued(queue', Overflow)
        BY <1>0, <3>1, <3>3, EnqueueFacts
      <4> QED
        BY <4>1 DEF Backed, Pending, Overflow, Ignored, Event
    <3> QED
      BY <3>2, <3>3 DEF WatchesGo
  <2>2. CASE Pending(Ignored(wd)) \/ Pending(Overflow)
    BY <1>4, <2>2 DEF Backed, Pending, Overflow, Ignored, Event
  <2> QED
    BY <1>5, <2>1, <2>2 DEF Backed
<1>6. IgnoredGone(buf)'
  BY <1>0, <1>1 DEF IgnoredGone, WdInv, Live
<1>7. ASSUME NEW n \in 1 .. Len(queue'), "IN_IGNORED" \in queue'[n].mask
      PROVE  /\ queue'[n] = Ignored(queue'[n].wd)
             /\ queue'[n].wd \in 1 .. last_wd'
             /\ \A i \in Inode : watch'[i] # queue'[n].wd
  <2> DEFINE e == queue'[n]
  <2>1. Queued(queue', e)
    BY DEF Queued
  <2>2. Queued(queue, e) \/ Queued(es, e)
    <3>1. e # Overflow
      BY <1>7, IgnoredMask
    <3> QED
      BY <1>0, <2>1, <3>1, EnqueueFacts
  <2>3. CASE Queued(queue, e)
    <3>1. /\ e = Ignored(e.wd) /\ e.wd \in 1 .. last_wd /\ ~ Live(e.wd)
      BY <1>7, <2>3 DEF Queued, WdInv, IgnoredGone
    <3>2. \A i \in Inode : watch'[i] # e.wd
      BY <1>0, <1>1, <3>1 DEF Live
    <3> QED
      BY <1>0, <3>1, <3>2
  <2>4. CASE Queued(es, e)
    <3>1. PICK i \in Inode : watch[i] # 0 /\ watch'[i] = 0 /\ e = Ignored(watch[i])
      BY <1>7, <2>4 DEF WatchesGo
    <3>2. e.wd = watch[i] /\ e.wd \in 1 .. last_wd
      BY <1>0, <3>1, IgnoredMask DEF WdInv
    <3>3. \A j \in Inode : watch'[j] # watch[i]
      BY <1>1, <3>1 DEF WdInv
    <3> QED
      BY <1>0, <3>1, <3>2, <3>3
  <2> QED
    BY <2>2, <2>3, <2>4
<1>8. IgnoredGone(queue)'
  BY <1>7 DEF IgnoredGone, Live
<1> QED
  BY <1>1, <1>2, <1>3, <1>5, <1>6, <1>8

NoIgnored(es) == \A e : Queued(es, e) => "IN_IGNORED" \notin e.mask

\* Only the end of a watch reports IN_IGNORED, and it does so for its wd.
LEMMA ReportFacts ==
  /\ \A d, mask, cookie, name :
       "IN_IGNORED" \notin mask => NoIgnored(Report(d, mask, cookie, name))
  /\ TypeInv => \A d : \A i \in Inode, n \in Name :
       Attached(i) => NoIgnored(ReportMove(i, d, n))
<1>1. ASSUME NEW d, NEW mask, NEW cookie, NEW name, "IN_IGNORED" \notin mask
      PROVE  NoIgnored(Report(d, mask, cookie, name))
  BY <1>1 DEF NoIgnored, Report, Queued, Event
<1>2. ASSUME TypeInv, NEW i \in Inode, NEW d, NEW n \in Name, Attached(i)
      PROVE  NoIgnored(ReportMove(i, d, n))
  <2> DEFINE from == Report(loc[i][1], {"IN_MOVED_FROM", "IN_ISDIR"}, last_cookie + 1, loc[i][2])
             to == Report(d, {"IN_MOVED_TO", "IN_ISDIR"}, last_cookie + 1, n)
             self == Report(i, {"IN_MOVE_SELF"}, 0, "")
  <2>1. NoIgnored(from) /\ NoIgnored(to) /\ NoIgnored(self)
    BY <1>1
  <2>2. loc[i][2] \in EntryName /\ n \in EntryName /\ "" \in EntryName /\ last_cookie + 1 \in Nat
    <3>1. FsTypeOK
      BY <1>2 DEF TypeInv, TypeOK
    <3>2. loc[i][2] \in EntryName
      BY <1>2, <3>1 DEF FsTypeOK, Attached, EntryName
    <3>3. n \in EntryName /\ "" \in EntryName
      BY DEF EntryName
    <3>4. last_cookie + 1 \in Nat
      BY <3>1 DEF FsTypeOK
    <3> QED
      BY <3>2, <3>3, <3>4
  <2>3. /\ {"IN_MOVED_FROM", "IN_ISDIR"} \in Masks
        /\ {"IN_MOVED_TO", "IN_ISDIR"} \in Masks
        /\ {"IN_MOVE_SELF"} \in Masks
    BY DEF Masks
  <2>4. from \in Seq(EventType) /\ to \in Seq(EventType) /\ self \in Seq(EventType)
    BY <1>2, <2>2, <2>3, ReportType DEF TypeInv, TypeOK
  <2> HIDE DEF from, to, self
  <2>5. NoIgnored((from \o to) \o self)
    BY <2>1, <2>4, QueuedConcat, ConcatProperties DEF NoIgnored
  <2> QED
    BY <2>5 DEF ReportMove, from, to, self
<1> QED
  BY <1>1, <1>2

\* A directory that goes away has the IN_IGNORED of its watch, and no other, reported.
LEMMA ReportEndFacts ==
  ASSUME TypeInv, NEW d \in Inode
  PROVE  /\ watch[d] # 0 => Queued(ReportEnd(d), Ignored(watch[d]))
         /\ \A e : Queued(ReportEnd(d), e) /\ "IN_IGNORED" \in e.mask =>
              watch[d] # 0 /\ e = Ignored(watch[d])
<1> DEFINE self == Report(d, {"IN_DELETE_SELF"}, 0, "")
           gone == IF watch[d] # 0 THEN <<Ignored(watch[d])>> ELSE <<>>
<1>1. self \in Seq(EventType)
  BY ReportType DEF TypeInv, TypeOK, Masks, EntryName
<1>2. <<Ignored(watch[d])>> \in Seq(EventType)
  BY IgnoredType DEF TypeInv, TypeOK, FsTypeOK
<1>3. gone \in Seq(EventType)
  BY <1>2
<1>4. \A e : Queued(gone, e) <=> watch[d] # 0 /\ e = Ignored(watch[d])
  BY DEF Queued
<1>5. NoIgnored(self)
  BY ReportFacts
<1> HIDE DEF self, gone
<1>6. \A e : Queued(self \o gone, e) <=> Queued(self, e) \/ Queued(gone, e)
  BY <1>1, <1>3, QueuedConcat
<1>7. ReportEnd(d) = self \o gone
  BY DEF ReportEnd, self, gone
<1> QED
  BY <1>4, <1>5, <1>6, <1>7 DEF NoIgnored

\* A step that leaves the watches alone and reports no end of one.
LEMMA NoWatchGoes ==
  ASSUME NEW es \in Seq(EventType), NoIgnored(es),
         queue' = Enqueue(queue, es), UNCHANGED <<watch, last_wd>>
  PROVE  WatchesGo(es)
BY DEF WatchesGo, NoIgnored

\* A step that ends the watch of t, if any, and reports that among other
\* things.
LEMMA OneWatchGoes ==
  ASSUME TypeInv, NEW t \in Inode, NEW es \in Seq(EventType),
         \A e : Queued(ReportEnd(t), e) => Queued(es, e),
         \A e : Queued(es, e) /\ "IN_IGNORED" \in e.mask => Queued(ReportEnd(t), e),
         queue' = Enqueue(queue, es), watch' = [watch EXCEPT ![t] = 0],
         last_wd' = last_wd
  PROVE  WatchesGo(es)
BY ReportEndFacts DEF WatchesGo, TypeInv, TypeOK, FsTypeOK

\* Every change another process makes is such a step.
LEMMA FsWatchesGo ==
  ASSUME TypeInv, FsNext
  PROVE  \E es : WatchesGo(es)
<1> USE DEF FsOp
<1>0. FsTypeOK
  BY DEF TypeInv, TypeOK
<1>1. ASSUME NEW i \in Inode, NEW d \in Parents, NEW n \in Name, Mkdir(i, d, n)
      PROVE  \E es : WatchesGo(es)
  <2>1. Report(d, {"IN_CREATE", "IN_ISDIR"}, 0, n) \in Seq(EventType)
    BY <1>0, ReportType DEF Masks, EntryName
  <2>2. NoIgnored(Report(d, {"IN_CREATE", "IN_ISDIR"}, 0, n))
    BY ReportFacts
  <2> QED
    BY <1>1, <2>1, <2>2, NoWatchGoes DEF Mkdir
<1>2. ASSUME NEW i \in Inode, NEW d \in Parents, NEW n \in Name, Rename(i, d, n)
      PROVE  \E es : WatchesGo(es)
  <2>1. ReportMove(i, d, n) \in Seq(EventType) /\ NoIgnored(ReportMove(i, d, n))
    BY <1>0, <1>2, ReportMoveType, ReportFacts DEF Rename, Movable
  <2> QED
    BY <1>2, <2>1, NoWatchGoes DEF Rename
<1> DEFINE removed(i) == Report(loc[i][1], {"IN_DELETE", "IN_ISDIR"}, 0, loc[i][2])
<1>3. ASSUME NEW i \in Inode, Attached(i)
      PROVE  removed(i) \in Seq(EventType) /\ NoIgnored(removed(i))
  <2>1. loc[i][2] \in EntryName
    BY <1>0, <1>3 DEF FsTypeOK, Attached, EntryName
  <2>2. removed(i) \in Seq(EventType)
    BY <1>0, <2>1, ReportType DEF Masks, EntryName
  <2> QED
    BY <2>2, ReportFacts
<1>4. ASSUME NEW i \in Inode, Rmdir(i)
      PROVE  \E es : WatchesGo(es)
  <2>1. /\ removed(i) \in Seq(EventType) /\ NoIgnored(removed(i))
        /\ ReportEnd(i) \in Seq(EventType)
    BY <1>0, <1>3, <1>4, ReportEndType DEF Rmdir, Removable
  <2>2. /\ queue' = Enqueue(queue, ReportEnd(i) \o removed(i))
        /\ watch' = [watch EXCEPT ![i] = 0]
        /\ last_wd' = last_wd
    BY <1>4 DEF Rmdir
  <2> HIDE DEF removed
  <2>3. /\ ReportEnd(i) \o removed(i) \in Seq(EventType)
        /\ \A e : Queued(ReportEnd(i) \o removed(i), e) <=>
                    Queued(ReportEnd(i), e) \/ Queued(removed(i), e)
    BY <2>1, ConcatProperties, QueuedConcat
  <2> QED
    BY <2>1, <2>2, <2>3, OneWatchGoes DEF NoIgnored
<1>5. ASSUME NEW i \in Inode, RmdirHeld(i)
      PROVE  \E es : WatchesGo(es)
  <2>1. removed(i) \in Seq(EventType) /\ NoIgnored(removed(i))
    BY <1>3, <1>5 DEF RmdirHeld, Removable
  <2> QED
    BY <1>5, <2>1, NoWatchGoes DEF RmdirHeld
<1>6. ASSUME NEW i \in Inode, Release(i)
      PROVE  \E es : WatchesGo(es)
  <2>1. ReportEnd(i) \in Seq(EventType)
    BY <1>0, ReportEndType
  <2> QED
    BY <1>6, <2>1, OneWatchGoes DEF Release
<1>7. ASSUME NEW i \in Inode, NEW t \in Inode, RenameOver(i, t)
      PROVE  \E es : WatchesGo(es)
  <2> DEFINE move == ReportMove(i, loc[t][1], loc[t][2])
  <2>1. loc[t] \in (Inode \cup {Root}) \X Name
    BY <1>0, <1>7 DEF RenameOver, Removable, Attached, FsTypeOK
  <2>2. Attached(i) /\ loc[t][2] \in Name
    BY <1>7, <2>1 DEF RenameOver, Movable
  <2>3. move \in Seq(EventType) /\ NoIgnored(move) /\ ReportEnd(t) \in Seq(EventType)
    BY <1>0, <2>2, ReportMoveType, ReportEndType, ReportFacts
  <2>4. /\ queue' = Enqueue(queue, move \o ReportEnd(t))
        /\ watch' = [watch EXCEPT ![t] = 0]
        /\ last_wd' = last_wd
    BY <1>7 DEF RenameOver
  <2> HIDE DEF move
  <2>5. /\ move \o ReportEnd(t) \in Seq(EventType)
        /\ \A e : Queued(move \o ReportEnd(t), e) <=> Queued(move, e) \/ Queued(ReportEnd(t), e)
    BY <2>3, ConcatProperties, QueuedConcat
  <2> QED
    BY <2>3, <2>4, <2>5, OneWatchGoes DEF NoIgnored
<1>8. ASSUME NEW d \in Inode, WriteFile(d)
      PROVE  \E es : WatchesGo(es)
  <2> DEFINE create == Report(d, {"IN_CREATE"}, 0, "file")
             close == Report(d, {"IN_CLOSE_WRITE"}, 0, "file")
  <2>1. /\ create \in Seq(EventType) /\ NoIgnored(create)
        /\ close \in Seq(EventType) /\ NoIgnored(close)
    BY <1>0, ReportType, ReportFacts DEF Masks, EntryName
  <2>2. queue' = Enqueue(queue, create \o close) /\ UNCHANGED <<watch, last_wd>>
    BY <1>8 DEF WriteFile
  <2> HIDE DEF create, close
  <2>3. create \o close \in Seq(EventType) /\ NoIgnored(create \o close)
    BY <2>1, ConcatProperties, QueuedConcat DEF NoIgnored
  <2> QED
    BY <2>2, <2>3, NoWatchGoes
<1>9. ASSUME NEW d \in Inode, NEW e \in Inode, MoveFile(d, e)
      PROVE  \E es : WatchesGo(es)
  <2> DEFINE from == Report(d, {"IN_MOVED_FROM"}, last_cookie + 1, "file")
             to == Report(e, {"IN_MOVED_TO"}, last_cookie + 1, "file")
  <2>1. last_cookie + 1 \in Nat /\ "file" \in EntryName
    BY <1>0 DEF FsTypeOK, EntryName
  <2>2. /\ from \in Seq(EventType) /\ NoIgnored(from)
        /\ to \in Seq(EventType) /\ NoIgnored(to)
    BY <1>0, <2>1, ReportType, ReportFacts DEF Masks
  <2>3. queue' = Enqueue(queue, from \o to) /\ UNCHANGED <<watch, last_wd>>
    BY <1>9 DEF MoveFile
  <2> HIDE DEF from, to
  <2>4. from \o to \in Seq(EventType) /\ NoIgnored(from \o to)
    BY <2>2, ConcatProperties, QueuedConcat DEF NoIgnored
  <2> QED
    BY <2>3, <2>4, NoWatchGoes
<1> QED
  BY <1>1, <1>2, <1>4, <1>5, <1>6, <1>7, <1>8, <1>9 DEF FsNext

\* So is every inotify_rm_watch the program calls.
LEMMA RmWatchGoes ==
  ASSUME TypeInv, WdInv, NEW wd \in Nat, wd # NULL_WD, InotifyRmWatch(wd), last_wd' = last_wd
  PROVE  \E es : WatchesGo(es)
<1>0. watch \in [Inode -> Nat] /\ queue \in Seq(EventType)
  BY DEF TypeInv, TypeOK, FsTypeOK
<1>1. CASE \E i \in Inode : watch[i] = wd
  <2>1. <<Ignored(wd)>> \in Seq(EventType) /\ queue' = Enqueue(queue, <<Ignored(wd)>>)
    BY <1>1, IgnoredType DEF InotifyRmWatch
  <2>2. \A e : Queued(<<Ignored(wd)>>, e) <=> e = Ignored(wd)
    BY DEF Queued
  <2>3. \A i \in Inode : watch'[i] = IF watch[i] = wd THEN 0 ELSE watch[i]
    BY DEF InotifyRmWatch
  <2>4. \A i \in Inode : \/ watch'[i] = watch[i]
                         \/ watch'[i] = 0 /\ Queued(<<Ignored(wd)>>, Ignored(watch[i]))
    BY <2>2, <2>3
  <2>5. \E i \in Inode : watch[i] # 0 /\ watch'[i] = 0 /\ watch[i] = wd
    BY <1>1, <2>3 DEF NULL_WD
  <2>6. WatchesGo(<<Ignored(wd)>>)
    BY <2>1, <2>2, <2>4, <2>5 DEF WatchesGo
  <2> QED
    BY <2>6
<1>2. CASE ~ \E i \in Inode : watch[i] = wd
  <2>1. queue' = queue /\ watch' = watch
    BY <1>0, <1>2 DEF InotifyRmWatch
  <2>2. <<>> \in Seq(EventType) /\ NoIgnored(<<>>)
    BY DEF NoIgnored, Queued
  <2>3. Enqueue(queue, <<>>) = queue
    <3>1. queue \o <<>> = queue
      BY <1>0, ConcatEmptySeq
    <3>2. Len(<<>>) <= IF Len(queue) < QueueLimit THEN QueueLimit - Len(queue) ELSE 0
      BY <1>0, LenProperties, InotifyAssumption
    <3> QED
      BY <3>1, <3>2 DEF Enqueue
  <2> QED
    BY <2>1, <2>2, <2>3, NoWatchGoes
<1> QED
  BY <1>1, <1>2
-----------------------------------------------------------------------------
(***************************************************************************)
(* WdInv, RowBacked and WatchTracked are inductive together, with the      *)
(* types: a row stays backed because a watch only goes with an IN_IGNORED  *)
(* that is on its way or was lost to an overflow, a watch stays tracked    *)
(* because a row only goes when its wd is doomed or its watch is gone.     *)
(***************************************************************************)
WatchInv == WdInv /\ RowBacked /\ WatchTracked

\* Steps that do not touch what WatchInv is about.
LEMMA SameKeeps ==
  ASSUME WatchInv, UNCHANGED <<watch, queue, last_wd, buf, rows, watch_descriptor, doomed>>
  PROVE  WatchInv'
BY DEF WatchInv, WdInv, RowBacked, WatchTracked, Backed, Live, Pending, IgnoredGone

\* Steps that end watches: another process's, or the program's own.
LEMMA GoKeeps ==
  ASSUME TypeInv, TypeInv', WatchInv, NEW es, WatchesGo(es),
         UNCHANGED <<buf, rows, watch_descriptor>>,
         \A i \in Inode : watch'[i] # 0 /\ watch'[i] \in doomed => watch'[i] \in doomed'
  PROVE  WatchInv'
<1>0. WdInv /\ last_wd' = last_wd
  BY DEF WatchInv, WatchesGo
<1>1. /\ \A wd \in Nat \ {NULL_WD} : Backed(wd) => Backed(wd)'
      /\ IgnoredGone(queue)' /\ IgnoredGone(buf)'
      /\ \A i, j \in Inode : watch'[i] = watch'[j] /\ watch'[i] # 0 => i = j
      /\ \A i \in Inode : watch'[i] <= last_wd'
      /\ \A i \in Inode : watch'[i] # 0 => watch'[i] = watch[i]
  BY <1>0, WatchesGoFacts
<1>2. \A r \in rows : r.wd \in Nat \ {NULL_WD}
  BY DEF TypeInv, TypeOK, RowType
<1>3. \A r \in rows' : Backed(r.wd)'
  BY <1>1, <1>2 DEF WatchInv, RowBacked
<1>4. watch_descriptor' # NULL_WD => Backed(watch_descriptor)'
  <2>1. watch_descriptor \in Nat
    BY DEF TypeInv, TypeOK
  <2>2. watch_descriptor # NULL_WD => Backed(watch_descriptor)
    BY DEF WatchInv, WdInv
  <2>3. ASSUME NEW wd \in Nat \ {NULL_WD}, wd = watch_descriptor
        PROVE  Backed(watch_descriptor)'
    <3>1. Backed(wd)
      BY <2>2, <2>3
    <3>2. Backed(wd)'
      BY <1>1, <3>1
    <3> QED
      BY <2>3, <3>2 DEF Backed, Live, Pending
  <2> QED
    BY <2>1, <2>3
<1>5. WdInv'
  BY <1>0, <1>1, <1>4 DEF WdInv
<1>6. WatchTracked'
  BY <1>1 DEF WatchInv, WatchTracked
<1> QED
  BY <1>3, <1>5, <1>6 DEF WatchInv, RowBacked

\* Events move from the queue to the buffer and none is made up; done is
\* the only one that may be dealt with.
EventsMove(done) ==
  /\ \A e : Pending(e) => e = done \/ Pending(e)'
  /\ \A e : Pending(e)' => Pending(e)

\* A wd stays backed while the watches stay and the event done is neither
\* its IN_IGNORED nor an overflow.
LEMMA BackedKept ==
  ASSUME NEW wd, NEW done, UNCHANGED watch, EventsMove(done),
         done \notin {Ignored(wd), Overflow}, Backed(wd)
  PROVE  Backed(wd)'
BY DEF EventsMove, Backed, Live, Pending, Overflow, Ignored, Event

\* So do the promises about wds that are gone.
LEMMA GoneKept ==
  ASSUME NEW done, UNCHANGED <<watch, last_wd>>, EventsMove(done), WdInv
  PROVE  IgnoredGone(queue)' /\ IgnoredGone(buf)'
<1>1. \A e : Pending(e) /\ "IN_IGNORED" \in e.mask =>
        e = Ignored(e.wd) /\ e.wd \in 1 .. last_wd /\ ~ Live(e.wd)
  BY DEF WdInv, IgnoredGone, Pending, Queued
<1>2. \A wd : Live(wd)' => Live(wd)
  BY DEF Live
<1>3. ASSUME NEW e, Pending(e)', "IN_IGNORED" \in e.mask
      PROVE  e = Ignored(e.wd) /\ e.wd \in 1 .. last_wd' /\ ~ (Live(e.wd)')
  BY <1>1, <1>2, <1>3 DEF EventsMove
<1>4. \A e : Queued(queue', e) \/ Queued(buf', e) => Pending(e)'
  BY DEF Pending
<1>5. /\ \A n \in 1 .. Len(queue') : Queued(queue', queue'[n])
      /\ \A n \in 1 .. Len(buf') : Queued(buf', buf'[n])
  BY DEF Queued
<1>6. \A e : (Queued(queue', e) \/ Queued(buf', e)) /\ "IN_IGNORED" \in e.mask =>
          e = Ignored(e.wd) /\ e.wd \in 1 .. last_wd' /\ ~ (\E i \in Inode : watch'[i] = e.wd)
  BY <1>3, <1>4 DEF Live
<1> QED
  BY <1>5, <1>6 DEF IgnoredGone, Live

\* Steps of the program's own that insert no row.
LEMMA LocalKeeps ==
  ASSUME TypeInv, WatchInv, NEW done, EventsMove(done), UNCHANGED <<watch, last_wd>>,
         rows' \subseteq rows,
         done # Overflow, \A r \in rows' : done # Ignored(r.wd),
         watch_descriptor' = NULL_WD, WatchTracked'
  PROVE  WatchInv'
<1>1. \A r \in rows' : Backed(r.wd)'
  <2> SUFFICES ASSUME NEW r \in rows' PROVE Backed(r.wd)'
    OBVIOUS
  <2>1. ASSUME NEW wd, wd = r.wd PROVE Backed(wd)'
    BY <2>1, BackedKept DEF WatchInv, RowBacked
  <2> QED
    BY <2>1 DEF Backed, Live, Pending
<1>2. IgnoredGone(queue)' /\ IgnoredGone(buf)'
  BY GoneKept DEF WatchInv
<1>3. last_wd \in Nat
  BY DEF TypeInv, TypeOK, FsTypeOK
<1>4. WdInv'
  BY <1>2, <1>3 DEF WatchInv, WdInv, NULL_WD
<1> QED
  BY <1>1, <1>4 DEF WatchInv, RowBacked
-----------------------------------------------------------------------------
(***************************************************************************)
(* One lemma per way the program's steps touch the table.                  *)
(***************************************************************************)
\* Most steps leave the events alone; the end of an event takes one.
LEMMA EventsStay ==
  ASSUME UNCHANGED <<queue, buf>>, NEW done
  PROVE  EventsMove(done)
BY DEF EventsMove, Pending, Queued

\* An event that is done goes from the buffer; every other one stays.
LEMMA EventsPop ==
  ASSUME TypeInv, buf # <<>>, NextEvent, queue' = queue
  PROVE  EventsMove(Head(buf))
BY NextEventFacts DEF EventsMove, Pending, Queued

\* A handler that touches neither the table nor the watches.
LEMMA WatchOfPop ==
  ASSUME TypeInv, WatchInv, buf # <<>>, NextEvent,
         Head(buf).mask \cap {"IN_IGNORED", "IN_Q_OVERFLOW"} = {},
         watch_descriptor = NULL_WD,
         UNCHANGED <<watch, queue, last_wd, rows, watch_descriptor, doomed>>
  PROVE  WatchInv'
<1>1. EventsMove(Head(buf))
  BY EventsPop
<1>2. Head(buf) # Overflow /\ \A wd : Head(buf) # Ignored(wd)
  BY IgnoredMask
<1>3. WatchTracked'
  BY DEF WatchInv, WatchTracked
<1> QED
  BY <1>1, <1>2, <1>3, LocalKeeps

\* read(2) moves events from the kernel to the program and loses none.
LEMMA WatchOfRead ==
  ASSUME TypeInv, WatchInv, ReadEvents
  PROVE  WatchInv'
<1>1. /\ buf = <<>> /\ watch_descriptor = NULL_WD
      /\ UNCHANGED <<watch, last_wd, rows, watch_descriptor, doomed>>
  BY DEF ReadEvents, TypeInv, ControlInv
<1>2. \A e : ~ Queued(buf, e)
  BY <1>1 DEF Queued
<1>3. \A e : Pending(e) <=> Pending(e)'
  BY <1>2, ReadFacts DEF Pending, Queued
<1>4. PICK done : done # Overflow /\ \A wd : done # Ignored(wd)
  <2>1. Event(0, {"IN_CREATE"}, 0, "") # Overflow /\ \A wd : Event(0, {"IN_CREATE"}, 0, "") # Ignored(wd)
    BY DEF Event, Overflow, Ignored
  <2> QED
    BY <2>1
<1>5. EventsMove(done)
  BY <1>3 DEF EventsMove
<1>6. WatchTracked'
  BY <1>1 DEF WatchInv, WatchTracked
<1> QED
  BY <1>1, <1>4, <1>5, <1>6, LocalKeeps

\* The row goes with the IN_IGNORED: its watch is gone.
LEMMA WatchOfIgnored ==
  ASSUME TypeInv, WatchInv, NEW e, buf # <<>>, e = Head(buf), HandleIgnored(e)
  PROVE  WatchInv'
<1>1. /\ NextEvent /\ "IN_IGNORED" \in e.mask
      /\ rows' = remove_wd_directory(rows, e.wd)
      /\ watch_descriptor = NULL_WD
      /\ UNCHANGED <<watch, queue, last_wd, watch_descriptor, doomed>>
  BY DEF HandleIgnored, Continue, Dispatch, TypeInv, ControlInv
<1>2. Queued(buf, e)
  BY <1>1, NextEventFacts
<1>3. e = Ignored(e.wd) /\ ~ Live(e.wd)
  BY <1>1, <1>2 DEF Queued, WatchInv, WdInv, IgnoredGone
<1>4. EventsMove(e)
  BY <1>1, EventsPop
<1>5. e # Overflow /\ \A r \in rows' : r \in rows /\ e # Ignored(r.wd)
  BY <1>1, IgnoredMask DEF remove_wd_directory
<1>6. WatchTracked'
  <2> SUFFICES ASSUME NEW i \in Inode, watch[i] # 0
               PROVE  wd_directory_exists(rows', watch[i]) \/ watch[i] \in doomed
    BY <1>1 DEF WatchTracked, wd_directory_exists
  <2>1. wd_directory_exists(rows, watch[i]) \/ watch[i] \in doomed
    BY <1>1 DEF WatchInv, WatchTracked, NULL_WD
  <2>2. watch[i] # e.wd
    BY <1>3 DEF Live
  <2> QED
    BY <1>1, <2>1, <2>2 DEF wd_directory_exists, remove_wd_directory
<1> QED
  BY <1>1, <1>4, <1>5, <1>6, LocalKeeps

\* prune_wd_directory: a wd that has a row has one afterwards or is doomed.
LEMMA PruneTracks ==
  ASSUME NEW wd, Prune(wd), doomed = {},
         NEW v, wd_directory_exists(rows, v)
  PROVE  wd_directory_exists(rows', v) \/ v \in doomed'
BY PruneFacts DEF Prune, wd_directory_exists

\* IN_MOVED_FROM: what loses its row is on the list for inotify_rm_watch.
LEMMA WatchOfMovedFrom ==
  ASSUME TypeInv, WatchInv, NEW e, buf # <<>>, e = Head(buf), HandleMovedFrom(e)
  PROVE  WatchInv'
<1>1. /\ watch_descriptor = NULL_WD /\ doomed = {}
      /\ UNCHANGED <<watch, queue, last_wd, watch_descriptor>>
  BY DEF HandleMovedFrom, Dispatch, TypeInv, ControlInv
<1>2. e.mask \cap {"IN_IGNORED", "IN_Q_OVERFLOW"} = {}
  <2>1. e \in EventType
    BY DispatchType DEF HandleMovedFrom
  <2> QED
    BY <2>1 DEF HandleMovedFrom, EventType, Masks
<1>3. CASE NextEvent /\ UNCHANGED <<rows, doomed>>
  BY <1>1, <1>2, <1>3, WatchOfPop
<1>4. CASE UNCHANGED <<rows, doomed, buf>>
  BY <1>1, <1>4, SameKeeps
<1>5. ASSUME NEW wd, Prune(wd), buf' = buf
      PROVE  WatchInv'
  <2>1. rows' \subseteq rows
    BY <1>5, PruneFacts DEF Prune
  <2>2. \A done : EventsMove(done)
    BY <1>1, <1>5, EventsStay
  <2>3. WatchTracked'
    <3> SUFFICES ASSUME NEW i \in Inode, watch[i] # 0
                 PROVE  wd_directory_exists(rows', watch[i]) \/ watch[i] \in doomed'
      BY <1>1 DEF WatchTracked, wd_directory_exists
    <3>1. wd_directory_exists(rows, watch[i])
      BY <1>1 DEF WatchInv, WatchTracked, NULL_WD
    <3> QED
      BY <1>1, <1>5, <3>1, PruneTracks
  <2>4. PICK done : done # Overflow /\ \A wd_ : done # Ignored(wd_)
    BY <1>2, IgnoredMask
  <2> QED
    BY <1>1, <2>1, <2>2, <2>3, <2>4, LocalKeeps
<1> QED
  BY <1>3, <1>4, <1>5 DEF HandleMovedFrom, FallThrough
\* inotify_add_watch on a directory that is watched changes nothing; on
\* another it hands out a wd no watch, row or event has seen.
LEMMA AddWatchFacts ==
  ASSUME TypeInv, WatchInv, NEW i, InotifyAddWatch(i), UNCHANGED <<queue, buf>>
  PROVE  /\ \A wd \in Nat \ {NULL_WD} : Backed(wd) => Backed(wd)'
         /\ IgnoredGone(queue)' /\ IgnoredGone(buf)'
         /\ \A j, k \in Inode : watch'[j] = watch'[k] /\ watch'[j] # 0 => j = k
         /\ \A j \in Inode : watch'[j] <= last_wd'
         /\ last_wd <= last_wd'
         /\ i \in Inode /\ watch'[i] = watch_descriptor'
         /\ watch_descriptor' \in 1 .. last_wd'
         /\ \A j \in Inode : watch'[j] = watch[j] \/ watch'[j] = watch_descriptor'
<1>0. /\ watch \in [Inode -> Nat] /\ last_wd \in Nat /\ i \in Inode
      /\ watch' = [watch EXCEPT ![i] = watch_descriptor']
      /\ WdInv
  BY DEF TypeInv, TypeOK, FsTypeOK, InotifyAddWatch, WatchInv
<1>1. CASE watch[i] # 0
  <2>1. watch_descriptor' = watch[i] /\ last_wd' = last_wd
    BY <1>1 DEF InotifyAddWatch
  <2>2. watch' = watch
    BY <1>0, <2>1
  <2>3. \A wd : Backed(wd) => Backed(wd)'
    BY <2>2 DEF Backed, Live, Pending, Queued
  <2>4. IgnoredGone(queue)' /\ IgnoredGone(buf)'
    BY <1>0, <2>1, <2>2 DEF WdInv, IgnoredGone, Live
  <2> QED
    BY <1>0, <1>1, <2>1, <2>2, <2>3, <2>4 DEF WdInv
<1>2. CASE watch[i] = 0
  <2>1. watch_descriptor' = last_wd + 1 /\ last_wd' = last_wd + 1
    BY <1>2 DEF InotifyAddWatch
  <2>2. \A j \in Inode : watch'[j] = IF j = i THEN last_wd + 1 ELSE watch[j]
    BY <1>0, <2>1
  <2>3. ASSUME NEW wd \in Nat \ {NULL_WD}, Backed(wd)
        PROVE  Backed(wd)'
    <3>1. Live(wd) => Live(wd)'
      BY <1>2, <2>2 DEF Live, NULL_WD
    <3> QED
      BY <2>3, <3>1 DEF Backed, Pending, Queued, Ignored, Overflow, Event
  <2>4. \A wd \in 1 .. last_wd : Live(wd)' => Live(wd)
    BY <1>0, <2>2 DEF Live
  <2>5. \A wd : wd \in 1 .. last_wd => wd \in 1 .. last_wd'
    BY <1>0, <2>1
  <2>6. IgnoredGone(queue)' /\ IgnoredGone(buf)'
    BY <1>0, <2>4, <2>5 DEF WdInv, IgnoredGone, Live
  <2>7. \A j \in Inode : watch[j] <= last_wd /\ watch[j] \in Nat
    BY <1>0 DEF WdInv
  <2>8. \A j, k \in Inode : watch'[j] = watch'[k] /\ watch'[j] # 0 => j = k
    BY <1>0, <2>2, <2>7 DEF WdInv
  <2> QED
    BY <1>0, <2>1, <2>2, <2>3, <2>6, <2>7, <2>8
<1> QED
  BY <1>0, <1>1, <1>2

\* A row that is inserted has the wd of add_watch's watch.
LEMMA InsertFacts ==
  ASSUME NEW rs, NEW wd, NEW call, Insert(rs, wd, call)
  PROVE  /\ rs \subseteq rows'
         /\ \A r \in rows' : r \in rs \/ r.wd = wd
BY DEF Insert, add_wd_directory, Row

\* inotify_add_watch and what add_watch does with the wd it returns.
LEMMA WatchOfAddWatch ==
  ASSUME TypeInv, WatchInv, AddWatch
  PROVE  WatchInv'
<1>1. PICK i : /\ InotifyAddWatch(i)
               /\ IF wd_directory_exists(rows, watch_descriptor')
                    THEN Prune(watch_descriptor')
                    ELSE /\ Insert(rows, watch_descriptor', Head(calls))
                         /\ UNCHANGED doomed
  BY DEF AddWatch
<1>2. /\ UNCHANGED <<queue, buf>>
      /\ watch_descriptor = NULL_WD /\ doomed = {}
  BY DEF AddWatch, TypeInv, ControlInv
<1>3. /\ \A wd \in Nat \ {NULL_WD} : Backed(wd) => Backed(wd)'
      /\ IgnoredGone(queue)' /\ IgnoredGone(buf)'
      /\ \A j, k \in Inode : watch'[j] = watch'[k] /\ watch'[j] # 0 => j = k
      /\ \A j \in Inode : watch'[j] <= last_wd'
      /\ last_wd <= last_wd'
      /\ i \in Inode /\ watch'[i] = watch_descriptor'
      /\ watch_descriptor' \in 1 .. last_wd'
      /\ \A j \in Inode : watch'[j] = watch[j] \/ watch'[j] = watch_descriptor'
  BY <1>1, <1>2, AddWatchFacts
<1>4. Backed(watch_descriptor)'
  BY <1>3 DEF Backed, Live
<1>5. \A r \in rows' : r \in rows \/ r.wd = watch_descriptor'
  BY <1>1, InsertFacts, PruneFacts DEF Prune
<1>6. \A r \in rows : /\ r.wd \in Nat \ {NULL_WD}
                       /\ r.wd <= last_wd /\ Backed(r.wd)
  BY DEF TypeInv, TypeOK, RowType, WatchInv, WdInv, RowBacked
<1>7. RowBacked'
  <2> SUFFICES ASSUME NEW r \in rows' PROVE Backed(r.wd)'
    BY DEF RowBacked
  <2>1. CASE r \in rows
    BY <1>3, <1>6, <2>1
  <2>2. CASE r.wd = watch_descriptor'
    BY <1>4, <2>2 DEF Backed, Live, Pending
  <2> QED
    BY <1>5, <2>1, <2>2
<1>8. last_wd \in Nat /\ last_wd' \in Nat
  BY <1>1 DEF TypeInv, TypeOK, FsTypeOK, InotifyAddWatch
<1>9. \A r \in rows' : r.wd <= last_wd'
  BY <1>3, <1>5, <1>6, <1>8
<1>10. WdInv'
  BY <1>3, <1>4, <1>8, <1>9 DEF WdInv
<1>11. WatchTracked'
  <2> SUFFICES ASSUME NEW j \in Inode, watch'[j] # 0, watch'[j] # watch_descriptor'
               PROVE  wd_directory_exists(rows', watch'[j]) \/ watch'[j] \in doomed'
    BY DEF WatchTracked, wd_directory_exists
  <2>1. watch'[j] = watch[j]
    BY <1>3
  <2>2. wd_directory_exists(rows, watch[j])
    BY <1>2, <2>1 DEF WatchInv, WatchTracked, NULL_WD
  <2>3. wd_directory_exists(rows', watch[j]) \/ watch[j] \in doomed'
    BY <1>1, <1>2, <2>2, PruneTracks, InsertFacts DEF wd_directory_exists
  <2> QED
    BY <2>1, <2>3
<1> QED
  BY <1>7, <1>10, <1>11 DEF WatchInv

\* The row inserted for a wd that was just removed waits for its IN_IGNORED.
LEMMA WatchOfInsertAfterPrune ==
  ASSUME TypeInv, WatchInv, InsertAfterPrune
  PROVE  WatchInv'
<1>1. /\ Insert(rows, watch_descriptor, Head(calls))
      /\ watch_descriptor # NULL_WD
      /\ UNCHANGED <<watch, queue, buf, last_wd, watch_descriptor, doomed>>
  BY DEF InsertAfterPrune, fsVars
<1>2. /\ rows \subseteq rows'
      /\ \A r \in rows' : r \in rows \/ r.wd = watch_descriptor
  BY <1>1, InsertFacts
<1>3. \A wd : Backed(wd) => Backed(wd)'
  BY <1>1 DEF Backed, Live, Pending, Queued, Ignored, Overflow, Event
<1>4. Backed(watch_descriptor)' /\ Backed(watch_descriptor) /\ watch_descriptor <= last_wd
  BY <1>1, <1>3 DEF WatchInv, WdInv, Backed, Live, Pending, Queued
<1>5. RowBacked'
  <2> SUFFICES ASSUME NEW r \in rows' PROVE Backed(r.wd)'
    BY DEF RowBacked
  <2> QED
    BY <1>2, <1>3, <1>4 DEF WatchInv, RowBacked
<1>6. WdInv'
  BY <1>1, <1>2, <1>4 DEF WatchInv, WdInv, IgnoredGone, Live
<1>7. WatchTracked'
  BY <1>1, <1>2 DEF WatchInv, WatchTracked, wd_directory_exists
<1> QED
  BY <1>5, <1>6, <1>7 DEF WatchInv

\* The row is there by the time add_watch lists the sub-directories.
LEMMA WatchOfListSubDirs ==
  ASSUME TypeInv, WatchInv, ListSubDirs
  PROVE  WatchInv'
<1>1. /\ wd_directory_exists(rows, watch_descriptor)
      /\ watch_descriptor' = NULL_WD
      /\ UNCHANGED <<watch, queue, buf, last_wd, rows, doomed>>
  BY DEF ListSubDirs, fsVars, TypeInv, ControlInv
<1>2. PICK done : done # Overflow /\ \A wd : done # Ignored(wd)
  <2>1. Event(0, {"IN_CREATE"}, 0, "") # Overflow /\ \A wd : Event(0, {"IN_CREATE"}, 0, "") # Ignored(wd)
    BY DEF Event, Overflow, Ignored
  <2> QED
    BY <2>1
<1>3. EventsMove(done)
  BY <1>1, EventsStay
<1>4. WatchTracked'
  BY <1>1 DEF WatchInv, WatchTracked, wd_directory_exists
<1> QED
  BY <1>1, <1>2, <1>3, <1>4, LocalKeeps
\* Every step keeps WatchInv.
LEMMA WatchStep ==
  ASSUME TypeInv, WatchInv, [Next]_vars
  PROVE  WatchInv'
<1>0. TypeInv'
  BY StepType
<1>1. CASE AddWatch
  BY <1>1, WatchOfAddWatch
<1>2. CASE InsertAfterPrune
  BY <1>2, WatchOfInsertAfterPrune
<1>3. CASE ListSubDirs
  BY <1>3, WatchOfListSubDirs
<1>4. CASE AddWatchDeclined \/ StartupDone \/ Flush \/ UNCHANGED vars
  BY <1>4, SameKeeps DEF AddWatchDeclined, StartupDone, Flush, vars, fsVars
<1>5. CASE RemovePruned
  <2>1. PICK wd \in doomed : InotifyRmWatch(wd) /\ doomed' = doomed \ {wd}
    BY <1>5 DEF RemovePruned
  <2>2. wd \in Nat /\ wd # NULL_WD /\ watch \in [Inode -> Nat]
    BY DEF TypeInv, TypeOK, FsTypeOK
  <2>3. UNCHANGED <<last_wd, buf, rows, watch_descriptor>>
    BY <1>5 DEF RemovePruned
  <2>4. PICK es : WatchesGo(es)
    BY <2>1, <2>2, <2>3, RmWatchGoes DEF WatchInv
  <2>5. \A i \in Inode : watch'[i] # 0 => watch'[i] # wd
    BY <2>1, <2>2 DEF InotifyRmWatch
  <2> QED
    BY <1>0, <2>1, <2>3, <2>4, <2>5, GoKeeps
<1>6. CASE PruneMovedDone \/ WatchNewDone
  <2>1. /\ NextEvent /\ buf # <<>> /\ watch_descriptor = NULL_WD
        /\ Head(buf).mask \cap {"IN_IGNORED", "IN_Q_OVERFLOW"} = {}
        /\ UNCHANGED <<watch, queue, last_wd, rows, watch_descriptor, doomed>>
    BY <1>6 DEF PruneMovedDone, WatchNewDone, FallThrough, Continue, TypeInv, ControlInv
  <2> QED
    BY <2>1, WatchOfPop
<1>7. CASE ReadEvents
  BY <1>7, WatchOfRead
<1>8. CASE buf # <<>> /\ Handle(Head(buf))
  <2> DEFINE e == Head(buf)
  <2>1. CASE HandleIgnored(e)
    BY <1>8, <2>1, WatchOfIgnored
  <2>2. CASE HandleMovedFrom(e)
    BY <1>8, <2>2, WatchOfMovedFrom
  <2>3. CASE HandleOverflow(e) \/ HandleCreateDir(e)
    BY <2>3, SameKeeps DEF HandleOverflow, HandleCreateDir, fsVars
  <2>4. CASE HandleSkipped(e) \/ HandleChange(e) \/ HandleMovedTo(e)
    <3>1. e \in EventType /\ watch_descriptor = NULL_WD
      BY <1>8, <2>4, DispatchType DEF HandleSkipped, HandleChange, HandleMovedTo
    <3>2. e.mask \cap {"IN_IGNORED", "IN_Q_OVERFLOW"} = {}
      BY <2>4, <3>1 DEF HandleSkipped, HandleChange, HandleMovedTo, EventType, Masks
    <3>3. /\ UNCHANGED <<watch, queue, last_wd, rows, watch_descriptor, doomed>>
          /\ NextEvent \/ UNCHANGED buf
      BY <2>4 DEF HandleSkipped, HandleChange, HandleMovedTo, FallThrough, Continue
    <3> QED
      BY <1>8, <3>1, <3>2, <3>3, WatchOfPop, SameKeeps
  <2> QED
    BY <1>8, <2>1, <2>2, <2>3, <2>4 DEF Handle
<1>9. CASE Environment
  <2>1. FsNext /\ UNCHANGED <<buf, rows, watch_descriptor, doomed>>
    BY <1>9 DEF Environment
  <2>2. PICK es : WatchesGo(es)
    BY <2>1, FsWatchesGo
  <2> QED
    BY <1>0, <2>1, <2>2, GoKeeps
<1>10. CASE AddWatchFails \/ OpendirFails \/ RemovePrunedFails \/ ReadFails
  BY <1>10, SameKeeps DEF AddWatchFails, OpendirFails, RemovePrunedFails, ReadFails, CallFailed, fsVars
<1> QED
  BY <1>1, <1>2, <1>3, <1>4, <1>5, <1>6, <1>7, <1>8, <1>9, <1>10 DEF Next, Watcher

\* WatchInv, with TypeInv, always holds.
LEMMA WatchAlways == Spec => [](TypeInv /\ WatchInv)
<1>1. Init => TypeInv /\ WatchInv
  <2> SUFFICES ASSUME Init PROVE TypeInv /\ WatchInv
    OBVIOUS
  <2>1. IgnoredGone(queue) /\ IgnoredGone(buf)
    BY DEF Init, FsInit, IgnoredGone
  <2> QED
    BY <2>1, InitType
    DEF Init, FsInit, WatchInv, WdInv, RowBacked, WatchTracked, NULL_WD
<1>2. TypeInv /\ WatchInv /\ [Next]_vars => (TypeInv /\ WatchInv)'
  BY StepType, WatchStep
<1> QED
  BY <1>1, <1>2, PTL DEF Spec

\* Every row has its watch, or the IN_IGNORED of the watch is on its way, or
\* the queue overflowed: no wd of the table is forgotten by the kernel
\* without the program hearing of it.
THEOREM RowsBacked == Spec => []RowBacked
<1>1. TypeInv /\ WatchInv => RowBacked
  BY DEF WatchInv
<1> QED
  BY <1>1, WatchAlways, PTL

\* No watch leaks: what the kernel watches has a row, or is about to have
\* one, or is about to be removed.
THEOREM WatchesTracked == Spec => []WatchTracked
<1>1. TypeInv /\ WatchInv => WatchTracked
  BY DEF WatchInv
<1> QED
  BY <1>1, WatchAlways, PTL

-----------------------------------------------------------------------------
(***************************************************************************)
(* KeyInv is inductive with the types: add_watch looks the path up before  *)
(* it asks for a wd, and prunes the wd it is given when the table has it,  *)
(* so that both keys are free when it inserts, whatever happened in        *)
(* between.                                                                *)
(***************************************************************************)
\* No two rows have the wd, or the path, in common.
UniqueKeys(rs) == \A r, q \in rs : r.wd = q.wd \/ r.path = q.path => r = q

\* Deleting rows keeps the keys of the others unique.
LEMMA UniqueSubset ==
  ASSUME NEW rs, NEW smaller \in SUBSET rs, UniqueKeys(rs)
  PROVE  UniqueKeys(smaller)
BY DEF UniqueKeys

\* prune_wd_directory leaves no row with the wd it was given.
LEMMA PrunedKeyFree ==
  ASSUME NEW rs, NEW wd
  PROVE  \A r \in prune_wd_directory(rs, wd) : r \in rs /\ r.wd # wd
BY PruneFacts DEF prune_wd_directory

\* An INSERT that is allowed keeps the keys unique.
LEMMA InsertKeepsKeys ==
  ASSUME NEW rs, UniqueKeys(rs), NEW wd, NEW parent, NEW path, InsertAllowed(rs, wd, path)
  PROVE  UniqueKeys(add_wd_directory(rs, wd, parent, path))
BY DEF UniqueKeys, InsertAllowed, add_wd_directory, Row

\* add_watch: its INSERT is allowed, at once or after the prune.
LEMMA KeyOfAddWatch ==
  ASSUME TypeInv, KeyInv, AddWatch
  PROVE  KeyInv'
<1> DEFINE call == Head(calls)
<1>1. /\ find_directory_wd(rows, call.path) = NULL_WD
      /\ calls' = calls
      /\ IF wd_directory_exists(rows, watch_descriptor')
           THEN Prune(watch_descriptor')
           ELSE Insert(rows, watch_descriptor', call)
  BY DEF AddWatch
<1>2. \A r \in rows : r.path # call.path
  BY <1>1, FindType DEF TypeInv, TypeOK
<1>3. UniqueKeys(rows)
  BY DEF KeyInv, UniqueKeys
<1> HIDE DEF call
<1>4. CASE wd_directory_exists(rows, watch_descriptor')
  <2>1. \/ pc' = "hung" /\ rows' = rows
        \/ pc' = "prune" /\ rows' = prune_wd_directory(rows, watch_descriptor')
    BY <1>1, <1>4 DEF Prune
  <2>2. CASE pc' = "hung" /\ rows' = rows
    BY <1>3, <2>2 DEF KeyInv, NoSqlFailure, UniqueKeys
  <2>3. CASE pc' = "prune" /\ rows' = prune_wd_directory(rows, watch_descriptor')
    <3>1. \A r \in rows' : r \in rows /\ r.wd # watch_descriptor'
      BY <2>3, PrunedKeyFree
    <3>2. InsertAllowed(rows', watch_descriptor', Head(calls').path)
      BY <1>1, <1>2, <3>1 DEF InsertAllowed, call
    <3>3. UniqueKeys(rows')
      BY <1>3, <3>1, UniqueSubset
    <3> QED
      BY <2>3, <3>2, <3>3 DEF KeyInv, NoSqlFailure, UniqueKeys
  <2> QED
    BY <2>1, <2>2, <2>3
<1>5. CASE ~ wd_directory_exists(rows, watch_descriptor')
  <2>1. InsertAllowed(rows, watch_descriptor', call.path)
    BY <1>2, <1>5 DEF InsertAllowed, wd_directory_exists
  <2>2. /\ pc' = "list"
        /\ rows' = add_wd_directory(rows, watch_descriptor', call.parent_wd, call.path)
    BY <1>1, <1>5, <2>1 DEF Insert
  <2>3. UniqueKeys(rows')
    BY <1>3, <2>1, <2>2, InsertKeepsKeys
  <2> QED
    BY <2>2, <2>3 DEF KeyInv, NoSqlFailure, UniqueKeys
<1> QED
  BY <1>4, <1>5

\* The INSERT after a prune is the one the prune made room for.
LEMMA KeyOfInsertAfterPrune ==
  ASSUME TypeInv, KeyInv, InsertAfterPrune
  PROVE  KeyInv'
<1>1. InsertAllowed(rows, watch_descriptor, Head(calls).path)
  BY DEF KeyInv, InsertAfterPrune
<1>2. /\ pc' = "list"
      /\ rows' = add_wd_directory(rows, watch_descriptor, Head(calls).parent_wd, Head(calls).path)
  BY <1>1 DEF InsertAfterPrune, Insert
<1>3. UniqueKeys(rows')
  BY <1>1, <1>2, InsertKeepsKeys DEF KeyInv, UniqueKeys
<1> QED
  BY <1>2, <1>3 DEF KeyInv, NoSqlFailure, UniqueKeys

\* The prune of IN_MOVED_FROM inserts nothing.
LEMMA KeyOfMovedFrom ==
  ASSUME TypeInv, KeyInv, NEW e, HandleMovedFrom(e)
  PROVE  KeyInv'
<1>1. pc = "dispatch" /\ watch_descriptor' = NULL_WD
  BY DEF HandleMovedFrom, Dispatch, TypeInv, ControlInv
<1>2. /\ pc' # "sql_error"
      /\ \/ rows' = rows
         \/ \E wd : rows' = prune_wd_directory(rows, wd)
  BY DEF HandleMovedFrom, Prune, FallThrough, NextEvent
<1>3. rows' \in SUBSET rows
  BY <1>2, PrunedKeyFree
<1>4. UniqueKeys(rows')
  BY <1>3, UniqueSubset DEF KeyInv, UniqueKeys
<1> QED
  BY <1>1, <1>2, <1>4 DEF KeyInv, NoSqlFailure, UniqueKeys

\* Every step keeps the keys unique.
LEMMA KeyStep ==
  ASSUME TypeInv, KeyInv, [Next]_vars
  PROVE  KeyInv'
<1>1. ASSUME rows' \in SUBSET rows, pc' \notin {"prune", "sql_error"}
      PROVE  KeyInv'
  <2>1. UniqueKeys(rows')
    BY <1>1, UniqueSubset DEF KeyInv, UniqueKeys
  <2> QED
    BY <1>1, <2>1 DEF KeyInv, NoSqlFailure, UniqueKeys
<1>2. CASE AddWatchDeclined \/ ListSubDirs \/ StartupDone \/ Flush \/ ReadEvents
  BY <1>1, <1>2 DEF AddWatchDeclined, ListSubDirs, StartupDone, Flush, ReadEvents
<1>3. CASE PruneMovedDone \/ WatchNewDone
  BY <1>1, <1>3 DEF PruneMovedDone, WatchNewDone, FallThrough, Continue, NextEvent
<1>4. CASE AddWatch
  BY <1>4, KeyOfAddWatch
<1>5. CASE InsertAfterPrune
  BY <1>5, KeyOfInsertAfterPrune
<1>6. CASE RemovePruned
  BY <1>6 DEF RemovePruned, KeyInv, NoSqlFailure
<1>7. ASSUME NEW e, Handle(e)
      PROVE  KeyInv'
  <2>1. CASE HandleMovedFrom(e)
    BY <2>1, KeyOfMovedFrom
  <2>2. CASE HandleMovedTo(e) \/ HandleCreateDir(e) \/ HandleOverflow(e)
    BY <1>1, <2>2 DEF HandleMovedTo, HandleCreateDir, HandleOverflow, FallThrough, NextEvent
  <2>3. CASE HandleSkipped(e) \/ HandleChange(e)
    BY <1>1, <2>3 DEF HandleSkipped, HandleChange, FallThrough, Continue, NextEvent
  <2>4. CASE HandleIgnored(e)
    BY <1>1, <2>4 DEF HandleIgnored, Continue, NextEvent, remove_wd_directory
  <2> QED
    BY <1>7, <2>1, <2>2, <2>3, <2>4 DEF Handle
<1>8. CASE Environment
  BY <1>8 DEF Environment, KeyInv, NoSqlFailure
<1>9. CASE UNCHANGED vars
  BY <1>9 DEF vars, KeyInv, NoSqlFailure
<1>10. CASE AddWatchFails \/ OpendirFails \/ RemovePrunedFails \/ ReadFails
  BY <1>1, <1>10 DEF AddWatchFails, OpendirFails, RemovePrunedFails, ReadFails, CallFailed
<1> QED
  BY <1>2, <1>3, <1>4, <1>5, <1>6, <1>7, <1>8, <1>9, <1>10 DEF Next, Watcher

\* No INSERT breaks the PRIMARY KEY or the UNIQUE path of the table:
\* execute_sql of wd_directory.c never ends the program.
THEOREM InsertsSucceed == Spec => []NoSqlFailure
<1>1. Init => TypeInv /\ KeyInv
  BY InitType DEF Init, KeyInv, NoSqlFailure
<1>2. TypeInv /\ KeyInv /\ [Next]_vars => (TypeInv /\ KeyInv)'
  BY StepType, KeyStep
<1>3. TypeInv /\ KeyInv => NoSqlFailure
  BY DEF KeyInv
<1> QED
  BY <1>1, <1>2, <1>3, PTL DEF Spec

-----------------------------------------------------------------------------
(***************************************************************************)
(* CookieInv is inductive with the types: the kernel numbers renames, and  *)
(* the queue keeps the order of events whatever it drops.                  *)
(***************************************************************************)

\* Events none of which is an IN_MOVED_FROM, and cookies not above c.
Tame(s, c) == \A k \in 1 .. Len(s) : s[k].cookie <= c /\ ~ IsMovedFrom(s[k])

\* What one step of the kernel reports: if it starts with an IN_MOVED_FROM, that
\* has a new cookie.
Batch(es) ==
  /\ es \in Seq(EventType) /\ last_cookie' \in Nat /\ last_cookie <= last_cookie'
  /\ \A k \in 1 .. Len(es) : es[k].cookie <= last_cookie'
  /\ \A k \in 1 .. Len(es) : IsMovedFrom(es[k]) => k = 1 /\ last_cookie < es[k].cookie
  /\ queue' = Enqueue(queue, es)

\* Where the events of a longer queue come from.
LEMMA EnqueuePlaces ==
  ASSUME NEW q \in Seq(EventType), NEW es \in Seq(EventType),
         NEW k \in 1 .. Len(Enqueue(q, es))
  PROVE  \/ k \in 1 .. Len(q) /\ Enqueue(q, es)[k] = q[k]
         \/ Len(q) < k /\ Enqueue(q, es)[k] = Overflow
         \/ k - Len(q) \in 1 .. Len(es) /\ Enqueue(q, es)[k] = es[k - Len(q)]
<1>1. PICK l \in Nat : l = Len(q)
  OBVIOUS
<1>2. PICK n \in Nat : n = Len(es)
  OBVIOUS
<1>3. PICK room \in Nat : room = IF l < QueueLimit THEN QueueLimit - l ELSE 0
  <2>1. (IF l < QueueLimit THEN QueueLimit - l ELSE 0) \in Nat
    BY InotifyAssumption
  <2> QED
    BY <2>1
<1>4. CASE n <= room
  <2>1. Enqueue(q, es) = q \o es
    BY <1>1, <1>2, <1>3, <1>4 DEF Enqueue
  <2> QED
    BY <1>1, <1>2, <2>1, ConcatProperties
<1>5. CASE ~ (n <= room)
  <2>1. PICK first : first = SubSeq(es, 1, room)
    OBVIOUS
  <2>2. first \in Seq(EventType) /\ Len(first) = room /\ \A i \in 1 .. room : first[i] = es[i]
    <3>1. \A i \in 1 .. room : es[i] \in EventType
      BY <1>2, <1>5, ElementOfSeq
    <3> QED
      BY <2>1, <3>1, SubSeqProperties
  <2>3. PICK s \in Seq(EventType) : s = q \o first
    BY <2>2, ConcatProperties
  <2>4. Len(s) = l + room /\ \A i \in 1 .. l + room : s[i] = IF i <= l THEN q[i] ELSE first[i - l]
    BY <1>1, <2>2, <2>3, ConcatProperties
  <2>5. CASE Enqueue(q, es) = s
    BY <1>1, <1>2, <1>5, <2>2, <2>4, <2>5
  <2>6. CASE Enqueue(q, es) = s \o <<Overflow>>
    <3>1. <<Overflow>> \in Seq(EventType) /\ Len(<<Overflow>>) = 1 /\ <<Overflow>>[1] = Overflow
      <4>1. Overflow \in EventType
        BY DEF Overflow, Event, EventType, Masks, EntryName
      <4> QED
        BY <4>1
    <3>2. /\ Len(Enqueue(q, es)) = l + room + 1
          /\ \A i \in 1 .. l + room + 1 : Enqueue(q, es)[i] =
               IF i <= l + room THEN s[i] ELSE <<Overflow>>[i - (l + room)]
      <4>1. PICK o \in Seq(EventType) : o = <<Overflow>>
        BY <3>1
      <4>2. Len(o) = 1
        BY <3>1, <4>1
      <4>3. /\ Len(s \o o) = l + room + 1
            /\ \A i \in 1 .. l + room + 1 : (s \o o)[i] =
                 IF i <= l + room THEN s[i] ELSE o[i - (l + room)]
        <5>1. /\ Len(s \o o) = Len(s) + Len(o)
              /\ \A i \in 1 .. Len(s) + Len(o) : (s \o o)[i] =
                   IF i <= Len(s) THEN s[i] ELSE o[i - Len(s)]
          BY ConcatProperties
        <5> QED
          BY <2>4, <4>2, <5>1
      <4> QED
        BY <2>6, <4>1, <4>3
    <3> QED
      BY <1>1, <1>2, <1>5, <2>2, <2>4, <3>1, <3>2
  <2> QED
    BY <1>1, <1>2, <1>3, <1>5, <2>1, <2>3, <2>5, <2>6 DEF Enqueue
<1> QED
  BY <1>4, <1>5

\* Tame events one behind the other.
LEMMA TameConcat ==
  ASSUME NEW c \in Nat, NEW s \in Seq(EventType), NEW t \in Seq(EventType),
         Tame(s, c), Tame(t, c)
  PROVE  s \o t \in Seq(EventType) /\ Tame(s \o t, c)
<1>1. PICK l \in Nat, n \in Nat : l = Len(s) /\ n = Len(t)
  OBVIOUS
<1>2. /\ s \o t \in Seq(EventType) /\ Len(s \o t) = l + n
      /\ \A i \in 1 .. l + n : (s \o t)[i] = IF i <= l THEN s[i] ELSE t[i - l]
  BY <1>1, ConcatProperties
<1>3. ASSUME NEW i \in 1 .. l + n
      PROVE  (s \o t)[i].cookie <= c /\ ~ IsMovedFrom((s \o t)[i])
  <2>1. CASE i <= l
    BY <1>1, <1>2, <2>1 DEF Tame
  <2>2. CASE ~ (i <= l)
    <3>1. i - l \in 1 .. n
      BY <2>2
    <3> QED
      BY <1>1, <1>2, <2>2, <3>1 DEF Tame
  <2> QED
    BY <2>1, <2>2
<1> QED
  BY <1>2, <1>3 DEF Tame

\* What a watch reports of anything but a move away is tame, and so is the end
\* of a watch.
LEMMA ReportTame ==
  ASSUME TypeInv, NEW c \in Nat
  PROVE  /\ \A d, mask, name : \A cookie \in 0 .. c :
              "IN_MOVED_FROM" \notin mask => Tame(Report(d, mask, cookie, name), c)
         /\ \A d \in Inode : Tame(ReportEnd(d), c)
         /\ \A wd : Tame(<<Ignored(wd)>>, c)
<1>1. \A d, mask, name : \A cookie \in 0 .. c :
        "IN_MOVED_FROM" \notin mask => Tame(Report(d, mask, cookie, name), c)
  BY DEF Tame, Report, Event, IsMovedFrom
<1>2. ASSUME NEW wd
      PROVE  Tame(<<Ignored(wd)>>, c)
  <2>1. Ignored(wd).cookie <= c /\ ~ IsMovedFrom(Ignored(wd))
    BY DEF Ignored, Event, IsMovedFrom
  <2>2. Len(<<Ignored(wd)>>) = 1 /\ <<Ignored(wd)>>[1] = Ignored(wd)
    OBVIOUS
  <2> QED
    BY <2>1, <2>2 DEF Tame
<1>3. ASSUME NEW d \in Inode
      PROVE  Tame(ReportEnd(d), c)
  <2>1. PICK self : self = Report(d, {"IN_DELETE_SELF"}, 0, "")
    OBVIOUS
  <2>2. PICK gone : gone = IF watch[d] # 0 THEN <<Ignored(watch[d])>> ELSE <<>>
    OBVIOUS
  <2>3. self \in Seq(EventType) /\ Tame(self, c)
    <3>1. 0 \in 0 .. c /\ 0 \in Nat /\ "IN_MOVED_FROM" \notin {"IN_DELETE_SELF"}
          /\ {"IN_DELETE_SELF"} \in Masks /\ "" \in EntryName /\ FsTypeOK
      BY DEF TypeInv, TypeOK, Masks, EntryName
    <3> QED
      BY <1>1, <2>1, <3>1, ReportType
  <2>4. gone \in Seq(EventType) /\ Tame(gone, c)
    <3>1. CASE watch[d] # 0
      BY <1>2, <2>2, <3>1, IgnoredType DEF TypeInv, TypeOK, FsTypeOK
    <3>2. CASE watch[d] = 0
      BY <2>2, <3>2 DEF Tame
    <3> QED
      BY <3>1, <3>2
  <2>5. ReportEnd(d) = self \o gone
    BY <2>1, <2>2 DEF ReportEnd
  <2> QED
    BY <2>3, <2>4, <2>5, TameConcat
<1> QED
  BY <1>1, <1>2, <1>3

\* A step that reports no IN_MOVED_FROM.
LEMMA TameBatch ==
  ASSUME TypeInv, NEW es \in Seq(EventType), Tame(es, last_cookie),
         queue' = Enqueue(queue, es), last_cookie' = last_cookie
  PROVE  Batch(es)
BY DEF Batch, Tame, TypeInv, TypeOK, FsTypeOK

\* The events of a move, or the first few of them: an IN_MOVED_FROM, if anybody
\* watches, with the next cookie, and then others.
Leading(es) ==
  /\ es \in Seq(EventType)
  /\ \A k \in 1 .. Len(es) : es[k].cookie <= last_cookie + 1
  /\ \A k \in 1 .. Len(es) : IsMovedFrom(es[k]) => k = 1 /\ es[k].cookie = last_cookie + 1

\* Other events of the same move behind the first few are events of the move.
LEMMA LeadingConcat ==
  ASSUME TypeInv, NEW f, Leading(f), NEW t \in Seq(EventType), Tame(t, last_cookie + 1)
  PROVE  Leading(f \o t)
<1>1. PICK l \in Nat, n \in Nat : l = Len(f) /\ n = Len(t)
  BY DEF Leading
<1>2. PICK es \in Seq(EventType) : es = f \o t
  BY ConcatProperties DEF Leading
<1>3. /\ Len(es) = l + n
      /\ \A i \in 1 .. l + n : es[i] = IF i <= l THEN f[i] ELSE t[i - l]
  <2>1. /\ Len(f \o t) = Len(f) + Len(t)
        /\ \A i \in 1 .. Len(f) + Len(t) :
             (f \o t)[i] = IF i <= Len(f) THEN f[i] ELSE t[i - Len(f)]
    BY ConcatProperties DEF Leading
  <2> QED
    BY <1>1, <1>2, <2>1
<1>4. ASSUME NEW k \in 1 .. l + n
      PROVE  /\ es[k].cookie <= last_cookie + 1
             /\ IsMovedFrom(es[k]) => k = 1 /\ es[k].cookie = last_cookie + 1
  <2>1. CASE k <= l
    BY <1>1, <1>3, <2>1 DEF Leading
  <2>2. CASE ~ (k <= l)
    <3>1. k - l \in 1 .. n /\ es[k] = t[k - l]
      BY <1>3, <2>2
    <3> QED
      BY <1>1, <3>1 DEF Tame
  <2> QED
    BY <2>1, <2>2
<1>5. Leading(es)
  BY <1>2, <1>3, <1>4 DEF Leading
<1> QED
  BY <1>2, <1>5

\* A step that moves something.
LEMMA MoveBatch ==
  ASSUME TypeInv, NEW es, Leading(es),
         queue' = Enqueue(queue, es), last_cookie' = last_cookie + 1
  PROVE  Batch(es)
BY DEF Batch, Leading, TypeInv, TypeOK, FsTypeOK

\* rename(2) of a directory.
LEMMA ReportMoveBatch ==
  ASSUME TypeInv, NEW i \in Inode, NEW d, NEW n \in Name, Attached(i),
         NEW rest \in Seq(EventType), Tame(rest, last_cookie + 1),
         queue' = Enqueue(queue, ReportMove(i, d, n) \o rest),
         last_cookie' = last_cookie + 1
  PROVE  Batch(ReportMove(i, d, n) \o rest)
<1>1. FsTypeOK /\ last_cookie + 1 \in Nat /\ 0 \in 0 .. last_cookie + 1
      /\ last_cookie + 1 \in 0 .. last_cookie + 1
  BY DEF TypeInv, TypeOK, FsTypeOK
<1>2. loc[i][2] \in EntryName /\ n \in EntryName /\ "" \in EntryName
  BY <1>1 DEF FsTypeOK, Attached, EntryName
<1>3. PICK from : from = Report(loc[i][1], {"IN_MOVED_FROM", "IN_ISDIR"}, last_cookie + 1, loc[i][2])
  OBVIOUS
<1>4. PICK to : to = Report(d, {"IN_MOVED_TO", "IN_ISDIR"}, last_cookie + 1, n)
  OBVIOUS
<1>5. PICK self : self = Report(i, {"IN_MOVE_SELF"}, 0, "")
  OBVIOUS
<1>6. /\ {"IN_MOVED_FROM", "IN_ISDIR"} \in Masks
      /\ {"IN_MOVED_TO", "IN_ISDIR"} \in Masks
      /\ {"IN_MOVE_SELF"} \in Masks
  BY DEF Masks
<1>7. from \in Seq(EventType) /\ to \in Seq(EventType) /\ self \in Seq(EventType)
  BY <1>1, <1>2, <1>3, <1>4, <1>5, <1>6, ReportType
<1>8. Leading(from)
  BY <1>1, <1>3, <1>7 DEF Leading, Report, Event
<1>9. Tame(to, last_cookie + 1) /\ Tame(self, last_cookie + 1)
  BY <1>1, <1>4, <1>5, ReportTame
<1>10. Leading(((from \o to) \o self) \o rest)
  BY <1>7, <1>8, <1>9, LeadingConcat, Zenon
<1>11. ReportMove(i, d, n) = (from \o to) \o self
  BY <1>3, <1>4, <1>5 DEF ReportMove
<1> QED
  BY <1>10, <1>11, MoveBatch, Zenon

\* Every change another process makes reports its events in this way.
LEMMA FsBatch ==
  ASSUME TypeInv, FsNext
  PROVE  \E es : Batch(es)
<1> USE DEF FsOp
<1>0. FsTypeOK /\ last_cookie \in Nat /\ 0 \in 0 .. last_cookie
      /\ last_cookie + 1 \in Nat /\ last_cookie + 1 \in 0 .. last_cookie + 1
  BY DEF TypeInv, TypeOK, FsTypeOK
<1>1. ASSUME NEW i \in Inode, NEW d \in Parents, NEW n \in Name, Mkdir(i, d, n)
      PROVE  \E es : Batch(es)
  <2>1. Report(d, {"IN_CREATE", "IN_ISDIR"}, 0, n) \in Seq(EventType)
    BY <1>0, ReportType DEF Masks, EntryName
  <2>2. Tame(Report(d, {"IN_CREATE", "IN_ISDIR"}, 0, n), last_cookie)
    BY <1>0, ReportTame
  <2> QED
    BY <1>1, <2>1, <2>2, TameBatch DEF Mkdir
<1>2. ASSUME NEW i \in Inode, NEW d \in Parents, NEW n \in Name, Rename(i, d, n)
      PROVE  \E es : Batch(es)
  <2>1. ReportMove(i, d, n) \in Seq(EventType) /\ Attached(i)
    BY <1>0, <1>2, ReportMoveType DEF Rename, Movable
  <2>2. ReportMove(i, d, n) \o <<>> = ReportMove(i, d, n)
    BY <2>1, ConcatEmptySeq
  <2>3. <<>> \in Seq(EventType) /\ Tame(<<>>, last_cookie + 1)
    BY DEF Tame
  <2> QED
    BY <1>2, <2>1, <2>2, <2>3, ReportMoveBatch DEF Rename
<1> DEFINE removed(i) == Report(loc[i][1], {"IN_DELETE", "IN_ISDIR"}, 0, loc[i][2])
<1>3. ASSUME NEW i \in Inode, Attached(i)
      PROVE  removed(i) \in Seq(EventType) /\ Tame(removed(i), last_cookie)
  <2>1. loc[i][2] \in EntryName
    BY <1>0, <1>3 DEF FsTypeOK, Attached, EntryName
  <2>2. removed(i) \in Seq(EventType)
    BY <1>0, <2>1, ReportType DEF Masks, EntryName
  <2> QED
    BY <1>0, <2>2, ReportTame
<1>4. ASSUME NEW i \in Inode, Rmdir(i)
      PROVE  \E es : Batch(es)
  <2>1. /\ removed(i) \in Seq(EventType) /\ Tame(removed(i), last_cookie)
        /\ ReportEnd(i) \in Seq(EventType) /\ Tame(ReportEnd(i), last_cookie)
    BY <1>0, <1>3, <1>4, ReportEndType, ReportTame DEF Rmdir, Removable
  <2>2. queue' = Enqueue(queue, ReportEnd(i) \o removed(i)) /\ last_cookie' = last_cookie
    BY <1>4 DEF Rmdir
  <2> HIDE DEF removed
  <2> QED
    BY <1>0, <2>1, <2>2, TameConcat, TameBatch
<1>5. ASSUME NEW i \in Inode, RmdirHeld(i)
      PROVE  \E es : Batch(es)
  <2>1. removed(i) \in Seq(EventType) /\ Tame(removed(i), last_cookie)
    BY <1>3, <1>5 DEF RmdirHeld, Removable
  <2> QED
    BY <1>5, <2>1, TameBatch DEF RmdirHeld
<1>6. ASSUME NEW i \in Inode, Release(i)
      PROVE  \E es : Batch(es)
  <2>1. ReportEnd(i) \in Seq(EventType) /\ Tame(ReportEnd(i), last_cookie)
    BY <1>0, ReportEndType, ReportTame
  <2> QED
    BY <1>6, <2>1, TameBatch DEF Release
<1>7. ASSUME NEW i \in Inode, NEW t \in Inode, RenameOver(i, t)
      PROVE  \E es : Batch(es)
  <2>1. loc[t] \in (Inode \cup {Root}) \X Name
    BY <1>0, <1>7 DEF RenameOver, Removable, Attached, FsTypeOK
  <2>2. Attached(i) /\ loc[t][2] \in Name
    BY <1>7, <2>1 DEF RenameOver, Movable
  <2>3. ReportEnd(t) \in Seq(EventType) /\ Tame(ReportEnd(t), last_cookie + 1)
    BY <1>0, ReportEndType, ReportTame
  <2>4. /\ queue' = Enqueue(queue, ReportMove(i, loc[t][1], loc[t][2]) \o ReportEnd(t))
        /\ last_cookie' = last_cookie + 1
    BY <1>7 DEF RenameOver
  <2> QED
    BY <2>2, <2>3, <2>4, ReportMoveBatch
<1>8. ASSUME NEW d \in Inode, WriteFile(d)
      PROVE  \E es : Batch(es)
  <2> DEFINE create == Report(d, {"IN_CREATE"}, 0, "file")
             close == Report(d, {"IN_CLOSE_WRITE"}, 0, "file")
  <2>1. create \in Seq(EventType) /\ close \in Seq(EventType)
    BY <1>0, ReportType DEF Masks, EntryName
  <2>2. Tame(create, last_cookie) /\ Tame(close, last_cookie)
    BY <1>0, ReportTame
  <2>3. queue' = Enqueue(queue, create \o close) /\ last_cookie' = last_cookie
    BY <1>8 DEF WriteFile
  <2> HIDE DEF create, close
  <2> QED
    BY <1>0, <2>1, <2>2, <2>3, TameConcat, TameBatch
<1>9. ASSUME NEW d \in Inode, NEW e \in Inode, MoveFile(d, e)
      PROVE  \E es : Batch(es)
  <2>1. PICK from : from = Report(d, {"IN_MOVED_FROM"}, last_cookie + 1, "file")
    OBVIOUS
  <2>2. PICK to : to = Report(e, {"IN_MOVED_TO"}, last_cookie + 1, "file")
    OBVIOUS
  <2>3. "file" \in EntryName /\ {"IN_MOVED_FROM"} \in Masks /\ {"IN_MOVED_TO"} \in Masks
    BY DEF EntryName, Masks
  <2>4. from \in Seq(EventType) /\ to \in Seq(EventType)
    BY <1>0, <2>1, <2>2, <2>3, ReportType
  <2>5. Leading(from)
    BY <1>0, <2>1, <2>4 DEF Leading, Report, Event
  <2>6. Tame(to, last_cookie + 1)
    BY <1>0, <2>2, ReportTame
  <2>7. queue' = Enqueue(queue, from \o to) /\ last_cookie' = last_cookie + 1
    BY <1>9, <2>1, <2>2 DEF MoveFile
  <2> QED
    BY <2>4, <2>5, <2>6, <2>7, LeadingConcat, MoveBatch, Zenon
<1> QED
  BY <1>1, <1>2, <1>4, <1>5, <1>6, <1>7, <1>8, <1>9 DEF FsNext

\* So is every inotify_rm_watch, if it reports anything.
LEMMA RmWatchBatch ==
  ASSUME TypeInv, NEW wd \in Nat, InotifyRmWatch(wd), last_cookie' = last_cookie
  PROVE  queue' = queue \/ \E es : Batch(es)
<1>1. CASE queue' = queue
  BY <1>1
<1>2. CASE queue' = Enqueue(queue, <<Ignored(wd)>>)
  <2>1. <<Ignored(wd)>> \in Seq(EventType)
    BY IgnoredType
  <2>2. Tame(<<Ignored(wd)>>, last_cookie)
    BY ReportTame DEF TypeInv, TypeOK, FsTypeOK
  <2> QED
    BY <1>2, <2>1, <2>2, TameBatch
<1> QED
  BY <1>1, <1>2 DEF InotifyRmWatch

\* New events come after all there are.
LEMMA BatchKeeps ==
  ASSUME TypeInv, CookieInv, NEW es, Batch(es), UNCHANGED <<pc, buf, prev_cookie>>
  PROVE  CookieInv'
<1>1. /\ last_cookie \in Nat /\ last_cookie' \in Nat /\ prev_cookie \in Nat
      /\ queue \in Seq(EventType) /\ buf \in Seq(EventType)
      /\ queue' \in Seq(EventType)
  BY EnqueueType DEF TypeInv, TypeOK, FsTypeOK, Batch
<1>2. PICK l \in Nat, n \in Nat, b \in Nat : l = Len(queue) /\ n = Len(queue') /\ b = Len(buf)
  BY <1>1
<1>3. ASSUME NEW k \in 1 .. n
      PROVE  \/ k \in 1 .. l /\ queue'[k] = queue[k]
             \/ l < k /\ queue'[k].cookie = 0 /\ ~ IsMovedFrom(queue'[k])
             \/ /\ l < k /\ queue'[k].cookie <= last_cookie'
                /\ IsMovedFrom(queue'[k]) => k = l + 1 /\ last_cookie < queue'[k].cookie
  <2>1. es \in Seq(EventType) /\ queue' = Enqueue(queue, es)
    BY DEF Batch
  <2>2. \/ k \in 1 .. l /\ queue'[k] = queue[k]
        \/ l < k /\ queue'[k] = Overflow
        \/ k - l \in 1 .. Len(es) /\ queue'[k] = es[k - l]
    BY <1>1, <1>2, <2>1, EnqueuePlaces
  <2>3. Overflow.cookie = 0 /\ ~ IsMovedFrom(Overflow)
    BY DEF Overflow, Event, IsMovedFrom
  <2>4. CASE k - l \in 1 .. Len(es) /\ queue'[k] = es[k - l]
    <3>1. es[k - l].cookie <= last_cookie'
      BY <2>4 DEF Batch
    <3>2. IsMovedFrom(es[k - l]) => k - l = 1 /\ last_cookie < es[k - l].cookie
      BY <2>4 DEF Batch
    <3>3. l < k
      BY <2>1, <2>4
    <3> QED
      BY <2>4, <3>1, <3>2, <3>3
  <2> QED
    BY <2>2, <2>3, <2>4
<1>4. \A k \in 1 .. l : queue[k].cookie \in 0 .. last_cookie
  <2>1. \A k \in 1 .. l : queue[k] \in EventType
    BY <1>1, <1>2, ElementOfSeq
  <2> QED
    BY <1>1, <1>2, <2>1 DEF CookieInv, EventType
<1>5. \A k \in 1 .. b : buf[k].cookie \in 0 .. last_cookie
  <2>1. \A k \in 1 .. b : buf[k] \in EventType
    BY <1>1, <1>2, ElementOfSeq
  <2> QED
    BY <1>1, <1>2, <2>1 DEF CookieInv, EventType
<1>6. last_cookie <= last_cookie'
  BY DEF Batch
<1>7. prev_cookie' <= last_cookie' /\ \A k \in 1 .. b : buf'[k].cookie <= last_cookie'
  BY <1>1, <1>5, <1>6 DEF CookieInv
<1>8. ASSUME NEW k \in 1 .. n
      PROVE  queue'[k].cookie <= last_cookie'
  BY <1>1, <1>3, <1>4, <1>6
<1>9. ASSUME NEW k \in 1 .. n, IsMovedFrom(queue'[k])
      PROVE  /\ prev_cookie < queue'[k].cookie
             /\ \A m \in 1 .. b : buf[m].cookie < queue'[k].cookie
             /\ \A m \in 1 .. k - 1 : queue'[m].cookie < queue'[k].cookie
  <2>1. CASE k \in 1 .. l /\ queue'[k] = queue[k]
    <3>1. \A m \in 1 .. k - 1 : queue'[m] = queue[m]
      BY <1>2, <1>3, <2>1
    <3> QED
      BY <1>2, <1>9, <2>1, <3>1 DEF CookieInv
  <2>2. CASE k = l + 1 /\ last_cookie < queue'[k].cookie
    <3>1. PICK c : c = queue'[k].cookie
      OBVIOUS
    <3>2. c \in Nat
      <4>1. queue'[k] \in EventType
        BY <1>1, <1>2, ElementOfSeq
      <4> QED
        BY <3>1, <4>1 DEF EventType
    <3>3. \A m \in 1 .. k - 1 : queue'[m] = queue[m] /\ m \in 1 .. l
      BY <1>2, <1>3, <2>2
    <3>4. prev_cookie <= last_cookie /\ last_cookie < c
      BY <2>2, <3>1 DEF CookieInv
    <3>5. prev_cookie < c
      BY <1>1, <3>2, <3>4
    <3>6. ASSUME NEW m \in 1 .. b
          PROVE  buf[m].cookie < c
      <4>1. buf[m].cookie \in 0 .. last_cookie
        BY <1>5
      <4> QED
        BY <1>1, <3>2, <3>4, <4>1
    <3>7. ASSUME NEW m \in 1 .. k - 1
          PROVE  queue'[m].cookie < c
      <4>1. queue'[m].cookie \in 0 .. last_cookie
        BY <1>4, <3>3
      <4> QED
        BY <1>1, <3>2, <3>4, <4>1
    <3> QED
      BY <3>1, <3>5, <3>6, <3>7
  <2> QED
    BY <1>3, <1>9, <2>1, <2>2
<1>10. NoCookieError'
  BY DEF CookieInv, NoCookieError
<1> QED
  BY <1>2, <1>7, <1>8, <1>9, <1>10 DEF CookieInv

\* Steps of the program in the middle of an event, which remember its cookie or
\* none.
LEMMA CookieOfLocal ==
  ASSUME TypeInv, CookieInv, UNCHANGED <<queue, last_cookie, buf>>,
         pc' = pc \/ pc' \notin {"dispatch", "cookie_error"},
         \/ prev_cookie' = prev_cookie
         \/ buf # <<>> /\ prev_cookie' = Head(buf).cookie /\ pc' # "dispatch"
  PROVE  CookieInv'
<1>1. CASE prev_cookie' = prev_cookie
  BY <1>1 DEF CookieInv, NoCookieError
<1>2. CASE buf # <<>> /\ prev_cookie' = Head(buf).cookie /\ pc' # "dispatch"
  <2>1. Len(buf) \in Nat \ {0} /\ Head(buf) = buf[1]
    BY <1>2, EmptySeq DEF TypeInv, TypeOK
  <2>2. 1 \in 1 .. Len(buf) /\ \A n \in 1 .. Len(buf) : n > 1 => 1 \in 1 .. n - 1
    BY <2>1
  <2>3. prev_cookie' <= last_cookie
    BY <1>2, <2>1, <2>2 DEF CookieInv
  <2>4. \A n \in 1 .. Len(buf) : IsMovedFrom(buf[n]) /\ n > 1 => buf[1].cookie < buf[n].cookie
    BY <2>2 DEF CookieInv
  <2>5. \A n \in 1 .. Len(queue) : IsMovedFrom(queue[n]) => buf[1].cookie < queue[n].cookie
    BY <2>2 DEF CookieInv
  <2>6. NoCookieError'
    BY <1>2 DEF CookieInv, NoCookieError
  <2> QED
    BY <1>2, <2>1, <2>3, <2>4, <2>5, <2>6 DEF CookieInv
<1> QED
  BY <1>1, <1>2

\* The next event: the cookie of the one before may be remembered.
LEMMA CookieOfPop ==
  ASSUME TypeInv, CookieInv, buf # <<>>, NextEvent, UNCHANGED <<queue, last_cookie>>,
         prev_cookie' = prev_cookie \/ prev_cookie' = Head(buf).cookie
  PROVE  CookieInv'
<1>1. PICK b \in Nat \ {0} : b = Len(buf)
  BY EmptySeq DEF TypeInv, TypeOK
<1>2. /\ Len(buf') = b - 1 /\ Head(buf) = buf[1]
      /\ \A i \in 1 .. b - 1 : buf'[i] = buf[i + 1]
  BY <1>1, HeadTailProperties DEF TypeInv, TypeOK, NextEvent
<1>3. prev_cookie' <= last_cookie
  BY <1>1, <1>2 DEF CookieInv
<1>4. \A n \in 1 .. b - 1 : n + 1 \in 1 .. b /\ n + 1 > 1 /\ 1 \in 1 .. (n + 1) - 1
  BY <1>1
<1>5. ASSUME NEW n \in 1 .. b - 1
      PROVE  buf'[n].cookie <= last_cookie
  BY <1>1, <1>2, <1>4 DEF CookieInv
<1>6. ASSUME NEW n \in 1 .. b - 1, IsMovedFrom(buf'[n])
      PROVE  /\ prev_cookie' < buf'[n].cookie
             /\ \A m \in 1 .. n - 1 : buf'[m].cookie < buf'[n].cookie
  <2>1. IsMovedFrom(buf[n + 1]) /\ buf'[n] = buf[n + 1]
    BY <1>2, <1>6
  <2>2. /\ prev_cookie < buf[n + 1].cookie
        /\ \A m \in 1 .. (n + 1) - 1 : buf[m].cookie < buf[n + 1].cookie
    BY <1>1, <1>4, <2>1 DEF CookieInv
  <2>3. buf[1].cookie < buf[n + 1].cookie
    BY <1>4, <2>2
  <2>4. \A m \in 1 .. n - 1 : m + 1 \in 1 .. (n + 1) - 1 /\ buf'[m] = buf[m + 1]
    BY <1>2
  <2> QED
    BY <1>2, <2>1, <2>2, <2>3, <2>4
<1>7. ASSUME NEW n \in 1 .. Len(queue), IsMovedFrom(queue[n])
      PROVE  /\ prev_cookie' < queue[n].cookie
             /\ \A m \in 1 .. b - 1 : buf'[m].cookie < queue[n].cookie
  <2>1. /\ prev_cookie < queue[n].cookie
        /\ \A m \in 1 .. b : buf[m].cookie < queue[n].cookie
    BY <1>1, <1>7 DEF CookieInv
  <2> QED
    BY <1>1, <1>2, <1>4, <2>1
<1>8. NoCookieError'
  BY DEF NextEvent, NoCookieError
<1> QED
  BY <1>1, <1>2, <1>3, <1>5, <1>6, <1>7, <1>8 DEF CookieInv

\* A read takes the first events of the queue.
LEMMA CookieOfRead ==
  ASSUME TypeInv, CookieInv, ReadEvents
  PROVE  CookieInv'
<1>1. PICK l \in Nat \ {0} : l = Len(queue)
  BY EmptySeq DEF ReadEvents, TypeInv, TypeOK, FsTypeOK
<1>2. PICK n \in 1 .. l : n = IF l < BatchLimit THEN l ELSE BatchLimit
  <2>1. (IF l < BatchLimit THEN l ELSE BatchLimit) \in 1 .. l
    BY DirWatcherAssumption
  <2> QED
    BY <2>1
<1>3. /\ buf' = SubSeq(queue, 1, n) /\ queue' = SubSeq(queue, n + 1, l)
      /\ UNCHANGED <<last_cookie, prev_cookie>> /\ pc' = "dispatch"
  BY <1>1, <1>2 DEF ReadEvents
<1>4. \A i \in 1 .. l : queue[i] \in EventType
  BY <1>1, ElementOfSeq DEF TypeInv, TypeOK, FsTypeOK
<1>5. Len(buf') = n /\ \A i \in 1 .. n : buf'[i] = queue[i]
  BY <1>1, <1>3, <1>4, SubSeqProperties
<1>6. Len(queue') = l - n /\ \A i \in 1 .. l - n : queue'[i] = queue[n + i]
  BY <1>1, <1>3, <1>4, SubSeqProperties
<1>7. \A k \in 1 .. l : queue[k].cookie <= last_cookie
  BY <1>1 DEF CookieInv
<1>8. \A k \in 1 .. l : IsMovedFrom(queue[k]) =>
        /\ prev_cookie < queue[k].cookie
        /\ \A m \in 1 .. k - 1 : queue[m].cookie < queue[k].cookie
  BY <1>1 DEF CookieInv
<1>9. \A k \in 1 .. n : buf'[k].cookie <= last_cookie
  BY <1>5, <1>7
<1>10. \A k \in 1 .. l - n : queue'[k].cookie <= last_cookie /\ n + k \in 1 .. l
  BY <1>6, <1>7
<1>11. \A k \in 1 .. n : IsMovedFrom(buf'[k]) =>
         /\ prev_cookie < buf'[k].cookie
         /\ \A m \in 1 .. k - 1 : buf'[m].cookie < buf'[k].cookie
  BY <1>5, <1>8
<1>12. ASSUME NEW k \in 1 .. l - n, IsMovedFrom(queue'[k])
       PROVE  /\ prev_cookie < queue'[k].cookie
              /\ \A m \in 1 .. n : buf'[m].cookie < queue'[k].cookie
              /\ \A m \in 1 .. k - 1 : queue'[m].cookie < queue'[k].cookie
  <2>1. /\ prev_cookie < queue[n + k].cookie /\ queue'[k] = queue[n + k]
        /\ \A m \in 1 .. (n + k) - 1 : queue[m].cookie < queue[n + k].cookie
    BY <1>6, <1>8, <1>10, <1>12
  <2>2. \A m \in 1 .. n : m \in 1 .. (n + k) - 1
    OBVIOUS
  <2>3. \A m \in 1 .. k - 1 : n + m \in 1 .. (n + k) - 1 /\ queue'[m] = queue[n + m]
    BY <1>6
  <2> QED
    BY <1>5, <2>1, <2>2, <2>3
<1>13. prev_cookie <= last_cookie /\ NoCookieError'
  BY <1>3 DEF CookieInv, NoCookieError
<1> QED
  BY <1>3, <1>5, <1>6, <1>9, <1>10, <1>11, <1>12, <1>13 DEF CookieInv

\* IN_MOVED_FROM has a cookie the program has not met.
LEMMA CookieOfMovedFrom ==
  ASSUME TypeInv, CookieInv, NEW e, buf # <<>>, e = Head(buf), HandleMovedFrom(e)
  PROVE  CookieInv'
<1>1. Len(buf) \in Nat \ {0} /\ Head(buf) = buf[1] /\ pc = "dispatch"
  BY EmptySeq DEF TypeInv, TypeOK, HandleMovedFrom, Dispatch
<1>2. e.cookie # prev_cookie
  <2>1. IsMovedFrom(buf[1])
    BY <1>1 DEF HandleMovedFrom, IsMovedFrom
  <2>2. prev_cookie < buf[1].cookie
    BY <1>1, <2>1 DEF CookieInv
  <2>3. prev_cookie \in Nat
    BY DEF TypeInv, TypeOK
  <2> QED
    BY <1>1, <2>2, <2>3
<1>3. prev_cookie' = Head(buf).cookie /\ UNCHANGED <<queue, last_cookie>>
  BY <1>2 DEF HandleMovedFrom
<1>4. \/ NextEvent
      \/ buf' = buf /\ pc' \in {"hung", "prune"}
  BY <1>2 DEF HandleMovedFrom, FallThrough, Prune
<1>5. CASE NextEvent
  BY <1>3, <1>5, CookieOfPop
<1>6. CASE buf' = buf /\ pc' \in {"hung", "prune"}
  BY <1>3, <1>6, CookieOfLocal
<1> QED
  BY <1>4, <1>5, <1>6

\* Every step keeps the order of the cookies.
LEMMA CookieStep ==
  ASSUME TypeInv, CookieInv, [Next]_vars
  PROVE  CookieInv'
<1>1. ASSUME UNCHANGED <<queue, last_cookie, buf, prev_cookie>>,
             pc' = pc \/ pc' \notin {"dispatch", "cookie_error"}
      PROVE  CookieInv'
  BY <1>1, CookieOfLocal
<1>2. CASE AddWatchDeclined \/ ListSubDirs \/ StartupDone \/ Flush
  BY <1>1, <1>2 DEF AddWatchDeclined, ListSubDirs, StartupDone, Flush, fsVars
<1>3. CASE AddWatch \/ InsertAfterPrune
  BY <1>1, <1>3 DEF AddWatch, InsertAfterPrune, InotifyAddWatch, Insert, Prune, fsVars
<1>4. CASE PruneMovedDone \/ WatchNewDone
  <2>1. buf # <<>> /\ NextEvent /\ UNCHANGED <<queue, last_cookie, prev_cookie>>
    BY <1>4 DEF PruneMovedDone, WatchNewDone, FallThrough, Continue, TypeInv, ControlInv
  <2> QED
    BY <2>1, CookieOfPop
<1>5. CASE ReadEvents
  BY <1>5, CookieOfRead
<1>6. CASE RemovePruned
  <2>1. PICK wd \in doomed : InotifyRmWatch(wd)
    BY <1>6 DEF RemovePruned
  <2>2. UNCHANGED <<last_cookie, pc, buf, prev_cookie>> /\ wd \in Nat
    BY <1>6, <2>1 DEF RemovePruned, TypeInv, TypeOK
  <2>3. CASE queue' = queue
    BY <1>1, <2>2, <2>3
  <2>4. CASE \E es : Batch(es)
    BY <2>2, <2>4, BatchKeeps
  <2> QED
    BY <2>1, <2>2, <2>3, <2>4, RmWatchBatch
<1>7. CASE buf # <<>> /\ Handle(Head(buf))
  <2>1. PICK e : e = Head(buf) /\ Handle(e)
    BY <1>7
  <2>2. CASE HandleMovedFrom(e)
    BY <1>7, <2>1, <2>2, CookieOfMovedFrom
  <2>3. CASE HandleMovedTo(e)
    <3>1. prev_cookie' = Head(buf).cookie /\ UNCHANGED <<queue, last_cookie>>
      BY <2>1, <2>3 DEF HandleMovedTo
    <3>2. NextEvent \/ (buf' = buf /\ pc' = "add")
      BY <2>3 DEF HandleMovedTo, FallThrough
    <3> QED
      BY <1>7, <3>1, <3>2, CookieOfPop, CookieOfLocal
  <2>4. CASE HandleCreateDir(e) \/ HandleOverflow(e)
    BY <1>1, <2>4 DEF HandleCreateDir, HandleOverflow, fsVars
  <2>5. CASE HandleSkipped(e) \/ HandleIgnored(e) \/ HandleChange(e)
    <3>1. NextEvent /\ UNCHANGED <<queue, last_cookie, prev_cookie>>
      BY <2>5 DEF HandleSkipped, HandleIgnored, HandleChange, Continue, FallThrough
    <3> QED
      BY <1>7, <3>1, CookieOfPop
  <2> QED
    BY <2>1, <2>2, <2>3, <2>4, <2>5 DEF Handle
<1>8. CASE Environment
  <2>1. PICK es : Batch(es)
    BY <1>8, FsBatch DEF Environment
  <2> QED
    BY <1>8, <2>1, BatchKeeps DEF Environment
<1>9. CASE UNCHANGED vars
  BY <1>1, <1>9 DEF vars, fsVars
<1>10. CASE AddWatchFails \/ OpendirFails \/ RemovePrunedFails \/ ReadFails
  BY <1>1, <1>10 DEF AddWatchFails, OpendirFails, RemovePrunedFails, ReadFails, CallFailed, fsVars
<1> QED
  BY <1>2, <1>3, <1>4, <1>5, <1>6, <1>7, <1>8, <1>9, <1>10 DEF Next, Watcher

\* No IN_MOVED_FROM finds its own cookie remembered: exit(17) of
\* process_inotify_events is never reached, whatever the queue lost.
THEOREM CookiesDiffer == Spec => []NoCookieError
<1>1. Init => TypeInv /\ CookieInv
  BY InitType DEF Init, FsInit, CookieInv, NoCookieError
<1>2. TypeInv /\ CookieInv /\ [Next]_vars => (TypeInv /\ CookieInv)'
  BY StepType, CookieStep
<1>3. TypeInv /\ CookieInv => NoCookieError
  BY DEF CookieInv
<1> QED
  BY <1>1, <1>2, <1>3, PTL DEF Spec

\* All of the inductive invariant the run any_change checks.
THEOREM Invariant == Spec => []IInv
<1>1. Init => KeyInv /\ CookieInv
  BY DEF Init, FsInit, KeyInv, NoSqlFailure, CookieInv, NoCookieError
<1>2. TypeInv /\ KeyInv /\ CookieInv /\ [Next]_vars => (KeyInv /\ CookieInv)'
  BY KeyStep, CookieStep
<1>3. TypeInv /\ WatchInv /\ KeyInv /\ CookieInv => IInv
  BY DEF TypeInv, WatchInv, IInv
<1> QED
  BY <1>1, <1>2, <1>3, WatchAlways, PTL DEF Spec
=============================================================================
