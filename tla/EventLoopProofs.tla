--------------------------- MODULE EventLoopProofs ---------------------------
(***************************************************************************)
(* Theorems about EventLoop, for every value of its constants: the         *)
(* invariant IInv, what follows from it, and that the loop implements      *)
(* Notifier.                                                               *)
(***************************************************************************)
EXTENDS EventLoop, SequenceTheorems, TLAPS

-----------------------------------------------------------------------------
(***************************************************************************)
(* Types.                                                                  *)
(***************************************************************************)

\* The names of the action's parts that say what it leaves alone.
\* What is left of a batch is a batch.
LEMMA NextEventType ==
  ASSUME TypeOK, buf # <<>>, NextEvent
  PROVE  /\ buf' \in Seq(Dir) /\ queue' = queue
         /\ pc' \in {"process", "poll", "closing"}
         /\ pc' = "process" <=> buf' # <<>>
<1>1. /\ buf \in Seq(Dir) /\ Len(buf) \in Nat /\ Len(buf) # 0
  BY EmptySeq, LenProperties DEF TypeOK
<1>2. /\ Tail(buf) \in Seq(Dir) /\ Len(Tail(buf)) = Len(buf) - 1
  BY <1>1, HeadTailProperties
<1>3. Tail(buf) = <<>> <=> Len(buf) = 1
  <2>1. \A s \in Seq(Dir) : s = <<>> <=> Len(s) = 0
    BY EmptySeq
  <2>2. Tail(buf) = <<>> <=> Len(Tail(buf)) = 0
    BY <1>2, <2>1, Zenon
  <2> QED
    BY <1>1, <1>2, <2>2
<1> QED
  BY <1>2, <1>3 DEF NextEvent, LoopTest

\* A read splits the queue into a batch that is not empty and the rest.
LEMMA ReadBatchType ==
  ASSUME TypeOK, queue # <<>>, ReadBatch
  PROVE  /\ buf' \in Seq(Dir) /\ buf' # <<>> /\ queue' \in Seq(Dir)
         /\ pc' = "process"
<1> DEFINE n == IF Len(queue) < BatchLimit THEN Len(queue) ELSE BatchLimit
<1>1. /\ queue \in Seq(Dir) /\ Len(queue) \in Nat /\ Len(queue) # 0
  BY EmptySeq, LenProperties DEF TypeOK
<1>2. n \in 1 .. Len(queue)
  BY <1>1, EventLoopAssumption
<1>3. \A i \in 1 .. Len(queue) : queue[i] \in Dir
  BY <1>1, ElementOfSeq
<1> HIDE DEF n
<1>4. SubSeq(queue, 1, n) \in Seq(Dir) /\ Len(SubSeq(queue, 1, n)) = n
  BY <1>1, <1>2, <1>3, SubSeqProperties
<1>5. SubSeq(queue, n + 1, Len(queue)) \in Seq(Dir)
  BY <1>1, <1>2, <1>3, SubSeqProperties
<1>6. SubSeq(queue, 1, n) # <<>>
  BY <1>2, <1>4
<1> QED
  BY <1>4, <1>5, <1>6 DEF ReadBatch, n

\* The bound of an incarnation is a number.
LEMMA MaxFilesType ==
  ASSUME NEW n \in DOMAIN MaxFiles
  PROVE  MaxFiles[n] \in Nat /\ n \in 1 .. Len(MaxFiles) /\ Len(MaxFiles) \in Nat
BY EventLoopAssumption, LenProperties, ElementOfSeq

\* The initial states satisfy the invariant.
LEMMA InitInv == Init => IInv
<1> SUFFICES ASSUME Init PROVE IInv
  OBVIOUS
<1>1. life \in DOMAIN MaxFiles /\ 0 \in 0 .. MaxFiles[life]
  <2>1. MaxFiles \in Seq(Nat) /\ Len(MaxFiles) \in Nat /\ Len(MaxFiles) # 0
    BY EventLoopAssumption, EmptySeq, LenProperties
  <2>2. 1 \in 1 .. Len(MaxFiles) /\ DOMAIN MaxFiles = 1 .. Len(MaxFiles)
    BY <2>1, LenProperties
  <2>3. MaxFiles[1] \in Nat
    BY <2>1, <2>2, ElementOfSeq
  <2> QED
    BY <2>2, <2>3 DEF Init
<1>2. DOMAIN files = {}
  BY DEF Init
<1>3. TypeOK
  BY <1>1, <1>2, EmptySeq DEF Init, TypeOK, Pcs, Running
<1>4. FlushInv /\ AlarmInv /\ PollInv /\ FilesInv /\ PollExitExplained
  BY <1>2 DEF Init, FlushInv, AlarmInv, PollInv, FilesInv, PollExitExplained, Running
<1> QED
  BY <1>3, <1>4 DEF IInv

-----------------------------------------------------------------------------
(***************************************************************************)
(* Steps.                                                                  *)
(***************************************************************************)

\* The end of the process, whatever ends it.
LEMMA ExitInv ==
  ASSUME IInv, Running, NEW code \in {"normal", "killed", "open", "write", "rename", "poll"},
         code = "poll" => poll_result \in {"EINTR", "error"} /\ errno # "EINTR",
         Exit(code)
  PROVE  IInv'
<1> USE DEF IInv, Exit, Running
<1>1. /\ <<>> \in Seq(Dir) /\ 0 \in 0 .. MaxFiles[life]
  BY EmptySeq, MaxFilesType DEF TypeOK
<1>2. TypeOK'
  BY <1>1 DEF TypeOK, Pcs
<1>3. FlushInv' /\ FilesInv'
  BY DEF FlushInv, FilesInv, AtBound
<1>4. AlarmInv' /\ PollInv' /\ PollExitExplained'
  BY DEF AlarmInv, PollInv, PollExitExplained
<1> QED
  BY <1>2, <1>3, <1>4

\* Steps of the loop that neither read nor write a file.
LEMMA LoopInv ==
  ASSUME IInv, Startup \/ Poll \/ TestFlags \/ ResetFlag \/ PollInterrupted \/ NothingToRead
  PROVE  IInv'
<1> USE DEF IInv, Startup, Poll, TestFlags, ResetFlag, PollInterrupted, NothingToRead,
            LoopTest, flags, flushVars, disk, Running
<1>1. TypeOK'
  <2>1. CASE Startup \/ PollInterrupted \/ NothingToRead
    BY <2>1 DEF TypeOK, Pcs
  <2>2. CASE Poll
    BY <2>2 DEF TypeOK, Pcs
  <2>3. CASE TestFlags
    <3>1. alive' \in BOOLEAN
      BY <2>3, Zenon
    <3> QED
      BY <2>3, <3>1 DEF TypeOK, Pcs
  <2>4. CASE ResetFlag
    BY <2>4 DEF TypeOK, Pcs
  <2> QED
    BY <2>1, <2>2, <2>3, <2>4
<1>2. FlushInv'
  BY DEF FlushInv, TypeOK, AnyLine, AtBound
<1>3. AlarmInv' /\ PollInv'
  BY DEF AlarmInv, PollInv, Detected
<1>4. FilesInv'
  BY DEF FilesInv
<1>5. PollExitExplained'
  BY DEF TypeOK, PollExitExplained
<1> QED
  BY <1>1, <1>2, <1>3, <1>4, <1>5

\* One read begins a batch.
LEMMA ReadInv ==
  ASSUME IInv, ReadEvents
  PROVE  IInv'
<1> USE DEF IInv, ReadEvents, flags, flushVars, disk, Running
<1>1. /\ buf' \in Seq(Dir) /\ buf' # <<>> /\ queue' \in Seq(Dir) /\ pc' = "process"
  BY ReadBatchType DEF PollInv, TypeOK
<1>2. TypeOK'
  BY <1>1 DEF TypeOK, Pcs
<1>3. FlushInv' /\ AlarmInv' /\ PollInv' /\ FilesInv' /\ PollExitExplained'
  BY <1>1 DEF TypeOK, FlushInv, AlarmInv, PollInv, FilesInv, PollExitExplained, Detected
<1> QED
  BY <1>2, <1>3

\* An event that needs no flush.
LEMMA AddInv ==
  ASSUME IInv, AddToCache
  PROVE  IInv'
<1> USE DEF IInv, AddToCache, flags, flushVars, disk, Running
<1>1. buf # <<>> /\ Head(buf) \in Dir
  BY EmptySeq, HeadTailProperties DEF TypeOK
<1>2. /\ buf' \in Seq(Dir) /\ queue' = queue
      /\ pc' \in {"process", "poll", "closing"}
      /\ pc' = "process" <=> buf' # <<>>
  BY <1>1, NextEventType
<1>3. TypeOK'
  BY <1>1, <1>2 DEF TypeOK, Pcs
<1>4. FlushInv' /\ AlarmInv' /\ PollInv' /\ FilesInv' /\ PollExitExplained'
  BY <1>2 DEF TypeOK, FlushInv, AlarmInv, PollInv, FilesInv, PollExitExplained, Detected
<1> QED
  BY <1>3, <1>4

\* An event the cache has no room for.
LEMMA RoomInv ==
  ASSUME IInv, FlushForRoom
  PROVE  IInv'
<1> USE DEF IInv, FlushForRoom, flags, disk, Running
<1>1. buf # <<>> /\ Head(buf) \in Dir
  BY EmptySeq, HeadTailProperties DEF TypeOK
<1>2. TypeOK'
  BY <1>1, NullIsNoDirectory DEF TypeOK, Pcs
<1>3. FlushInv' /\ AlarmInv' /\ PollInv' /\ FilesInv' /\ PollExitExplained'
  BY <1>1, NullIsNoDirectory DEF TypeOK, FlushInv, AlarmInv, PollInv, FilesInv, PollExitExplained, Detected
<1> QED
  BY <1>2, <1>3

\* The return of a flush, wherever it was called.
LEMMA FlushReturnsType ==
  ASSUME TypeOK, pc \in {"flush", "rename"}, FlushReturns
  PROVE  /\ buf' \in Seq(Dir) /\ queue' = queue
         /\ pc' \in {"switch", "process", "poll", "closing"}
         /\ pc' = "process" <=> buf' # <<>>
         /\ pc' = "switch" => parent_dir_p = NULL
<1>1. CASE parent_dir_p = NULL
  BY <1>1 DEF FlushReturns, TypeOK
<1>2. CASE parent_dir_p # NULL
  BY <1>2, NextEventType DEF FlushReturns, TypeOK
<1> QED
  BY <1>1, <1>2

\* The steps of a flush before its file has its name.
LEMMA WriteInv ==
  ASSUME IInv, NothingToFlush \/ OpenTemp \/ WriteLines \/ CloseTemp
  PROVE  IInv'
<1> USE DEF IInv, flags, flushVars, disk, Running
<1>1. CASE NothingToFlush
  <2>1. parent_dir_p = NULL /\ cache = {}
    BY <1>1 DEF NothingToFlush, AnyLine
  <2>2. buf' = <<>> /\ queue' = queue /\ pc' = "switch" /\ buf = <<>>
    BY <1>1, <2>1 DEF NothingToFlush, FlushReturns, TypeOK
  <2>3. TypeOK'
    BY <1>1, <2>1, <2>2 DEF NothingToFlush, TypeOK, Pcs
  <2>4. FlushInv' /\ AlarmInv' /\ PollInv' /\ FilesInv' /\ PollExitExplained'
    BY <1>1, <2>1, <2>2 DEF NothingToFlush, TypeOK, FlushInv, AlarmInv, PollInv, FilesInv,
                            PollExitExplained, Detected
  <2> QED
    BY <2>3, <2>4
<1>2. CASE OpenTemp
  <2>1. TypeOK'
    BY <1>2 DEF OpenTemp, Truncated, TypeOK, Pcs
  <2>2. FlushInv' /\ AlarmInv' /\ PollInv' /\ FilesInv' /\ PollExitExplained'
    BY <1>2 DEF OpenTemp, Truncated, TypeOK, FlushInv, AlarmInv, PollInv, FilesInv,
                PollExitExplained, Detected, AnyLine, AtBound
  <2> QED
    BY <2>1, <2>2
<1>3. CASE WriteLines
  <2>1. TypeOK'
    BY <1>3 DEF WriteLines, TypeOK, Pcs
  <2>2. FlushInv' /\ AlarmInv' /\ PollInv' /\ FilesInv' /\ PollExitExplained'
    BY <1>3 DEF WriteLines, TypeOK, FlushInv, AlarmInv, PollInv, FilesInv,
                PollExitExplained, Detected, AnyLine, AtBound
  <2> QED
    BY <2>1, <2>2
<1>4. CASE CloseTemp
  <2>1. TypeOK'
    BY <1>4 DEF CloseTemp, TypeOK, Pcs
  <2>2. FlushInv' /\ AlarmInv' /\ PollInv' /\ FilesInv' /\ PollExitExplained'
    BY <1>4 DEF CloseTemp, TypeOK, FlushInv, AlarmInv, PollInv, FilesInv,
                PollExitExplained, Detected, AtBound
  <2> QED
    BY <2>1, <2>2
<1> QED
  BY <1>1, <1>2, <1>3, <1>4

\* A notification file gets its name.
LEMMA RenameInv ==
  ASSUME IInv, RenameTemp
  PROVE  IInv'
<1> USE DEF IInv, RenameTemp, flags, Running
<1>1. /\ buf' \in Seq(Dir) /\ queue' = queue
      /\ pc' \in {"switch", "process", "poll", "closing"}
      /\ pc' = "process" <=> buf' # <<>>
      /\ pc' = "switch" => parent_dir_p = NULL
  BY FlushReturnsType
<1>2. /\ notification_count' = notification_count + 1
      /\ notification_count' \in 0 .. MaxFiles[life] /\ life \in 1 .. Len(MaxFiles)
  BY MaxFilesType DEF NextCount, TypeOK, FlushInv, AtBound
<1>3. /\ DOMAIN files' = DOMAIN files \cup {notification_count'}
      /\ \A n \in DOMAIN files' :
           files'[n] = IF n = notification_count'
                         THEN [paths |-> temp, life |-> life, torn |-> torn]
                         ELSE files[n]
  BY DEF Abstract!Put, Abstract!File
<1>4. \A n \in DOMAIN files' : files'[n].paths \subseteq Dir /\ files'[n].life \in 1 .. life
  BY <1>2, <1>3 DEF TypeOK, FilesInv
<1>5. TypeOK'
  BY <1>1, <1>2, <1>4 DEF TypeOK, Pcs
<1>6. FlushInv' /\ AlarmInv' /\ PollInv' /\ PollExitExplained'
  BY <1>1 DEF TypeOK, FlushInv, AlarmInv, PollInv, PollExitExplained, Detected
<1>7. FilesInv'
  BY <1>1, <1>2, <1>3, <1>4 DEF FilesInv, TypeOK
<1> QED
  BY <1>5, <1>6, <1>7

\* What happens to the program from outside, but for its end.
LEMMA EnvironmentInv ==
  ASSUME IInv,
         \/ SigAlrm \/ SigTerm \/ ParentDies \/ Restart
         \/ \E d \in Dir : EventHappens(d)
         \/ \E n \in DOMAIN files : Consume(n)
  PROVE  IInv'
<1> USE DEF IInv, progVars, flags, flushVars, disk, Running
<1>1. CASE SigAlrm \/ SigTerm
  <2>1. TypeOK'
    BY <1>1 DEF SigAlrm, SigTerm, Interrupts, TypeOK, Pcs, Detected
  <2>2. FlushInv' /\ AlarmInv' /\ PollInv'
    BY <1>1 DEF SigAlrm, SigTerm, Interrupts, FlushInv, AlarmInv, PollInv, Detected, AnyLine, AtBound
  <2>3. FilesInv' /\ PollExitExplained'
    BY <1>1 DEF SigAlrm, SigTerm, Interrupts, TypeOK, FilesInv, PollExitExplained
  <2> QED
    BY <2>1, <2>2, <2>3
<1>2. CASE ParentDies
  <2>1. parent_alive' \in BOOLEAN /\ UNCHANGED <<progVars, queue, files, life, due>>
    BY <1>2 DEF ParentDies
  <2>2. TypeOK'
    BY <2>1 DEF TypeOK
  <2>3. FlushInv' /\ AlarmInv' /\ PollInv' /\ FilesInv' /\ PollExitExplained'
    BY <2>1 DEF FlushInv, AlarmInv, PollInv, FilesInv, PollExitExplained,
                Detected, AnyLine, AtBound
  <2> QED
    BY <2>2, <2>3
<1>3. CASE Restart
  <2>1. life' \in DOMAIN MaxFiles /\ 0 \in 0 .. MaxFiles[life'] /\ 1 .. life \subseteq 1 .. life'
    BY <1>3, MaxFilesType, EventLoopAssumption, LenProperties DEF Restart, TypeOK
  <2>2. TypeOK'
    BY <1>3, <2>1 DEF Restart, TypeOK, Pcs, FilesInv
  <2>3. FlushInv' /\ AlarmInv' /\ PollInv' /\ FilesInv' /\ PollExitExplained'
    BY <1>3, <2>1, MaxFilesType DEF Restart, TypeOK, FlushInv, AlarmInv, PollInv, FilesInv,
                                    PollExitExplained, Detected
  <2> QED
    BY <2>2, <2>3
<1>4. ASSUME NEW d \in Dir, EventHappens(d)
      PROVE  IInv'
  <2>1. queue' \in Seq(Dir)
    BY <1>4, AppendProperties DEF EventHappens, TypeOK
  <2> QED
    BY <1>4, <2>1 DEF EventHappens, TypeOK, FlushInv, AlarmInv, PollInv, FilesInv,
                      PollExitExplained, Detected, AnyLine, AtBound
<1>5. ASSUME NEW n \in DOMAIN files, Consume(n)
      PROVE  IInv'
  <2>1. \A m \in DOMAIN files' : m \in DOMAIN files /\ files'[m] = files[m]
    BY <1>5 DEF Consume, Abstract!Remove
  <2> QED
    BY <1>5, <2>1 DEF Consume, TypeOK, FlushInv, AlarmInv, PollInv, FilesInv,
                      PollExitExplained, Detected, AnyLine, AtBound
<1> QED
  BY <1>1, <1>2, <1>3, <1>4, <1>5

\* Every step keeps the invariant.
LEMMA StepInv ==
  ASSUME IInv, [Next]_vars
  PROVE  IInv'
<1>1. CASE Startup \/ Poll \/ TestFlags \/ ResetFlag \/ PollInterrupted \/ NothingToRead
  BY <1>1, LoopInv
<1>2. CASE NothingToFlush \/ OpenTemp \/ WriteLines \/ CloseTemp
  BY <1>2, WriteInv
<1>3. CASE ReadEvents
  BY <1>3, ReadInv
<1>4. CASE AddToCache
  BY <1>4, AddInv
<1>5. CASE FlushForRoom
  BY <1>5, RoomInv
<1>6. CASE RenameTemp
  BY <1>6, RenameInv
<1>7. CASE PollFailed \/ OpenFails \/ WriteFails \/ RenameFails \/ Closing \/ Kill
  BY <1>7, ExitInv DEF PollFailed, OpenFails, WriteFails, RenameFails, Closing, Kill, Running
<1>8. CASE \/ SigAlrm \/ SigTerm \/ ParentDies \/ Restart
           \/ \E d \in Dir : EventHappens(d)
           \/ \E n \in DOMAIN files : Consume(n)
  BY <1>8, EnvironmentInv
<1>9. CASE UNCHANGED vars
  BY <1>9 DEF vars, progVars, IInv, TypeOK, FlushInv, AlarmInv, PollInv, FilesInv,
              PollExitExplained, Running, Detected, AnyLine, AtBound
<1> QED
  BY <1>1, <1>2, <1>3, <1>4, <1>5, <1>6, <1>7, <1>8, <1>9 DEF Next, Program, Environment

\* IInv always holds: where the program is in main, process_inotify_events and
\* flush_hash_cache tells where everything it has detected is.
THEOREM Invariant == Spec => []IInv
BY InitInv, StepInv, PTL DEF Spec

-----------------------------------------------------------------------------
(***************************************************************************)
(* What the invariant says of every execution.                             *)
(***************************************************************************)

\* The program is where its flags, its files and what it has detected say it
\* is: the types, the locals at each pc, and the conditions between a flush,
\* an alarm and the numbers of the files that they are proved from.
THEOREM TypeCorrect == Spec => []TypeOK
<1>1. IInv => TypeOK
  BY DEF IInv
<1> QED
  BY <1>1, Invariant, PTL

\* No SIGALRM is lost on its way to a notification file.
THEOREM AlarmsKept == Spec => []DueFlushed
<1>1. IInv => DueFlushed
  BY DEF IInv, AlarmInv, DueFlushed
<1> QED
  BY <1>1, Invariant, PTL

\* exit(24) has no cause but a poll that failed, or a full disk.
THEOREM PollExits == Spec => []PollExitExplained
<1>1. IInv => PollExitExplained
  BY DEF IInv
<1> QED
  BY <1>1, Invariant, PTL

\* No incarnation of the program replaces a file of its own.
THEOREM FilesKept == Spec => UnreadKept
<1>1. ASSUME IInv, [Next]_vars,
             NEW n \in DOMAIN files \cap DOMAIN files', files'[n] # files[n]
      PROVE  files[n].life < life
  <2>1. RenameTemp
    <3>1. ASSUME NEW m \in DOMAIN files, Consume(m)
          PROVE  FALSE
      BY <1>1, <3>1 DEF Consume, Abstract!Remove
    <3>2. files' # files
      BY <1>1
    <3> QED
      BY <1>1, <3>1, <3>2 DEF Next, Program, Environment, vars, progVars, disk, Exit,
        Startup, Poll, TestFlags, ResetFlag, PollFailed, PollInterrupted, NothingToRead,
        ReadEvents, AddToCache, FlushForRoom, NothingToFlush, OpenTemp, OpenFails,
        WriteLines, WriteFails, CloseTemp, RenameFails, Closing, SigAlrm, SigTerm,
        ParentDies, Kill, Restart, EventHappens
  <2>2. n = notification_count + 1
    BY <1>1, <2>1 DEF RenameTemp, NextCount, Abstract!Put
  <2>3. Running /\ n \in Nat /\ notification_count \in Nat /\ files[n].life \in 1 .. life
    BY <1>1, <2>1 DEF RenameTemp, Running, IInv, TypeOK, FilesInv
  <2>4. life \in Nat
    BY <1>1, MaxFilesType DEF IInv, TypeOK
  <2> QED
    BY <1>1, <2>2, <2>3, <2>4 DEF IInv, FilesInv
<1>2. IInv /\ [Next]_vars =>
        [\A n \in DOMAIN files \cap DOMAIN files' :
           files'[n] # files[n] => files[n].life < life]_vars
  BY <1>1
<1> QED
  BY <1>2, Invariant, PTL DEF Spec, UnreadKept

-----------------------------------------------------------------------------
(***************************************************************************)
(* EventLoop implements Notifier: what is detected is what is in the       *)
(* cache, in the flush's argument or in the stream's buffer.               *)
(***************************************************************************)

\* The end of the process is Stop.
LEMMA ExitStops ==
  ASSUME NEW code, Exit(code)
  PROVE  Abstract!Stop
BY DEF Exit, Abstract!Stop, Detected

\* An event is detected when it is done: it goes to the cache or, when that
\* one is full, to a flush.
LEMMA EventDetected ==
  ASSUME IInv, AddToCache \/ FlushForRoom
  PROVE  \E d \in Dir : Abstract!Detect(d)
<1>1. Head(buf) \in Dir /\ Head(buf) # NULL
  BY EmptySeq, HeadTailProperties, NullIsNoDirectory
     DEF IInv, TypeOK, AddToCache, FlushForRoom
<1>2. parent_dir_p = NULL
  BY DEF IInv, TypeOK, AddToCache, FlushForRoom
<1>3. Abstract!Detect(Head(buf))
  BY <1>1, <1>2 DEF AddToCache, FlushForRoom, flushVars, disk, Abstract!Detect, Detected
<1> QED
  BY <1>1, <1>3

\* The rename publishes all of it.
LEMMA RenamePublishes ==
  ASSUME IInv, RenameTemp
  PROVE  \E n \in DOMAIN files' : Abstract!Publish(n, files'[n])
<1> DEFINE n == notification_count'
           f == [paths |-> temp, life |-> life, torn |-> torn]
<1>1. files' = Abstract!Put(files, n, f) /\ n = notification_count + 1
  BY DEF RenameTemp, NextCount, Abstract!File
<1>2. n \in DOMAIN files' /\ files'[n] = f
  BY <1>1 DEF Abstract!Put
<1>3. Detected # {} /\ lines = Detected /\ Detected' = {}
  BY DEF RenameTemp, IInv, FlushInv, Detected
<1>4. IF f.torn THEN f.paths \subseteq Detected ELSE f.paths = Detected
  BY <1>3 DEF RenameTemp, IInv, FlushInv
<1>5. n \in DOMAIN files => files[n].life # life
  <2>1. Running /\ notification_count \in Nat
    BY DEF RenameTemp, Running, IInv, TypeOK
  <2> QED
    BY <1>1, <2>1 DEF IInv, FilesInv
<1>6. life' = life
  BY DEF RenameTemp
<1>7. Abstract!Publish(n, files'[n])
  BY <1>1, <1>2, <1>3, <1>4, <1>5, <1>6 DEF Abstract!Publish
<1> QED
  BY <1>2, <1>7

\* The other steps of the program change nothing the Monitor can know of.
LEMMA LoopStutters ==
  ASSUME IInv,
         \/ Startup \/ Poll \/ TestFlags \/ ResetFlag \/ PollInterrupted \/ NothingToRead
         \/ ReadEvents \/ NothingToFlush \/ OpenTemp \/ WriteLines \/ CloseTemp
         \/ SigAlrm \/ SigTerm \/ ParentDies
         \/ \E d \in Dir : EventHappens(d)
  PROVE  UNCHANGED <<Detected, files, life>>
<1>1. CASE WriteLines
  BY <1>1 DEF WriteLines, IInv, TypeOK, Detected, disk
<1>2. CASE \/ Startup \/ Poll \/ TestFlags \/ ResetFlag \/ PollInterrupted \/ NothingToRead
           \/ ReadEvents \/ NothingToFlush \/ OpenTemp \/ CloseTemp
  BY <1>2 DEF Startup, Poll, TestFlags, ResetFlag, PollInterrupted, NothingToRead,
              ReadEvents, NothingToFlush, OpenTemp, CloseTemp, flushVars, disk, Detected
<1>3. CASE \/ SigAlrm \/ SigTerm \/ ParentDies
           \/ \E d \in Dir : EventHappens(d)
  BY <1>3 DEF SigAlrm, SigTerm, ParentDies, EventHappens, progVars, flushVars, disk, Detected
<1> QED
  BY <1>1, <1>2, <1>3

\* Every step of the program is a step of Notifier, or none.
LEMMA StepImplements ==
  ASSUME IInv, [Next]_vars
  PROVE  [Abstract!Next]_<<Detected, files, life>>
<1>1. CASE \/ Startup \/ Poll \/ TestFlags \/ ResetFlag \/ PollInterrupted \/ NothingToRead
           \/ ReadEvents \/ NothingToFlush \/ OpenTemp \/ WriteLines \/ CloseTemp
           \/ SigAlrm \/ SigTerm \/ ParentDies
           \/ \E d \in Dir : EventHappens(d)
  BY <1>1, LoopStutters
<1>2. CASE AddToCache \/ FlushForRoom
  BY <1>2, EventDetected DEF Abstract!Next
<1>3. CASE RenameTemp
  BY <1>3, RenamePublishes DEF Abstract!Next
<1>4. CASE PollFailed \/ OpenFails \/ WriteFails \/ RenameFails \/ Closing \/ Kill
  BY <1>4, ExitStops
     DEF PollFailed, OpenFails, WriteFails, RenameFails, Closing, Kill, Abstract!Next
<1>5. CASE Restart
  <2>1. Detected = {} /\ Detected' = Detected
    BY <1>5 DEF Restart, IInv, TypeOK, FilesInv, Running, flushVars, Detected
  <2>2. Abstract!Restart
    BY <1>5, <2>1 DEF Restart, Abstract!Restart
  <2> QED
    BY <2>2 DEF Abstract!Next
<1>6. ASSUME NEW n \in DOMAIN files, Consume(n)
      PROVE  Abstract!Next
  <2>1. Abstract!Consume(n)
    BY <1>6 DEF Consume, Abstract!Consume, progVars, Detected
  <2> QED
    BY <2>1 DEF Abstract!Next
<1>7. CASE UNCHANGED vars
  BY <1>7 DEF vars, progVars, Detected
<1> QED
  BY <1>1, <1>2, <1>3, <1>4, <1>5, <1>6, <1>7 DEF Next, Program, Environment

\* Every notification file names, when it gets its name, all that was
\* detected until its flush and nothing else, but for a full disk; no file the
\* Monitor has not read is replaced by one of the same incarnation; and
\* nothing else makes the program forget a directory but its own end.
THEOREM ImplementsNotifier == Spec => NotifierSpec
<1>1. Init => Abstract!Init
  BY DEF Init, Abstract!Init, Detected
<1>2. IInv /\ [Next]_vars => [Abstract!Next]_<<Detected, files, life>>
  BY StepImplements
<1> QED
  BY <1>1, <1>2, Invariant, PTL DEF Spec, NotifierSpec, Abstract!Spec
=============================================================================
