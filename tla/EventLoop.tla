------------------------------ MODULE EventLoop ------------------------------
(***************************************************************************)
(* main() of main.c from the installation of its signal handlers to its    *)
(* exit: poll, the parent's pid, the flush that SIGALRM asks for, one      *)
(* batch of events, and the notification file of each flush with its       *)
(* temporary file, its number and its rename.                              *)
(*                                                                         *)
(* A signal, the death of the parent, an event and a kill fall between any *)
(* two steps; a step is what the program does between two points where one *)
(* of them can be noticed or something outside of it changes.  What an     *)
(* event does to the watches is the matter of DirWatcher: here it is a     *)
(* directory to report.  The hash cache is a set that refuses (PathCache). *)
(***************************************************************************)
EXTENDS Naturals, Sequences, FiniteSets

CONSTANTS
  Dir,          \* directories in which something happens
  HashSize,     \* HASH_TABLE_SIZE
  BatchLimit,   \* events one read takes
  QueueLimit,   \* bound: events in the kernel's queue
  MaxFiles,     \* bound: notification files of each incarnation
  Faults        \* what may fail: see FaultKinds

FaultKinds == {"open", "disk", "rename", "poll"}

ASSUME EventLoopAssumption ==
  /\ HashSize \in Nat \ {0} /\ BatchLimit \in Nat \ {0}
  /\ QueueLimit \in Nat /\ MaxFiles \in Seq(Nat) \ {<<>>}
  /\ Faults \subseteq FaultKinds

NULL == "NULL"
ASSUME NullIsNoDirectory == NULL \notin Dir

VARIABLES
  pc,                  \* what the process does next
  alive, flush_now,    \* the flags of the signal handlers
  poll_result,         \* what the last poll returned
  errno,               \* what a call that failed since poll left in errno
  exit_code,           \* what the program ended with
  buf,                 \* events read and not yet done
  cache,               \* the hash cache
  parent_dir_p,        \* argument of the flush in progress
  lines,               \* what this flush has given to fprintf
  temp,                \* the temporary file, as it is on the disk
  torn,                \* whether this flush's fclose failed (history)
  notification_count,
  parent_alive,        \* the process whose pid main() was given
  queue,               \* the kernel's event queue
  files,               \* the notification directory: number -> file
  life,                \* incarnation of the program (history)
  due                  \* detected before the last SIGALRM (history)

progVars == <<pc, alive, flush_now, poll_result, errno, exit_code, buf, cache,
              parent_dir_p, lines, temp, torn, notification_count>>

vars == <<progVars, parent_alive, queue, files, life, due>>

-----------------------------------------------------------------------------
Running == pc # "exited"

\* Everything detected that no notification file names yet.
Detected == cache \cup lines \cup ({parent_dir_p} \ {NULL})

Abstract == INSTANCE Notifier WITH detected <- Detected

Init ==
  /\ pc = "start"
  /\ alive = TRUE /\ flush_now = FALSE
  /\ poll_result = "none" /\ errno = "none" /\ exit_code = "none"
  /\ buf = <<>> /\ queue = <<>> /\ cache = {}
  /\ parent_dir_p = NULL /\ lines = {} /\ temp = {} /\ torn = FALSE
  /\ notification_count = 0
  /\ files = [n \in {} |-> Abstract!File({}, 0, FALSE)]
  /\ parent_alive = TRUE /\ life = 1 /\ due = {}

\* The end of the process, by exit(code), by a signal or by main's return.
\* Its memory is gone (as in Init), and its inotify queue with it.
Exit(code) ==
  /\ pc' = "exited"
  /\ exit_code' = code
  /\ alive' = TRUE /\ flush_now' = FALSE
  /\ buf' = <<>> /\ queue' = <<>> /\ cache' = {}
  /\ parent_dir_p' = NULL /\ lines' = {} /\ torn' = FALSE
  /\ notification_count' = 0 /\ due' = {}
  /\ UNCHANGED <<poll_result, errno, temp, files, life, parent_alive>>

\* while (alive)
LoopTest == pc' = IF alive THEN "poll" ELSE "closing"

\* Everything the one before it leaves alone, named for the UNCHANGED below.
flags == <<alive, flush_now, parent_alive>>
flushVars == <<parent_dir_p, lines, temp, torn>>
disk == <<files, notification_count, life>>

-----------------------------------------------------------------------------
(***************************************************************************)
(* The loop.                                                               *)
(***************************************************************************)
\* From signal() to the loop: hash cache, table, inotify_init, the two files
\* and the initial watches (ConfigLoad, DirWatcher).  None of it looks at the
\* flags.
Startup ==
  /\ pc = "start"
  /\ LoopTest
  /\ UNCHANGED <<flags, flushVars, disk, poll_result, errno, exit_code, buf,
                 cache, queue, due>>

\* Mutation: only an alarm that interrupts poll counts.
Poll_ResetFlag ==
  /\ pc = "poll"
  /\ poll_result' = IF queue # <<>> THEN "events" ELSE "timeout"
  /\ errno' = "none"
  /\ flush_now' = FALSE
  /\ pc' = "polled"
  /\ UNCHANGED <<alive, parent_alive, flushVars, disk, exit_code, buf, cache,
                 queue, due>>

\* poll returns with events if there are any, else after a second.  (For
\* EINTR see Interrupts.)
Poll ==
  /\ pc = "poll"
  /\ \/ /\ poll_result' = IF queue # <<>> THEN "events" ELSE "timeout"
        /\ errno' = "none"
     \/ /\ "poll" \in Faults
        /\ poll_result' = "error" /\ errno' = "ENOMEM"
  /\ pc' = "polled"
  /\ UNCHANGED <<flags, flushVars, disk, exit_code, buf, cache, queue, due>>

\* Mutation: the parent is looked for only when nothing else is to be done.
TestFlags_OnTimeout ==
  /\ pc = "polled"
  /\ alive' = IF poll_result = "timeout" THEN alive /\ parent_alive ELSE alive
  /\ pc' = IF flush_now THEN "reset" ELSE "switch"
  /\ UNCHANGED <<flush_now, parent_alive, flushVars, disk, poll_result, errno,
                 exit_code, buf, cache, queue, due>>

\* if (parent_pid != getppid()) alive = 0;  if(flush_now) ...
TestFlags ==
  /\ pc = "polled"
  /\ alive' = (alive /\ parent_alive)
  /\ pc' = IF flush_now THEN "reset" ELSE "switch"
  /\ UNCHANGED <<flush_now, parent_alive, flushVars, disk, poll_result, errno,
                 exit_code, buf, cache, queue, due>>

\* flush_now = 0.  A SIGALRM between the test and this is forgotten.
ResetFlag ==
  /\ pc = "reset"
  /\ flush_now' = FALSE
  /\ pc' = "flush"
  /\ UNCHANGED <<alive, parent_alive, flushVars, disk, poll_result, errno,
                 exit_code, buf, cache, queue, due>>

\* Mutation: a poll that a signal interrupted ends the program too.
PollFailed_AnyErrno ==
  /\ pc = "switch" /\ poll_result \in {"EINTR", "error"}
  /\ Exit("poll")

\* case -1, and errno, which the flush may have changed, is not EINTR.
PollFailed ==
  /\ pc = "switch" /\ poll_result \in {"EINTR", "error"} /\ errno # "EINTR"
  /\ Exit("poll")

PollInterrupted ==
  /\ pc = "switch" /\ poll_result \in {"EINTR", "error"} /\ errno = "EINTR"
  /\ LoopTest
  /\ UNCHANGED <<flags, flushVars, disk, poll_result, errno, exit_code, buf,
                 cache, queue, due>>

NothingToRead ==
  /\ pc = "switch"
  /\ poll_result = "timeout" \/ (poll_result = "events" /\ ~ alive)
  /\ LoopTest
  /\ UNCHANGED <<flags, flushVars, disk, poll_result, errno, exit_code, buf,
                 cache, queue, due>>

ReadBatch ==
  LET n == IF Len(queue) < BatchLimit THEN Len(queue) ELSE BatchLimit
  IN  /\ buf' = SubSeq(queue, 1, n)
      /\ queue' = SubSeq(queue, n + 1, Len(queue))
      /\ pc' = "process"

\* default: process_inotify_events begins with one read.
ReadEvents ==
  /\ pc = "switch" /\ poll_result = "events" /\ alive
  /\ ReadBatch
  /\ UNCHANGED <<flags, flushVars, disk, poll_result, errno, exit_code, cache, due>>

\* close(inotify_fd), wd_directory_close, return 0: no last flush.
Closing ==
  /\ pc = "closing"
  /\ Exit("normal")

-----------------------------------------------------------------------------
(***************************************************************************)
(* process_inotify_events, for events that are to be reported.             *)
(***************************************************************************)
\* Mutation: reads again until the queue is empty.
NextEvent_Drain ==
  IF Len(buf) = 1 /\ queue # <<>>
    THEN ReadBatch
    ELSE /\ buf' = Tail(buf)
         /\ IF Len(buf) = 1 THEN LoopTest ELSE pc' = "process"
         /\ UNCHANGED queue

NextEvent ==
  /\ buf' = Tail(buf)
  /\ IF Len(buf) = 1 THEN LoopTest ELSE pc' = "process"
  /\ UNCHANGED queue

CacheFull == Cardinality(cache) > HashSize \div 2

\* hash_cache_add takes the directory.
AddToCache ==
  /\ pc = "process" /\ ~ CacheFull
  /\ cache' = cache \cup {Head(buf)}
  /\ NextEvent
  /\ UNCHANGED <<flags, flushVars, disk, poll_result, errno, exit_code, due>>

\* hash_cache_add returns 0: a flush that adds the directory by itself.
FlushForRoom ==
  /\ pc = "process" /\ CacheFull
  /\ parent_dir_p' = Head(buf)
  /\ pc' = "flush"
  /\ UNCHANGED <<flags, lines, temp, torn, disk, poll_result, errno, exit_code,
                 buf, cache, queue, due>>

-----------------------------------------------------------------------------
(***************************************************************************)
(* flush_hash_cache(notify_dir_p, parent_dir_p).                           *)
(***************************************************************************)
\* Mutation: main's switch is where every flush returns to.
FlushReturns_ToSwitch ==
  /\ pc' = "switch"
  /\ UNCHANGED <<buf, queue>>

\* To main's switch, or to the loop of process_inotify_events.
FlushReturns ==
  IF parent_dir_p = NULL
    THEN /\ pc' = "switch"
         /\ UNCHANGED <<buf, queue>>
    ELSE NextEvent

\* The bound on the files of this incarnation is reached.
AtBound == notification_count = MaxFiles[life]

\* Whether there is anything to write.
AnyLine == parent_dir_p # NULL \/ cache # {}

NothingToFlush ==
  /\ pc = "flush" /\ ~ AnyLine
  /\ FlushReturns
  /\ UNCHANGED <<flags, flushVars, disk, poll_result, errno, exit_code, cache, due>>

\* Mutation: fopen with "a", which keeps what a killed program left.
Truncated_Not == temp

\* fopen with "w" empties the file.
Truncated == {}

\* open_temp_file, for the first line.
OpenTemp ==
  /\ pc = "flush" /\ AnyLine /\ ~ AtBound
  /\ temp' = Truncated
  /\ pc' = "write"
  /\ UNCHANGED <<flags, parent_dir_p, lines, torn, disk, poll_result, errno, exit_code,
                 buf, cache, queue, due>>

OpenFails == pc = "flush" /\ AnyLine /\ "open" \in Faults /\ Exit("open")

\* One fprintf per line into the stream's buffer, and then hash_cache_clear.
WriteLines ==
  /\ pc = "write"
  /\ lines' = cache \cup ({parent_dir_p} \ {NULL})
  /\ cache' = {}
  /\ pc' = "close"
  /\ UNCHANGED <<flags, parent_dir_p, temp, torn, disk, poll_result, errno,
                 exit_code, buf, queue, due>>

\* The buffer does not go to the disk, and the ferror after a line tells.
WriteFails == pc = "write" /\ "disk" \in Faults /\ Exit("write")

\* fclose writes what is in the buffer, or nothing of it when the disk is
\* full; what it returns is not looked at.  (The lines of a flush are taken to
\* fit in one buffer; of more, the file would have the earlier ones.)
CloseTemp ==
  /\ pc = "close"
  /\ \/ /\ temp' = temp \cup lines
        /\ UNCHANGED <<torn, errno>>
     \/ /\ "disk" \in Faults
        /\ UNCHANGED temp
        /\ torn' = TRUE
        /\ errno' = "ENOSPC"
  /\ pc' = "rename"
  /\ UNCHANGED <<flags, parent_dir_p, lines, disk, poll_result, exit_code, buf,
                 cache, queue, due>>

\* Mutation: a flush that makes room keeps the number of the one before.
NextCount_RoomKeeps ==
  IF parent_dir_p = NULL \/ notification_count = 0
    THEN notification_count + 1 ELSE notification_count

\* notification_count++
NextCount == notification_count + 1

\* rename_temp_file.  rename replaces a file of that name.
RenameTemp ==
  /\ pc = "rename"
  /\ notification_count' = NextCount
  /\ files' = Abstract!Put(files, notification_count', Abstract!File(temp, life, torn))
  /\ temp' = {}
  /\ due' = due \ lines
  /\ lines' = {} /\ parent_dir_p' = NULL /\ torn' = FALSE
  /\ FlushReturns
  /\ UNCHANGED <<flags, life, poll_result, errno, exit_code, cache>>

RenameFails == pc = "rename" /\ "rename" \in Faults /\ Exit("rename")

Program ==
  \/ Startup \/ Poll \/ TestFlags \/ ResetFlag
  \/ PollFailed \/ PollInterrupted \/ NothingToRead \/ ReadEvents
  \/ AddToCache \/ FlushForRoom
  \/ NothingToFlush \/ OpenTemp \/ OpenFails \/ WriteLines \/ WriteFails
  \/ CloseTemp \/ RenameTemp \/ RenameFails
  \/ Closing

-----------------------------------------------------------------------------
(***************************************************************************)
(* What happens to the program.                                            *)
(***************************************************************************)
\* A handler runs between two steps.  A poll that waits, for want of events,
\* returns with EINTR afterwards; if the signal came just before, it does not.
Interrupts ==
  \/ UNCHANGED <<pc, poll_result, errno>>
  \/ /\ pc = "poll" /\ queue = <<>>
     /\ pc' = "polled" /\ poll_result' = "EINTR" /\ errno' = "EINTR"

\* sigalrm_handler, every three seconds.
SigAlrm ==
  /\ Running
  /\ flush_now' = TRUE
  /\ due' = Detected
  /\ Interrupts
  /\ UNCHANGED <<alive, parent_alive, flushVars, disk, exit_code, buf, cache, queue>>

\* sigterm_handler
SigTerm ==
  /\ Running
  /\ alive' = FALSE
  /\ Interrupts
  /\ UNCHANGED <<flush_now, parent_alive, flushVars, disk, exit_code, buf, cache,
                 queue, due>>

ParentDies ==
  /\ Running /\ parent_alive' = FALSE
  /\ UNCHANGED <<progVars, queue, files, life, due>>

\* SIGKILL, or one of the exits of process_inotify_events (DirWatcher).
Kill == Running /\ Exit("killed")

\* The kernel merges an event with an equal one at the end of the queue.
EventHappens(d) ==
  /\ Running /\ Len(queue) < QueueLimit
  /\ queue # <<>> => queue[Len(queue)] # d
  /\ queue' = Append(queue, d)
  /\ UNCHANGED <<progVars, parent_alive, files, life, due>>

\* The Monitor reads a file and removes it.
Consume(n) ==
  /\ files' = Abstract!Remove(files, n)
  /\ UNCHANGED <<progVars, parent_alive, queue, life, due>>

\* A new incarnation, on the notification directory as the last one left it.
Restart ==
  /\ ~ Running /\ life < Len(MaxFiles)
  /\ pc' = "start"
  /\ poll_result' = "none" /\ errno' = "none" /\ exit_code' = "none"
  /\ parent_alive' = TRUE /\ life' = life + 1
  /\ UNCHANGED <<alive, flush_now, buf, queue, cache, flushVars,
                 notification_count, due, files>>

Environment ==
  \/ SigAlrm \/ SigTerm \/ ParentDies \/ Kill \/ Restart
  \/ \E d \in Dir : EventHappens(d)
  \/ \E n \in DOMAIN files : Consume(n)

Next == Program \/ Environment

\* One thread that runs when it can, and a timer that does not stop.  Nothing
\* is owed by others: signals and events may go on for ever.
Spec == Init /\ [][Next]_vars /\ WF_vars(Program) /\ WF_vars(SigAlrm)

-----------------------------------------------------------------------------
(***************************************************************************)
(* Properties.                                                             *)
(***************************************************************************)
Pcs == {"start", "poll", "polled", "reset", "flush", "write", "close",
        "rename", "switch", "process", "closing", "exited"}

\* Types, and what each pc says of the locals of the C functions that are
\* running.  In particular the program polls only when the batch it read is
\* done: process_inotify_events goes on after a flush in its middle.
TypeOK ==
  /\ pc \in Pcs
  /\ alive \in BOOLEAN /\ flush_now \in BOOLEAN /\ parent_alive \in BOOLEAN
  /\ poll_result \in {"none", "events", "timeout", "EINTR", "error"}
  /\ errno \in {"none", "EINTR", "ENOMEM", "ENOSPC"}
  /\ exit_code \in {"none", "normal", "killed", "open", "write", "rename", "poll"}
  /\ (exit_code = "none") = Running
  /\ buf \in Seq(Dir) /\ queue \in Seq(Dir)
  /\ cache \subseteq Dir /\ lines \subseteq Dir /\ due \subseteq Dir
  /\ temp \subseteq Dir /\ torn \in BOOLEAN /\ (torn => pc = "rename")
  /\ parent_dir_p \in Dir \cup {NULL}
  /\ life \in DOMAIN MaxFiles /\ notification_count \in 0 .. MaxFiles[life]
  /\ \A n \in DOMAIN files : files[n].paths \subseteq Dir /\ files[n].life \in 1 .. life
  /\ pc \in {"start", "poll", "polled", "reset", "switch", "closing"} => buf = <<>>
  /\ pc = "process" => buf # <<>>
  /\ pc \in {"flush", "write", "close", "rename"} => (parent_dir_p # NULL) = (buf # <<>>)
  /\ pc \notin {"flush", "write", "close", "rename"} => parent_dir_p = NULL
  /\ pc \notin {"close", "rename"} => lines = {}

\* No alarm is lost: whenever the program waits in poll or leaves its loop,
\* either everything detected before the last SIGALRM is in a notification
\* file, or flush_now is still set for the next turn (main.c, the reset of
\* flush_now before the flush and not after the events).
DueFlushed == pc \in {"poll", "closing"} /\ due # {} => flush_now

\* exit(24) is for a poll that failed, not for one that a signal interrupted.
\* The code looks at errno after the flush: when that one's fclose failed on
\* a full disk, an interrupted poll is taken for a failed one.
PollExitExplained ==
  exit_code = "poll" => poll_result = "error" \/ (poll_result = "EINTR" /\ errno = "ENOSPC")

\* How far the flush in progress is: what was detected is in the cache, then
\* in the stream's buffer, and then, but for a full disk, in the file.
FlushInv ==
  /\ pc = "write" => AnyLine
  /\ pc \in {"close", "rename"} =>
       cache = {} /\ lines # {} /\ {parent_dir_p} \ {NULL} \subseteq lines
  /\ pc \in {"write", "close"} => temp = {}
  /\ pc = "rename" => temp = IF torn THEN {} ELSE lines
  /\ pc \in {"write", "close", "rename"} => ~ AtBound

\* An alarm is kept in flush_now or in the flush it started.
AlarmInv ==
  /\ due \subseteq Detected
  /\ due # {} /\ ~ flush_now => pc \in {"flush", "write", "close", "rename"}

\* What poll said still holds at the switch: errno was set by poll or by the
\* flush after it, and nobody else reads the queue.
PollInv ==
  /\ poll_result = "EINTR" => errno \in {"EINTR", "ENOSPC"}
  /\ pc \in {"polled", "reset", "flush", "write", "close", "rename", "switch"}
       /\ parent_dir_p = NULL /\ poll_result = "events" => queue # <<>>

\* The program numbers its files in the order it makes them, and what it
\* knew ends with it.
FilesInv ==
  /\ \A n \in DOMAIN files : n \in Nat /\ files[n].life \in 1 .. life
  /\ Running => \A n \in DOMAIN files : files[n].life = life => n <= notification_count
  /\ ~ Running => cache = {} /\ buf = <<>> /\ notification_count = 0

\* The inductive invariant of EventLoopProofs.
IInv ==
  TypeOK /\ FlushInv /\ AlarmInv /\ PollInv /\ FilesInv /\ PollExitExplained

\* A notification file the Monitor has not read yet is replaced only by
\* another incarnation of the program, which numbers its files from 1 again
\* (rename_temp_file).
UnreadKept ==
  [][\A n \in DOMAIN files \cap DOMAIN files' :
       files'[n] # files[n] => files[n].life < life]_vars

\* Every notification file names all that was detected when it was begun and
\* nothing of what a killed program left in the temporary file; nothing is
\* lost but by the end of the program, a full disk or a restart.
NotifierSpec == Abstract!Spec

\* README: when the program detects an event, it writes a notification file.
\* However many events and signals keep coming, the program reads what is in
\* the queue and publishes what is in the hash cache, again and again, unless
\* it ends.
EventsPublished ==
  /\ (Running /\ queue # <<>>) ~> (buf # <<>> \/ ~ Running \/ AtBound)
  /\ []<>(Detected = {} \/ AtBound)

\* SIGTERM and the death of the parent end the program, however many events
\* keep coming (the test of alive in main's loop and before it reads).
StopsWhenTold ==
  (Running /\ (~ alive \/ ~ parent_alive)) ~> (~ Running \/ AtBound)
=============================================================================
