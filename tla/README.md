# spideroak_inotify_dir_watcher in TLA+

The program watches a list of directories and everything below them with
inotify, and writes files that name the directories in which something
happened; another program scans those. It is a single-threaded C program
(`src/main.c` and four helpers) that races with everybody else on the machine:
directories come, go and move while it is reading about how they came, went and
moved a moment ago. This project models that race, checks it with TLC on small
trees, and proves with TLAPS what holds for trees, configurations and histories
of any size.

## The system

| component | state | operations | modelled in |
|---|---|---|---|
| watch management, `main.c` (`add_watch`, `prune_wd_and_clean_up`, `process_inotify_events`) | locals of the C functions, the path memo, `prev_cookie` | one branch for each kind of event; `add_watch` with its recursion; pruning | `DirWatcher` |
| table of watches, `wd_directory.c` | an SQLite table `(wd PRIMARY KEY, parent_wd, path UNIQUE)` | INSERT, DELETE, four SELECTs, `prune_wd_directory` | `WdTable`, `WdStore`, `WdDirectory` |
| hash cache, `hash_cache.c` | hash rows, entries, a block of memory | `hash_cache_add`, `hash_cache_iter`, `hash_cache_clear` | `PathCache`, `HashCache` |
| `list_sub_dirs.c` | none | the sub-directories of a path | `DirWatcher` (`ListSubDirs`) |
| `iterate_inotify_events.c` | one buffer, three offsets | read a batch, next event | `EventBatch`, `EventBuffer`; in `DirWatcher` a sequence of events |
| startup, `load_excludes`, `load_top_level_paths` | the excludes | read two files, add each listed directory | `ConfigLoad` (the files), `DirWatcher` (`Init`: the directories) |
| notification files, `flush_hash_cache`, `rename_temp_file` | the temporary file, the file counter | publish all cached paths | `Notifier`, `EventLoop`; in `DirWatcher` one step (`Publish`) |
| main loop, signals | `alive`, `flush_now`, `errno` | poll, flush, one batch per turn, shutdown | `EventLoop`; in `DirWatcher` one batch or one flush |
| kernel and file system (not in `src/`) | tree, watches, event queue | what other processes do; inotify | `Inotify` |
| error reporting, launcher, tests, build files | none the program reads back | | not modelled |

How they meet: `process_inotify_events` takes events from the iterator and looks
each one's directory up in the table; `add_watch` and the pruning change the
table and the kernel's watches; every event that is not skipped ends in
`hash_cache_add`; a refusal there, or the 3-second timer, flushes the cache to a
file. The program's own `inotify_rm_watch` calls come back to it as `IN_IGNORED`.

What is hard about it:

* **Two copies of one truth.** Rows and watches are changed by different system
  calls, and the kernel changes the watches by itself. A row without a watch
  hides a directory (`add_watch` believes it is watched); a watch without a row
  makes events without a path. Correct means `RowBacked` and `WatchTracked`.
* **Paths and inodes.** A watch belongs to an inode, the table to a path, and a
  rename changes what a path leads to between `inotify_add_watch` and
  `list_sub_dirs`. Correct means `AllWatched` and `RowsTrue` once all is quiet; with
  removals and renames the code falls short of the first, and `LostOnlyToStaleRows` says
  by how much as long as the changes stay in one directory.
* **Events describe the past.** By the time an event is handled its directory may
  be gone, replaced, or already found by the recursion for its parent.
* **Hard stops.** SQL errors, the cookie check and a queue overflow end the
  program on purpose; only the last should ever happen. Other system calls may
  fail at any point, in the middle of a list of wds too.
* **Signals.** SIGALRM and SIGTERM set flags at any step; SIGALRM may interrupt
  `poll`, whose `errno` is looked at only after a flush. Correct means that no
  alarm is lost (`DueFlushed`), that an interrupted `poll` does not end the program
  (`PollExitExplained`), that flushes and events do not starve each other
  (`EventsPublished`), and that the program stops when told (`StopsWhenTold`).
* **Crashes.** A killed program leaves a temporary file and numbered files; the
  next one begins at 1 again. Correct means `NotifierSpec` and, within one
  incarnation, `UnreadKept`.
* **C strings and buffers.** `fgets` and `feof` decide which lines of the two files
  count; three offsets decide where the next event is.
* **Limits.** The hash cache refuses at half full; its probe loop relies on that.

`PROJECT.json` lists all hazards with their lines and the properties that cover
them.

## Modules

* `Inotify`: *external.* A tree of directories (inodes with a location), seven
  kinds of change other processes make (mkdir, rmdir, rmdir of a directory some
  process holds open and its release, rename, rename onto an empty directory,
  writing a file, moving a file), the watch of each directory, and the event
  queue with its overflow. It follows inotify(7): one watch per inode, wds never
  reused, `IN_IGNORED` when a watch goes, IN_MOVED_FROM before IN_MOVED_TO with
  one cookie. Modelled from the calls `src/` makes and the mask in `main.c`. The
  kernel's merging of identical neighbouring events is left out: it only removes
  repetitions. `changed` is a history variable: the directories in which
  something happened since a notification last covered them.
* `WdTable`: the table as a value, a set of rows, and an operator for each SQL
  statement. `PruneSet` is the least set that holds the wd and is closed under
  `find_children`; `PruneDiverges` says that the C loop would never end.
* `DirWatcher`: the program. A handler is split exactly where another process can
  get in between: at `inotify_add_watch` (`AddWatch`), at each
  `inotify_rm_watch` (`RemovePruned`), at the `opendir`/`readdir` of
  `list_sub_dirs` (`ListSubDirs`), at the `read` (`ReadEvents`). Everything
  between two of those touches only the process's own memory and belongs to the
  step. The recursion of `add_watch` is the sequence `calls`: `add_watch` does
  nothing after its loop of recursive calls and ignores their results, so the C
  stack is equivalent to a list of calls still to make. `watch_descriptor` is the
  local of the call in progress, `doomed` what is left of the list
  `remove_pruned_wds` goes through, `notify` whether the handler falls through to
  `hash_cache_add`. `pc` is where the process is; `overflow`, `cookie_error`,
  `sql_error`, `call_error` and `hung` are where it ends.
  The actions `Handle...` are the branches of the `if` chain in
  `process_inotify_events`, `AddWatchDeclined` the early returns of `add_watch`.
  With `CallFaults` a system call may fail: "denied" is EACCES, which `add_watch`
  takes for a directory that is gone, "error" any errno that ends the program
  (`AddWatchFails`, `OpendirFails`, `RemovePrunedFails`, `ReadFails`).
  The path of an event whose row is gone is NULL; formatted with `%s` it becomes
  a relative path that leads nowhere (`Join`).
* `WatchHistory`: `DirWatcher` with the history variable `missed`: the directories
  that `add_watch` turned away with "Already watching" (`main.c:239`) where they are
  now, because of a row that is not of their watch (`TurnedAway`). Such a row waits for its
  `IN_IGNORED`, or for the IN_MOVED_FROM of a directory that has moved on. `HistNext` is
  `Next` with the update of `missed`, which allows every step.
* `WdStore` and `WdDirectory`: what `wd_directory.h` promises, and the two loops of
  `prune_wd_directory` one turn at a time; the second implements the first.
* `PathCache` and `HashCache`: a set of paths that may refuse, and the
  open-addressing table row by row; the second implements the first.
* `Notifier` and `EventLoop`: what the program promises the Monitor, and `main()`
  from the signal handlers to the exit. `Notifier` has only the directories
  detected and not yet in a file, the notification directory, and the incarnation
  of the program: one step publishes everything detected in one file, and a file
  nobody has read is not replaced by the same incarnation. In `EventLoop` `pc`
  names the point reached in `main`, `process_inotify_events` or `flush_hash_cache`;
  a step ends where a signal, the parent's death, a kill or the Monitor can make
  a difference. `lines` is what a flush has given to `fprintf` and the disk does
  not have yet, `temp` what it has. `Exit` is every end of the process; its memory
  and its inotify queue are gone, `temp` and `files` stay. `due` is a history
  variable: what was detected before the last SIGALRM. The hash cache is a set
  with its refusal, and what an event does to the watches is left to `DirWatcher`.
  `Poll` and `Interrupts` follow poll(2): with events waiting it returns them, EINTR
  comes only to a `poll` that waits. The other calls restart after a signal, as
  `signal(2)` of glibc arranges.
* `ConfigLoad`: `load_excludes` and `load_top_level_paths` on files that are
  sequences of characters, one letter standing for all but the newline. `fgets`
  takes the characters up to a newline or up to its buffer's size, `feof` is
  set when neither is left. `LinesUsed` compares with what a line of a text
  file is (`Lines`).
* `EventBatch` and `EventBuffer`: batches of whole events, as `DirWatcher` has them,
  and the buffer with its offsets. A cell is 8 bytes, a header two cells. A read
  overwrites the start of the buffer and leaves the rest as it was, so an offset
  that is off finds the events of an earlier read or the middle of a name. `Ends`
  says where each event of a read ends, `CellOf` what that puts in a cell. The
  second implements the first, which is what lets `DirWatcher` use a sequence.
* `MCInputs` composes `ConfigLoad` and `EventBuffer` in the order of `main()`: the
  files, then the events.
* `MCDirWatcher`, `MCWatchHistory`, `MCHashCache`, `MCEventLoop`: values of the constants for TLC.
* `DirWatcherProofs`, `WatchProofs`, `GrowingProofs`: theorems about `DirWatcher`, each
  module resting on the one before. `EventLoopProofs`, `HashCacheProofs`,
  `WdDirectoryProofs`, `InputProofs` (the files and the event iterator, as `MCInputs` has them):
  theorems about those components. `NumberLemmas`: facts about numbers.

Each definition whose name has a suffix after an underscore and whose comment
begins with "Mutation" is a plausible bug; no specification uses it. TLC reports
the property listed for it in `PROJECT.json` violated when it takes the place of
the original.

## What is checked

The runs of `DirWatcher` and `WatchHistory` use the top-level directory `/a` and up to three more
directories; `flat` lists `/a/a` before it as a top-level directory of its own. `MaxOps` bounds what other processes do (the program itself is not
bounded), `BatchLimit` 3 makes batches end in the middle of a group of related
events. Deadlock is not checked: other processes may stop for good, and the
program exits or hangs in the states named above.

| run | bounds | what it shows |
|---|---|---|
| `any_change` | 3 directories, 2 names, all kinds of change, 3 of them, also during startup, queue of 5, every kind of failing call | `RowBacked`, `WatchTracked`, `NoSqlFailure`, `NoCookieError`, types, and `IInv`, the inductive invariant of the proofs, whatever other processes do |
| `flat` | top-level directories `/a/a` and `/a`, 4 changes in `/a` or out of it (mkdir, rmdir, rename, also onto an empty directory, and directories held open), 4 names (two ordinary, one excluded, one ignored) | `RowsTrue`, `NothingExcludedWatched`, `ParentLink`: the rows that are there in the end are right, races included; `LostOnlyToStaleRows`: not every directory has one, but what is lost was taken for watched because of a stale row |
| `growing` | 4 directories, 3 creations at any depth, also during startup, calls that fail | `AllWatched`: a tree that only grows is watched completely, however the recursion and the creations interleave; `GrowInv`, the inductive invariant of the proof of that |
| `published` | hash table of 1 row, queue of 4, 4 changes in `/a` (mkdir, rmdir, rename, writing a file) | `EveryChangePublished`, but for changes in a directory lost to a stale row; `SettlesDown`, `OverflowStops` |
| `wd_directory` | 3 wds, 3 paths, every table they can form | the loops of `prune_wd_directory` implement `WdStore`; `ListSound`, `ListedOnce`, `DivergingNeverReturns`, `PruneEnds`; `IInv` |
| `hash_cache` | 4 rows, 5 bytes, 6 values that collide and wrap, `count` modulo 3 to keep it finite | `Linked`, `ProbeEnds`, `InBounds`, `FlushedOnce`; the table implements `PathCache`; `IInv` |
| `event_loop` | 2 directories, hash table of 2 rows, queue and batches of 2 events, 2 files and, after a restart, 1, every fault | `DueFlushed`, `PollExitExplained`, `UnreadKept`, `EventsPublished`, `StopsWhenTold`; the loop implements `Notifier`; `IInv` |
| `inputs` | buffer of 4, 2 excludes, every exclude file of up to 6 characters and config file of up to 4; event buffer of 6 cells, 3 events, 4 of them waiting | `LinesUsed`, `LimitExact`, `BlankExplained`; `NoInvalidStructure`, the buffer implements `EventBatch`; `InputsIInv`, with the bounds of the offsets |

Each `IInv`, and `InputsIInv`, is the inductive invariant of that component's proofs and has its `TypeOK`
as a conjunct. `any_change` lists `TypeOK` besides, to check the types by themselves; the
other runs do not.

The bounds are enough for what can go wrong: a race needs one change between two
steps of a handler and up to three to make the ground for it. The violations below need
between one and five. A directory is lost in `/a` after three changes (see below), and
its loss shows in the notifications after a fourth, which is why `flat` and `published` have
four; `flat` has two ordinary names next to each other, without which no watched directory
moves from one watchable place to another. Three
wds form every shape of parent links (chain, fan, self-loop, two- and
three-cycle). Four hash rows with six values reach a probe of each length, both
refusals and the wrap-around. Two directories, a hash table that refuses the third
path and two files reach a flush for a refused path in the middle of a batch and
one for an alarm with something left over; one restart with one file reaches a
number that is used again. `EventLoop` stops at its bound on files before it opens
one, and the liveness properties except those states (`AtBound`). Files of six
characters with a buffer of four hold a line that is too long by one and by three,
and one line more than `MAX_EXCLUDES` = 2.

### Where the code does not do what it says

| run | what happens | the text it contradicts |
|---|---|---|
| `lost_after_move` | `inotify_add_watch` returns a wd the table has; the code removes the watch, then inserts a row for the same wd. The row is dead, its `IN_IGNORED` removes it, the directory is not watched any more | `main.c:290` "inotify_add_watch returns the existing wd, which we want to get rid of" |
| `stale_path` (see below for a second way) | a row whose parent's row was removed by `IN_IGNORED` is not found by the prune of its directory and keeps the old path | `main.c:197` "We prune the whole tree (if any) below this directory, because the paths are no longer right" |
| `prune_hangs` | a directory moves to where the creation of its own sub-directory was reported, gets a row with itself as parent, and the next prune never returns | `wd_directory.h:59` "Return NULL on failure / On success return a pointer to a list" |
| `event_dropped` | a directory created between `inotify_add_watch` and `list_sub_dirs` of its parent is already watched when its event comes; the event is dropped and nothing published | `README` "When it detects an event (or events), it writes a simple notification file" |

Pruning also misses a row whose `parent_wd` is 0 although its parent is watched: with
top-level directories `/a/a/a` and then `/a`, the inner one keeps its row when
`/a/a` moves out of `/a`, and one rename breaks `RowsTrue`. With the inner directory
directly in the outer one, or the outer one listed first, this does not happen;
`flat` checks the former.

`EventLoop` shows two things that no text of the repository speaks of, so that they
are exceptions in the properties and not violations: an interrupted `poll` ends
the program if the flush before the test of `errno` met a full disk
(`PollExitExplained`), and the first files of a restarted program replace those of
its predecessor that nobody has read (`UnreadKept`). A last line without a newline
is not used (`LinesUsed`), and a blank line in the exclude file excludes
everything (`BlankExplained`).

The code of `lost_after_move` (`main.c:294-303`) loses a directory in a single level as well.
With `x` watched at `/a/a`, other processes do `mkdir /a/d`, `rmdir /a/d` and
`rename /a/a /a/d` before the program handles the IN_CREATE of `d`. `inotify_add_watch("/a/d")`
returns the wd of `x`; the code removes that watch and inserts a dead row at `/a/d`; the
IN_MOVED_TO of `d` is answered "Already watching" (`main.c:239`); the IN_IGNORED removes the
row, and `x` is not watched, with nothing pending. A directory that takes the place of one
some process holds open, or of one it replaces by `rename`, is lost the same way: the row of
the old one is still there when `add_watch` is asked. `LostOnlyToStaleRows` says that in one
level this is all that is lost, and `missed` is what the properties except.

In deeper trees there are more ways, and `flat` is restricted to changes in `/a` for that
reason: in `lost_after_move` nobody is turned away, a re-created sub-directory finds the row
of its predecessor, and `parent_wd` may name a wd that is gone. It is also
restricted to changes after startup: if the inner top-level directory is watched first and
moves before the outer one is watched, nobody reports the move, and `RowsTrue` fails.

### What the restrictions mean

* `published` and `event_dropped` assume that the reader of a notification scans
  the directory it names and all below it, as `test_dir_watcher.py` does when it
  weeds out notifications of lower directories; `Publish` therefore covers
  sub-directories. A creation of an excluded directory is not reported by the
  code on purpose, so `published` has no excludes.
* `published` does not have directories that are held open. The IN_CREATE of one that takes
  the place of such a directory is dropped with its notification (`main.c:742`), because
  `add_watch` takes it for watched; that is `event_dropped` with another cause, and the change
  it leaves unpublished is one of the directory above, which is not lost itself.
* `published` starts when the program has its initial watches: before that it is
  `event_dropped` that speaks.

### Fairness

`FairSpec` is weak fairness of the program as a whole: it is one thread that runs
when it can run, `poll` returns when there are events, and the timer sets
`flush_now` every three seconds. Nothing is said of the choice between reading
and flushing: other processes make finitely many changes (`MaxOps`), so the
queue is empty in the end and a flush is all that is left to do; the code, which
flushes at the top of the loop and then reads one batch, does no worse.
Nothing is assumed of other processes. `FairHistSpec` is the same with the history variable.
`WdDirectory` has weak fairness of the two
loops of a call in progress; nobody is obliged to call.

`EventLoop` has weak fairness of the program, one thread whose `poll` ends after a
second at the latest, and of SIGALRM, which the interval timer sends every three
seconds. Here events may go on for ever, so the order of flush and read in the
loop matters: the mutation that reads until the queue is empty starves the flush.
Nobody is obliged to read files, to send SIGTERM or to restart the program.

## What is proved

The theorems hold for every value of the constants, from the named assumptions of the
modules alone, but for those of `GrowingProofs`, whose hypotheses are below. What the
assumptions say is that the sizes are positive, that paths are sequences of names, that
directories are finitely many and have different places at the start, below others that
are there (`InotifyAssumption`, `DirWatcherAssumption`, `WdDirectoryAssumption`), that each
path fits in the hash cache's memory by itself (`HashCacheAssumption`), and each event in
the event buffer (`BufferAssumption`); the last is the kernel's, which gives `EINVAL`
otherwise and takes no name of more than 255 characters. `ConfigLoadAssumption` has a
read buffer of two characters at least, the first size with which `fgets` reads anything.

| theorem | states |
|---|---|
| `DirWatcherProofs`: `TypeCorrect` | `Spec => []TypeOK` |
| `WatchProofs`: `RowsBacked` | `[]RowBacked`: a row has a live watch, or its IN_IGNORED or an overflow is on the way |
| `WatchProofs`: `WatchesTracked` | `[]WatchTracked`: a watch has a row, or is in the hands of `add_watch` or `remove_pruned_wds` |
| `WatchProofs`: `InsertsSucceed` | `[]NoSqlFailure`: no INSERT breaks a key, so `execute_sql` never ends the program because of one |
| `WatchProofs`: `CookiesDiffer` | `[]NoCookieError`: the test of consecutive `IN_MOVED_FROM` cookies never ends the program |
| `WatchProofs`: `Invariant` | `[]IInv`, the conjunction of all of that with what it rests on |
| `GrowingProofs`: `GrowingInvariant` | `[]GrowInv` in trees that only grow (see below) |
| `GrowingProofs`: `GrowingWatched` | `[]AllWatched` in such trees: once the program has caught up no directory it should watch is missing |
| `GrowingProofs`: `GrowingRowsTrue`, `GrowingParentLink` | `[]RowsTrue`, `[]ParentLink` in such trees: a row has the path of its directory, and the row of the directory above for its parent |
| `GrowingProofs`: `GrowingNothingExcluded` | `[]NothingExcludedWatched` in such trees, if no top-level path is below an ignored name |
| `EventLoopProofs`: `Invariant`, `TypeCorrect` | `[]IInv`, `[]TypeOK` |
| `EventLoopProofs`: `AlarmsKept` | `[]DueFlushed`: no SIGALRM is lost |
| `EventLoopProofs`: `PollExits` | `[]PollExitExplained`: what exit(24) means |
| `EventLoopProofs`: `FilesKept` | `UnreadKept`, an action property: which files a rename may replace |
| `EventLoopProofs`: `ImplementsNotifier` | `Spec => Notifier!Spec`: what the files say, through flushes, faults, kills and restarts |
| `HashCacheProofs`: `Invariant`, `TypeCorrect` | `[]IInv`, `[]TypeOK` |
| `HashCacheProofs`: `AlwaysLinked` | `[]Linked`: rows and entries point at each other, and a probe finds what is stored |
| `HashCacheProofs`: `SearchesEnd` | `[]ProbeEnds`: the `while` loop of `hash_cache_add` ends |
| `HashCacheProofs`: `NothingOverwritten` | `[]InBounds`: neither the entries nor the memory block is overrun, no path overwrites another |
| `HashCacheProofs`: `FlushesOnce` | `[]FlushedOnce`: a flush names no path twice |
| `HashCacheProofs`: `ImplementsPathCache` | `Spec => PathCache!Spec` |
| `WdDirectoryProofs`: `Invariant`, `TypeCorrect` | `[]IInv`, `[]TypeOK` |
| `WdDirectoryProofs`: `ListAlwaysSound` | `[]ListSound`: the invariant of the first loop of `prune_wd_directory` |
| `WdDirectoryProofs`: `ListsOnce` | `[]ListedOnce`: a list that ends names no wd twice |
| `WdDirectoryProofs`: `NeverReturns` | `DivergingNeverReturns`, an action property: a prune of a wd below itself does not end |
| `WdDirectoryProofs`: `ImplementsStore` | `Spec => WdStore!Spec`: the two loops are one step to their callers |
| `InputProofs`: `InputsInvariant` | `[]InputsIInv`, of the files and of the event buffer |
| `InputProofs`: `LinesAllUsed` | `[]LinesUsed`: every line that fits is used, once, in order, and excludes before paths |
| `InputProofs`: `LimitsExact` | `[]LimitExact`: the array of excludes is not overrun, exit(7) is for too many lines |
| `InputProofs`: `BlanksExplained` | `[]BlankExplained`: where an exclude that excludes everything comes from |
| `InputProofs`: `BufferTypeCorrect` | `[]BufferTypeOK`: offsets stay within what was read |
| `InputProofs`: `StructureValid` | `[]NoInvalidStructure`: `next_iter_inotify` never exits |
| `InputProofs`: `ImplementsBatch` | `InputsSpec => EventBatch!Spec` |

Hardly any of the properties is inductive. The strengthenings, each checked by TLC in
the run of its component:

**DirWatcher.** `IInv` has, besides the properties:

* `ControlInv` says what each `pc` implies for the locals: that there is an event
  or a call in progress, that outside of a call there is no `watch_descriptor`,
  that the event being handled is not an `IN_IGNORED`. Types need it
  (`Head(buf)` has a type only if `buf` has a head).
* `KeyInv` has unique keys, and for the time between the prune and the INSERT that
  the INSERT is still allowed: `find_directory_wd` found no such path before, the
  prune has removed the wd, and no handler runs in between.
* `WdInv` has that wds belong to one directory, are at most `last_wd`, and that an
  `IN_IGNORED` in a queue is of a watch that is gone (`IgnoredGone`). Without it
  the removal of a row by `IN_IGNORED` could take the row of a live watch. It
  needs that wds are handed out once. It also has that the wd in
  `watch_descriptor` is backed, so that a row inserted for a wd which was just
  removed is backed too, by the `IN_IGNORED` the removal queued.
* `CookieInv` orders the cookies along the way of an event: `prev_cookie`, then the
  batch, then the queue, then the kernel's `last_cookie`. An `IN_MOVED_FROM` comes
  strictly behind everything before it, because it is the first event of its
  rename; so the one being handled cannot have the cookie of the one before.

`WatchProofs` reduces the environment to one lemma: whatever a step of `FsNext`
does to the watches, it queues an `IN_IGNORED` for each one that goes and for no
other (`FsWatchesGo`), and an `Enqueue` that drops something leaves an overflow
(`EnqueueFacts`). Every action then keeps `WatchInv` by one of a few cases: nothing
changes, events move, watches go, a row comes or goes. `CallFaults` does not disturb
any of this: a failing call leaves everything but `pc` as it is, also in the middle of
a prune, where `doomed` and `watch_descriptor` still account for the watches without
a row.

**DirWatcher in a tree that only grows.** `AllWatched` does not hold in every tree: the
findings show how renames break it. `Growing` says that directories are created and
never removed or renamed (files may be written and renamed), and that no call is refused
with `EACCES`, which leaves a directory unwatched by design; other failing calls may end the
program at any time. `TopLevelExists` says that the top-level directories are there at
the start, for nobody tells the program of one that comes later. Everything else is
arbitrary: the shape and size of the tree, the top-level paths (nested, or one twice),
excludes, the sizes of queue and batches, and when the creations happen, startup
included. `GrowInv` has:

* `TreeInv`: the tree is one, so that a path leads to one directory at most and a directory
  is at one path at most (`UniqueInode`, `UniquePath`, by the least length of a path for
  which it is not so). A step of the environment leaves every path where it leads.
* `TableInv`, `LinkInv`, `EventInv`, `CallInv`: at any step a row is of the directory at its
  path and its parent's row is the one of the path above; every event has a row,
  which the memo `prev_wd` has right; nothing is pruned.
* `TopLevelInv`, `ChildrenInv`: a directory that should be watched and is not has a call of
  `add_watch` to come, or its `IN_CREATE` is still to be handled, or the directory above is in
  hand and not listed yet. Each of the three hands over to another: a creation between
  `inotify_add_watch` and `readdir` queues an event *and* is listed, and whichever comes
  second finds the path in the table. The invariant is given up when an overflow is in the
  queue, which ends the program.
* `WantedInv`: no row is at or below an excluded path or an ignored name. `add_watch` tests
  only the last name for the ignored suffix; this is enough because it gets at a path
  from the directory above, but for a top-level path. A configuration with a top-level
  path below an ignored name is watched all the same; `TopLevelWanted` excludes it.

At rest (`Quiet`) there are no calls, events or listings left, which leaves `Watched`.
For `NothingExcludedWatched` all ancestors of a directory are on the way down its row's path
(`AncestorFacts`).

**EventLoop.** `FlushInv` follows what was detected through a flush: from the cache to
the stream's buffer, to the temporary file unless the disk is full, to the name.
`AlarmInv` says that what is due is detected and that `flush_now` is reset only in
favour of a flush, which is what makes the reset *before* the flush right. `PollInv`
says that what `poll` returned still holds at the switch: `errno` is that of `poll` or of
the flush's `fclose`, and events that were there are there. `FilesInv` numbers the files
of the present incarnation. The refinement maps `detected` to the cache, the lines and
the argument of the flush together; each action is a step of `Notifier` or leaves its
state alone.

**HashCache.** With at most half of the rows in use when a path is taken, there is a free
row, and going round from any row reaches it (`NumberLemmas` has the division this
takes); of the rows before the first one to stop at, each holds another value. A new
entry takes a free row, so no other probe went past it, and `Linked` stays. For `InBounds`
each entry ends where the next begins or before, and the last at `memory_pos` or before.

**WdDirectory.** `ListInv` says that a wd in the list stands behind its parent, and that a
parent which `current_p` has passed has its children behind it. A wd occurs once: a
child that is in the list already is there because of its parent, whose wd its one row
names (`UniqueWds`), so that the parent was in the list twice before; or it is the
pruned wd, which is then below itself. That a prune of a wd below itself does not end is shown at
the last turn: of the wds in the list which the wd's parent is below or equal to, take
the last; it has a child with that property, and the child stands behind it.

**ConfigLoad.** `ConfigInv` says where in its file `fgets` is: at `p`, in a line that began
behind `s`, of which it has read `p - s` characters in full buffers. When lines fit, no
buffer is ever full without a newline, so `p` is the end of a line and what was used is
the first lines of the file (`FgetsFacts`, `LineBetween`). Otherwise a newline found at
once ends a line of `p - s` characters, a multiple of the buffer's size, and that is
where a blank exclude comes from. A line there is no room for is one line more than
were used, so the file has more than `MAX_EXCLUDES`.

**EventBuffer.** `LayoutInv` says that from the current event on, the events still to be
handed out lie one behind the other up to the last byte read. A read establishes it,
however many events it gave; `next_iter_inotify` moves along. The two short reads do not
happen because a read gives at least one whole event.

Induction over the natural numbers is used in one form: a set of numbers that is not
empty has a least one, and a bounded one a greatest (`Least`, `Greatest`). `EndsExist`
shows that way that the recursion of `Ends` has a solution.

Only model-checked:

* liveness (`EveryChangePublished`, `SettlesDown`, `OverflowStops`, `PruneEnds`,
  `EventsPublished`, `StopsWhenTold`): there is no rule for fairness here;
* `LostOnlyToStaleRows`, `RowsTrue`, `NothingExcludedWatched` and `ParentLink` in trees with
  removals and renames at one level (the run `flat`); deeper down they fail, in the ways the
  violations above show among others.

## Not modelled

* Lengths of paths and the buffers they are formatted into (`main.c:582` compares
  with `==` and lets longer paths through, cut). Symbolic links, unmounts
  (`IN_UNMOUNT`), `DT_UNKNOWN` of `readdir`.
* Named files are not in the tree, only that a directory has files that are written and
  moved. So `opendir` never finds a file where the directory was (the ENOTDIR branch,
  `list_sub_dirs.c:37-41`), and `inotify_add_watch` never lands on a file that took the
  directory's name (`main.c:246`, whose mask has no `IN_ONLYDIR`) and watches that.
* A path made from NULL, `(null)/name`, leads nowhere; in a working directory that
  has a directory of that name it would lead there.
* The exits before the loop that depend on nothing (arguments, `signal`,
  `inotify_init`), `malloc` and `calloc` that fail.
* `opendir` and `readdir` are one step: glibc gets the entries of a directory of up
  to about a thousand names with one `getdents`, which the kernel does not
  interleave with changes of the directory. `errno` after `readdir`, which the code
  does not reset before, is taken to be right.
* Of `EventLoop`: merged events are exactly the kernel's (an event equal to the last
  one in the queue); the lines of a flush fit in one stdio buffer, so that `fclose`
  writes all or nothing; the Monitor reads and removes a file in one step (in
  between, a restarted program could put a new file there, which would go unread);
  two incarnations do not overlap, although a program whose parent died goes on for
  up to a second and would share the temporary file with its successor.
* `static int` flags that are not `volatile sig_atomic_t`: the handlers' addresses are
  given to `signal`, and calls into libc lie between the tests, so a compiler reads
  the flags each time.
* Error reporting (`syslog`, `error.txt`), the launcher, the tests, the build files:
  nothing the program reads back.

## Plan

Done: `Inotify`, `WdTable`, `DirWatcher` with its first theorems, nested top-level
directories and failing calls; `WdStore` / `WdDirectory`, `PathCache` / `HashCache`,
`Notifier` / `EventLoop`, `ConfigLoad`, `EventBatch` / `EventBuffer`.

`EventLoopProofs`, `HashCacheProofs`, `WdDirectoryProofs`, `InputProofs` prove every safety
property of their components, the four refinements among them.

`DirWatcherProofs` and `WatchProofs` do so for what `DirWatcher` promises in every tree, and
`GrowingProofs` for what it promises in a tree that only grows.

`WatchHistory` has what of `AllWatched` is left in trees with removals and renames.

Left are the properties of the run `flat` for trees of any size: with removals and renames in
one directory only. There a row may be of a directory that has moved on, and the
invariant has to follow the order of `IN_MOVED_FROM`, `IN_MOVED_TO`, `IN_CREATE` and
`IN_IGNORED` of one name and one directory through queue and batch.
