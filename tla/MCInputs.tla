------------------------------- MODULE MCInputs -------------------------------
(***************************************************************************)
(* What the program reads, in the order of main(): the two files, then the *)
(* events of one poll after the other.  What the files contain does not    *)
(* matter to the iterator, so it goes on only behind the shortest ones.    *)
(***************************************************************************)
EXTENDS ConfigLoad

CONSTANTS BufferLen, Event, WaitingLimit
VARIABLES queue, cells, start_unused_buffer, event_start_index, event_size,
          event_p, invalid, later

bufferVars == <<queue, cells, start_unused_buffer, event_start_index, event_size,
                event_p, invalid, later>>

Buffer == INSTANCE EventBuffer

ASSUME BufferAssumption == Buffer!BufferConstants

\* Every file of up to n characters.
FilesUpTo(n) == UNION {[1 .. k -> Char] : k \in 0 .. n}

ShortFiles == FilesUpTo(4)
LongerFiles == FilesUpTo(6)

\* Without a name, and two with one.
ThreeEvents ==
  {[name |-> "a", len |-> 0], [name |-> "b", len |-> 2], [name |-> "c", len |-> 2]}

InputsInit == Init /\ Buffer!Init

\* Bound: the event phase is explored behind two empty files only.
Loaded == phase = "loaded" /\ exclude_file = <<>> /\ config_file = <<>>

InputsNext ==
  \/ Next /\ UNCHANGED bufferVars
  \/ Loaded /\ Buffer!Next /\ UNCHANGED configVars

InputsSpec == InputsInit /\ [][InputsNext]_<<configVars, bufferVars>>

\* The offsets of the iterator stay within what was read (EventBuffer).
BufferTypeOK == Buffer!TypeOK

\* No event of the kernel is taken for an invalid structure (EventBuffer).
NoInvalidStructure == Buffer!NoInvalidStructure

\* The inductive invariant of InputProofs: how far the files are read
\* (ConfigLoad), and how the events of a batch lie one behind the other in the
\* buffer (EventBuffer).
InputsIInv == ConfigInv /\ Buffer!IInv

\* The iterator hands out whole events in order (EventBuffer, EventBatch).
BatchSpec == Buffer!BatchSpec
=============================================================================
