------------------------------ MODULE ConfigLoad ------------------------------
(***************************************************************************)
(* The two files main() reads before its loop: load_excludes and then      *)
(* load_top_level_paths, each a loop of fgets, feof and one use of the     *)
(* buffer.  What fgets does with a line that does not fit, with a last     *)
(* line that has no newline, and with the end of the file decides which    *)
(* lines are used, so a file is its characters here; one letter stands for *)
(* all characters but the newline.                                         *)
(***************************************************************************)
EXTENDS Integers, Sequences, FiniteSetsExt, SequencesExt

CONSTANTS
  BufferSize,   \* MAX_PATH_LEN, the size of read_buffer
  MaxExcludes,  \* MAX_EXCLUDES
  ExcludeFiles, \* exclude files that may be given
  ConfigFiles   \* config files that may be given

NewLine == "newline"
Char == {"x", NewLine}

ASSUME ConfigLoadAssumption ==
  /\ BufferSize \in Nat \ {0, 1}
  /\ MaxExcludes \in Nat
  /\ ExcludeFiles \subseteq Seq(Char) /\ ConfigFiles \subseteq Seq(Char)

VARIABLES
  phase,         \* "excludes", "top_level", "loaded", or how it ended
  exclude_file,  \* the files, which do not change
  config_file,
  rest,          \* what the open file has left
  excludes,      \* the array of excludes, as far as exclude_count
  calls          \* the paths given to add_watch(NULL_WD, ...)

configVars == <<phase, exclude_file, config_file, rest, excludes, calls>>

-----------------------------------------------------------------------------
(***************************************************************************)
(* fgets(read_buffer, MAX_PATH_LEN, file) and the strchr after it.         *)
(***************************************************************************)
\* Mutation: the terminating '\0' is not counted.
ReadEnds_NoRoom(file) ==
  {n \in 1 .. Len(file) : file[n] = NewLine \/ n = BufferSize}

\* Characters after which fgets has enough: a newline, or the last one there
\* is room for.
ReadEnds(file) ==
  {n \in 1 .. Len(file) : file[n] = NewLine \/ n = BufferSize - 1}

\* Without one of those fgets runs into the end of the file: feof is set, also
\* if there were characters before it.
feof(file) == ReadEnds(file) = {}

fgets(file) == SubSeq(file, 1, Min(ReadEnds(file)))

\* The newline is cut off, if there is one.
Stripped(line) == IF Last(line) = NewLine THEN Front(line) ELSE line

Advance ==
  rest' = SubSeq(rest, Len(fgets(rest)) + 1, Len(rest))

-----------------------------------------------------------------------------
Init ==
  /\ phase = "excludes"
  /\ exclude_file \in ExcludeFiles
  /\ config_file \in ConfigFiles
  /\ rest = exclude_file
  /\ excludes = <<>>
  /\ calls = <<>>

\* fopen or fgets fails: exit(5), exit(6), exit(9), exit(10).
ReadFails ==
  /\ phase \in {"excludes", "top_level"}
  /\ phase' = "read_error"
  /\ UNCHANGED <<exclude_file, config_file, rest, excludes, calls>>

\* Mutation: the array is looked at before the end of the file.
TooManyExcludes_First ==
  /\ phase = "excludes"
  /\ Len(excludes) >= MaxExcludes
  /\ phase' = "too_many"
  /\ UNCHANGED <<exclude_file, config_file, rest, excludes, calls>>

\* Mutation: the program goes on with the excludes it has.
TooManyExcludes_GoOn ==
  /\ phase = "excludes" /\ ~ feof(rest)
  /\ Len(excludes) >= MaxExcludes
  /\ phase' = "top_level"
  /\ rest' = config_file
  /\ UNCHANGED <<exclude_file, config_file, excludes, calls>>

\* exit(7), for a line there is no room for.
TooManyExcludes ==
  /\ phase = "excludes" /\ ~ feof(rest)
  /\ Len(excludes) >= MaxExcludes
  /\ phase' = "too_many"
  /\ UNCHANGED <<exclude_file, config_file, rest, excludes, calls>>

StoreExclude ==
  /\ phase = "excludes" /\ ~ feof(rest)
  /\ Len(excludes) < MaxExcludes
  /\ excludes' = Append(excludes, Stripped(fgets(rest)))
  /\ Advance
  /\ UNCHANGED <<phase, exclude_file, config_file, calls>>

\* feof: what fgets may have read is not used.
ExcludesDone ==
  /\ phase = "excludes" /\ feof(rest)
  /\ phase' = "top_level"
  /\ rest' = config_file
  /\ UNCHANGED <<exclude_file, config_file, excludes, calls>>

\* add_watch(NULL_WD, read_buffer), whose failure is only logged.
AddTopLevel ==
  /\ phase = "top_level" /\ ~ feof(rest)
  /\ calls' = Append(calls, Stripped(fgets(rest)))
  /\ Advance
  /\ UNCHANGED <<phase, exclude_file, config_file, excludes>>

TopLevelDone ==
  /\ phase = "top_level" /\ feof(rest)
  /\ phase' = "loaded"
  /\ UNCHANGED <<exclude_file, config_file, rest, excludes, calls>>

Next ==
  \/ ReadFails \/ TooManyExcludes \/ StoreExclude \/ ExcludesDone
  \/ AddTopLevel \/ TopLevelDone

Spec == Init /\ [][Next]_configVars

-----------------------------------------------------------------------------
(***************************************************************************)
(* Properties, against what a line of a text file is.                      *)
(***************************************************************************)
NewLines(file) == {n \in 1 .. Len(file) : file[n] = NewLine}

\* How many lines end in the first n characters.
Count(file, n) == Cardinality({m \in NewLines(file) : m <= n})

\* The newline that ends the k-th line.
LineEnd(file, k) == CHOOSE n \in NewLines(file) : Count(file, n) = k

\* The lines of a file, each ended by a newline.
Lines(file) ==
  [k \in 1 .. Count(file, Len(file)) |->
     SubSeq(file, IF k = 1 THEN 1 ELSE LineEnd(file, k - 1) + 1, LineEnd(file, k) - 1)]

\* Every line fits in the buffer, with its newline and the '\0'.
LinesFit(file) ==
  \A n \in 0 .. Len(file) - BufferSize + 1 :
    \E m \in n + 1 .. n + BufferSize - 1 : file[m] = NewLine

\* README: the program watches the directories its configuration file lists,
\* but those the exclude file lists.  When lines fit, each line that ends in a
\* newline is used once, in order, and no top-level path is added before
\* all excludes are known.  (A last line without newline is not used.)
LinesUsed ==
  /\ calls # <<>> /\ LinesFit(exclude_file) => excludes = Lines(exclude_file)
  /\ phase = "loaded" /\ LinesFit(config_file) => calls = Lines(config_file)

\* exit(7) is for files with too many lines, and the array is never overrun:
\* MAX_EXCLUDES lines are not too many.
LimitExact ==
  /\ Len(excludes) <= MaxExcludes
  /\ phase = "too_many" /\ LinesFit(exclude_file) =>
       Len(Lines(exclude_file)) > MaxExcludes

\* A blank exclude is a prefix of every path: nothing is watched.  It comes of
\* a blank line, or of a line that fills the buffer to the last character,
\* whose newline the next fgets takes for a line.
BlankExplained ==
  (\E k \in DOMAIN excludes : excludes[k] = <<>>) =>
    \E k \in DOMAIN Lines(exclude_file) :
      Len(Lines(exclude_file)[k]) % (BufferSize - 1) = 0

-----------------------------------------------------------------------------
(***************************************************************************)
(* The invariant of the proofs.                                            *)
(***************************************************************************)
\* The open file has been read up to p, which is in a line that began behind s
\* and came, as far as it is read, in full buffers.  When lines fit, p is the
\* end of a line, and what was used is the lines before it.
ReadUpTo(file, left, used, p, s) ==
  /\ left = SubSeq(file, p + 1, Len(file))
  /\ s <= p /\ (p - s) % (BufferSize - 1) = 0
  /\ s = 0 \/ file[s] = NewLine
  /\ \A n \in s + 1 .. p : file[n] # NewLine
  /\ LinesFit(file) =>
       /\ s = p /\ Len(used) = Count(file, p)
       /\ \A k \in 1 .. Len(used) : used[k] = Lines(file)[k]

Reading(file, left, used) ==
  \E p, s \in 0 .. Len(file) : ReadUpTo(file, left, used, p, s)

ConfigInv ==
  /\ phase \in {"excludes", "top_level", "loaded", "read_error", "too_many"}
  /\ exclude_file \in Seq(Char) /\ config_file \in Seq(Char)
  /\ excludes \in Seq(Seq(Char)) /\ calls \in Seq(Seq(Char))
  /\ phase = "excludes" => Reading(exclude_file, rest, excludes) /\ calls = <<>>
  /\ phase = "top_level" => Reading(config_file, rest, calls)
  /\ phase \in {"top_level", "loaded"} /\ LinesFit(exclude_file) =>
       excludes = Lines(exclude_file)
  /\ LinesUsed /\ LimitExact /\ BlankExplained
=============================================================================
