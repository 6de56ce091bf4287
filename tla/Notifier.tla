------------------------------- MODULE Notifier -------------------------------
(***************************************************************************)
(* What the program promises the Monitor, with nothing of how it does it:  *)
(* a directory in which something was detected is named, with all others   *)
(* detected so far, by the next notification file, and a file nobody has   *)
(* read is replaced by no file of the same incarnation of the program.     *)
(* EventLoop implements it.                                                *)
(***************************************************************************)
EXTENDS Naturals

CONSTANT Dir   \* directories of which something may be detected

VARIABLES
  detected,   \* directories no notification file names yet
  files,      \* the notification directory: number -> file
  life        \* incarnation of the program

\* A notification file.  It is torn if the disk was full when it was written.
File(paths, n, torn) == [paths |-> paths, life |-> n, torn |-> torn]

\* The directory dir with file f under number n, and without it.
Put(dir, n, f) == [m \in DOMAIN dir \cup {n} |-> IF m = n THEN f ELSE dir[m]]
Remove(dir, n) == [m \in DOMAIN dir \ {n} |-> dir[m]]

Init ==
  /\ detected = {}
  /\ files = [n \in {} |-> File({}, 0, FALSE)]
  /\ life = 1

Detect(d) ==
  /\ detected' = detected \cup {d}
  /\ UNCHANGED <<files, life>>

\* One step names everything that was detected.  Only a full disk makes a
\* file that lacks some of it, and then it is lost.
Publish(n, f) ==
  /\ detected # {}
  /\ f.life = life
  /\ IF f.torn THEN f.paths \subseteq detected ELSE f.paths = detected
  /\ n \in DOMAIN files => files[n].life # life
  /\ files' = Put(files, n, f)
  /\ detected' = {}
  /\ UNCHANGED life

Consume(n) ==
  /\ files' = Remove(files, n)
  /\ UNCHANGED <<detected, life>>

\* The end of the program loses what is not in a file, and no file.
Stop ==
  /\ detected' = {}
  /\ UNCHANGED <<files, life>>

Restart ==
  /\ detected = {}
  /\ life' = life + 1
  /\ UNCHANGED <<detected, files>>

Next ==
  \/ \E d \in Dir : Detect(d)
  \/ \E n \in DOMAIN files' : Publish(n, files'[n])
  \/ \E n \in DOMAIN files : Consume(n)
  \/ Stop
  \/ Restart

Spec == Init /\ [][Next]_<<detected, files, life>>
=============================================================================
