---------------------------- MODULE MCDirWatcher ----------------------------
(***************************************************************************)
(* Small instances of DirWatcher for TLC.  The program watches the         *)
(* directory t at path /a.                                                 *)
(***************************************************************************)
EXTENDS DirWatcher

CONSTANTS t, x, y, z

MCTopLevel == << <<"a">> >>

\* Nested, the inner directory first.
MCNested == << <<"a", "a">>, <<"a">> >>

MCNone == {}
MCExclB == {<<"a", "b">>}

MCParents == Inode \cup {Root}

MCFlat == {t, Root}

MCDeepX == {t, x, Root}

MCDeepXZ == {t, x, z}

\* t exists, empty.
MCEmpty == [i \in Inode |-> IF i = t THEN <<Root, "a">> ELSE Gone]

\* t and in it x.
MCOne == [i \in Inode |-> CASE i = t -> <<Root, "a">>
                            [] i = x -> <<t, "a">>
                            [] OTHER -> Gone]

\* t and in it x and y.
MCTwo == [i \in Inode |-> CASE i = t -> <<Root, "a">>
                            [] i = x -> <<t, "a">>
                            [] i = y -> <<t, "b">>
                            [] OTHER -> Gone]
=============================================================================
