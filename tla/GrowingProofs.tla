---------------------------- MODULE GrowingProofs ----------------------------
(***************************************************************************)
(* Theorems about trees that only grow, for every value of DirWatcher's    *)
(* other constants: every directory the program should watch is watched    *)
(* once nothing is pending, the table has it at its path, and nothing that *)
(* is excluded is watched.                                                 *)
(***************************************************************************)
EXTENDS WatchProofs, NumberLemmas

-----------------------------------------------------------------------------
(***************************************************************************)
(* Paths.                                                                  *)
(***************************************************************************)
PathName == EntryName \cup {"(null)"}

\* The function Resolve defines, for a path s.
Steps(s, f) ==
  f = [n \in 0 .. Len(s) |->
         IF n = 0 THEN {Root}
         ELSE {i \in Inode : /\ Attached(i)
                             /\ loc[i][1] \in f[n - 1]
                             /\ loc[i][2] = s[n]}]

\* There is one, up to each length.
LEMMA StepsExist ==
  ASSUME NEW s \in PathType
  PROVE  \E f : Steps(s, f) /\ Resolve(s) = f[Len(s)]
<1> DEFINE Sol(n, f) ==
      f = [m \in 0 .. n |->
             IF m = 0 THEN {Root}
             ELSE {i \in Inode : /\ Attached(i)
                                 /\ loc[i][1] \in f[m - 1]
                                 /\ loc[i][2] = s[m]}]
<1> DEFINE T == {n \in Nat : ~ \E f : Sol(n, f)}
<1>1. ASSUME T # {}
      PROVE  FALSE
  <2>1. T \in SUBSET Nat
    OBVIOUS
  <2>2. PICK n \in T : \A m \in T : n <= m
    <3> HIDE DEF T
    <3> QED
      BY <1>1, <2>1, Least
  <2>3. CASE n = 0
    <3>1. Sol(0, [m \in 0 .. 0 |-> {Root}])
      OBVIOUS
    <3> QED
      BY <2>3, <3>1
  <2>4. CASE n # 0
    <3>1. n - 1 \in Nat /\ n \in Nat /\ ~ (n <= n - 1)
      BY <2>4
    <3>2. \E f : Sol(n - 1, f)
      BY <2>2, <3>1
    <3>3. PICK f : Sol(n - 1, f)
      BY <3>2
    <3> DEFINE last == {i \in Inode : Attached(i) /\ loc[i][1] \in f[n - 1] /\ loc[i][2] = s[n]}
               g == [m \in 0 .. n |-> IF m = n THEN last ELSE f[m]]
    <3>4. ASSUME NEW m \in 0 .. n
          PROVE  g[m] = IF m = 0 THEN {Root}
                        ELSE {i \in Inode : /\ Attached(i)
                                            /\ loc[i][1] \in g[m - 1]
                                            /\ loc[i][2] = s[m]}
      <4>1. CASE m = n
        <5>1. g[m - 1] = f[n - 1] /\ g[m] = last /\ m # 0
          BY <2>4, <3>1, <4>1
        <5> QED
          BY <4>1, <5>1
      <4>2. CASE m # n
        <5>1. m \in 0 .. n - 1 /\ (m # 0 => m - 1 \in 0 .. n /\ m - 1 # n)
          BY <3>1, <4>2
        <5>2. g[m] = f[m] /\ (m # 0 => g[m - 1] = f[m - 1])
          BY <4>2, <5>1
        <5>3. f[m] = IF m = 0 THEN {Root}
                     ELSE {i \in Inode : /\ Attached(i)
                                         /\ loc[i][1] \in f[m - 1]
                                         /\ loc[i][2] = s[m]}
          BY <3>3, <5>1
        <5> HIDE DEF g, Sol
        <5> QED
          BY <5>2, <5>3
      <4> QED
        BY <4>1, <4>2
    <3>5. Sol(n, g)
      BY <3>4
    <3> QED
      BY <3>5
  <2> QED
    BY <2>3, <2>4
<1>2. Len(s) \in Nat
  BY LenProperties DEF PathType
<1>3. \E f : Sol(Len(s), f)
  BY <1>1, <1>2
<1>4. Resolve(s) = (CHOOSE f : Sol(Len(s), f))[Len(s)]
  BY DEF Resolve
<1>5. PICK f : f = (CHOOSE g : Sol(Len(s), g))
  OBVIOUS
<1>6. Sol(Len(s), f)
  <2> HIDE DEF Sol
  <2> QED
    BY <1>3, <1>5
<1> QED
  BY <1>4, <1>5, <1>6 DEF Steps

\* The top of the tree is at the empty path, a child of a directory at that
\* directory's path and its name, and nothing else is anywhere.
ResolveLaw ==
  /\ Resolve(<<>>) = {Root}
  /\ \A s \in PathType : \A n \in PathName :
       Resolve(Append(s, n)) =
         {i \in Inode : Attached(i) /\ loc[i][1] \in Resolve(s) /\ loc[i][2] = n}

\* The recursion of Resolve has the solution its definition asks for.
LEMMA ResolveFacts == ResolveLaw
<1>1. Resolve(<<>>) = {Root}
  <2>1. <<>> \in PathType /\ Len(<<>>) = 0
    BY DEF PathType
  <2>2. PICK f : Steps(<<>>, f) /\ Resolve(<<>>) = f[0]
    BY <2>1, StepsExist
  <2> QED
    BY <2>1, <2>2 DEF Steps
<1>2. ASSUME NEW s \in PathType, NEW n \in PathName
      PROVE  Resolve(Append(s, n)) =
               {i \in Inode : Attached(i) /\ loc[i][1] \in Resolve(s) /\ loc[i][2] = n}
  <2>1. PICK L \in Nat : L = Len(s)
    BY LenProperties DEF PathType
  <2>2. PICK t \in PathType : t = Append(s, n)
    BY AppendProperties DEF PathType, PathName
  <2>3. Len(t) = L + 1 /\ t[L + 1] = n /\ \A k \in 1 .. L : t[k] = s[k]
    BY <2>1, <2>2, AppendProperties DEF PathType, PathName
  <2>4. PICK f : Steps(s, f) /\ Resolve(s) = f[L]
    BY <2>1, StepsExist
  <2>5. PICK g : Steps(t, g) /\ Resolve(t) = g[L + 1]
    BY <2>3, StepsExist
  <2>6. \A k \in 0 .. L : g[k] = f[k]
    <3> DEFINE T == {k \in 0 .. L : g[k] # f[k]}
    <3>1. ASSUME T # {}
          PROVE  FALSE
      <4>1. T \in SUBSET Nat
        BY <2>1
      <4>2. PICK k \in T : \A m \in T : k <= m
        <5> HIDE DEF T
        <5> QED
          BY <3>1, <4>1, Least
      <4>3. k \in 0 .. L /\ k \in 0 .. L + 1 /\ g[k] # f[k]
        BY <4>2
      <4>4. g[0] = {Root} /\ f[0] = {Root}
        BY <2>1, <2>3, <2>4, <2>5 DEF Steps
      <4>5. k # 0
        BY <4>3, <4>4
      <4>6. k \in 1 .. L /\ k - 1 \in 0 .. L /\ ~ (k <= k - 1)
        BY <4>3, <4>5
      <4>7. g[k - 1] = f[k - 1]
        BY <4>2, <4>6
      <4>8. g[k] = {i \in Inode : Attached(i) /\ loc[i][1] \in g[k - 1] /\ loc[i][2] = t[k]}
        BY <2>3, <2>5, <4>3, <4>5 DEF Steps
      <4>9. f[k] = {i \in Inode : Attached(i) /\ loc[i][1] \in f[k - 1] /\ loc[i][2] = s[k]}
        BY <2>1, <2>4, <4>3, <4>5 DEF Steps
      <4>10. t[k] = s[k]
        BY <2>3, <4>6
      <4> QED
        BY <4>3, <4>7, <4>8, <4>9, <4>10
    <3> QED
      BY <3>1
  <2>7. L + 1 \in 0 .. L + 1 /\ L + 1 # 0 /\ L + 1 - 1 = L /\ L \in 0 .. L
    OBVIOUS
  <2>8. g[L + 1] = {i \in Inode : Attached(i) /\ loc[i][1] \in g[L + 1 - 1] /\ loc[i][2] = t[L + 1]}
    BY <2>3, <2>5, <2>7 DEF Steps
  <2>9. g[L + 1] = {i \in Inode : Attached(i) /\ loc[i][1] \in Resolve(s) /\ loc[i][2] = n}
    BY <2>3, <2>4, <2>6, <2>7, <2>8
  <2> QED
    BY <2>2, <2>5, <2>9
<1> QED
  BY <1>1, <1>2 DEF ResolveLaw

\* The same of the tree a step later.
LEMMA ResolveNext == ResolveLaw'
BY ResolveFacts, PTL

\* What is at a path: the root at the empty one, directories below it at the
\* others.
LEMMA ResolveRange ==
  ASSUME NEW s \in PathType
  PROVE  /\ Resolve(s) \subseteq Inode \cup {Root}
         /\ s # <<>> => Resolve(s) \subseteq Inode
         /\ s = <<>> => Resolve(s) = {Root}
<1>1. CASE s = <<>>
  BY <1>1, ResolveFacts DEF ResolveLaw
<1>2. CASE s # <<>>
  <2>1. PICK u \in PathType, a \in PathName : s = Append(u, a)
    BY <1>2, SequenceEmptyOrAppend DEF PathType, PathName
  <2>2. Resolve(s) \subseteq Inode
    BY <2>1, ResolveFacts DEF ResolveLaw
  <2> QED
    BY <1>2, <2>2
<1> QED
  BY <1>1, <1>2

\* A directory is at one path at most.
LEMMA UniquePath ==
  ASSUME NEW s \in PathType, NEW t \in PathType, NEW i \in Inode,
         i \in Resolve(s), i \in Resolve(t)
  PROVE  s = t
<1> DEFINE T == {n \in Nat : \E u, v \in PathType : \E j \in Inode :
                   Len(u) = n /\ j \in Resolve(u) /\ j \in Resolve(v) /\ u # v}
<1>1. ASSUME T # {}
      PROVE  FALSE
  <2>1. T \in SUBSET Nat
    OBVIOUS
  <2>2. PICK n \in T : \A m \in T : n <= m
    <3> HIDE DEF T
    <3> QED
      BY <1>1, <2>1, Least
  <2>3. PICK u \in PathType, v \in PathType, j \in Inode :
          Len(u) = n /\ j \in Resolve(u) /\ j \in Resolve(v) /\ u # v
    BY <2>2
  <2>4. u # <<>> /\ v # <<>>
    BY <2>3, ResolveRange, InotifyAssumption
  <2>5. PICK u1 \in PathType, a \in PathName : u = Append(u1, a)
    BY <2>4, SequenceEmptyOrAppend DEF PathType, PathName
  <2>6. PICK v1 \in PathType, b \in PathName : v = Append(v1, b)
    BY <2>4, SequenceEmptyOrAppend DEF PathType, PathName
  <2>7. loc[j][1] \in Resolve(u1) /\ loc[j][2] = a
    BY <2>3, <2>5, ResolveFacts DEF ResolveLaw
  <2>8. loc[j][1] \in Resolve(v1) /\ loc[j][2] = b
    BY <2>3, <2>6, ResolveFacts DEF ResolveLaw
  <2>9. u1 # v1
    BY <2>3, <2>5, <2>6, <2>7, <2>8
  <2>10. PICK d : d = loc[j][1] /\ d \in Resolve(u1) /\ d \in Resolve(v1)
    BY <2>7, <2>8
  <2>11. d \in Inode
    <3>1. d \in Inode \cup {Root}
      BY <2>10, ResolveRange
    <3>2. d = Root => u1 = <<>> /\ v1 = <<>>
      BY <2>10, ResolveRange, InotifyAssumption
    <3> QED
      BY <2>9, <3>1, <3>2
  <2>12. Len(u) = Len(u1) + 1 /\ Len(u1) \in Nat
    BY <2>5, AppendProperties, LenProperties DEF PathType, PathName
  <2>13. Len(u1) \in T
    BY <2>9, <2>10, <2>11, <2>12
  <2>14. n <= Len(u1)
    BY <2>2, <2>13
  <2> QED
    BY <2>3, <2>12, <2>14
<1>2. Len(s) \in Nat
  BY LenProperties DEF PathType
<1> QED
  BY <1>1, <1>2

\* Where a directory is, is a place.
LEMMA PlaceType ==
  ASSUME FsTypeOK, NEW i \in Inode, Attached(i)
  PROVE  /\ loc[i] \in (Inode \cup {Root}) \X Name
         /\ loc[i] = <<loc[i][1], loc[i][2]>>
BY DEF FsTypeOK, Attached

\* A path leads to one directory at most.
UniqueInodeLaw ==
  FsTypeOK /\ TreeInv =>
    \A s \in PathType : \A i, j \in Resolve(s) : i = j

\* In a tree no path leads to two directories.
LEMMA UniqueInode == UniqueInodeLaw
<1> SUFFICES ASSUME FsTypeOK, TreeInv
             PROVE  \A s \in PathType : \A i, j \in Resolve(s) : i = j
  BY DEF UniqueInodeLaw
<1> DEFINE T == {n \in Nat : \E u \in PathType : Len(u) = n /\ \E i, j \in Resolve(u) : i # j}
<1>1. ASSUME T # {}
      PROVE  FALSE
  <2>1. T \in SUBSET Nat
    OBVIOUS
  <2>2. PICK n \in T : \A m \in T : n <= m
    <3> HIDE DEF T
    <3> QED
      BY <1>1, <2>1, Least
  <2>3. PICK u \in PathType : Len(u) = n /\ \E i, j \in Resolve(u) : i # j
    BY <2>2
  <2>4. PICK i \in Resolve(u), j \in Resolve(u) : i # j
    BY <2>3
  <2>5. u # <<>>
    BY <2>4, ResolveRange
  <2>6. PICK v \in PathType, a \in PathName : u = Append(v, a)
    BY <2>5, SequenceEmptyOrAppend DEF PathType, PathName
  <2>7. Len(u) = Len(v) + 1 /\ Len(v) \in Nat
    BY <2>6, AppendProperties, LenProperties DEF PathType, PathName
  <2>8. /\ i \in Inode /\ Attached(i) /\ loc[i][1] \in Resolve(v) /\ loc[i][2] = a
        /\ j \in Inode /\ Attached(j) /\ loc[j][1] \in Resolve(v) /\ loc[j][2] = a
    BY <2>4, <2>6, ResolveFacts DEF ResolveLaw
  <2>9. loc[i][1] = loc[j][1]
    <3>1. SUFFICES ASSUME loc[i][1] # loc[j][1] PROVE FALSE
      OBVIOUS
    <3>2. Len(v) \in T
      BY <2>7, <2>8, <3>1
    <3>3. n <= Len(v)
      BY <2>2, <3>2
    <3> QED
      BY <2>3, <2>7, <3>3
  <2>10. loc[i] = loc[j]
    BY <2>8, <2>9, PlaceType
  <2>11. loc[i] # Gone
    BY <2>8 DEF Attached
  <2> QED
    BY <2>4, <2>8, <2>10, <2>11 DEF TreeInv
<1>2. ASSUME NEW s \in PathType
      PROVE  \A i, j \in Resolve(s) : i = j
  <2>1. Len(s) \in Nat
    BY LenProperties DEF PathType
  <2> QED
    BY <1>1, <2>1
<1> QED
  BY <1>2

\* The same of the tree a step later.
LEMMA UniqueInodeNext == UniqueInodeLaw'
BY UniqueInode, PTL

\* Directories come, and those that are there stay.
TreeGrows ==
  \A i \in Inode : loc[i] # Gone => loc'[i] = loc[i]

\* What a path leads to, it goes on to lead to.
LEMMA ResolveGrows ==
  ASSUME TreeGrows, NEW s \in PathType
  PROVE  Resolve(s) \subseteq Resolve(s)'
<1> DEFINE T == {n \in Nat : \E u \in PathType : Len(u) = n /\ ~ (Resolve(u) \subseteq Resolve(u)')}
<1>1. ASSUME T # {}
      PROVE  FALSE
  <2>1. T \in SUBSET Nat
    OBVIOUS
  <2>2. PICK n \in T : \A m \in T : n <= m
    <3> HIDE DEF T
    <3> QED
      BY <1>1, <2>1, Least
  <2>3. PICK u \in PathType : Len(u) = n /\ ~ (Resolve(u) \subseteq Resolve(u)')
    BY <2>2
  <2>4. PICK i \in Resolve(u) : i \notin Resolve(u)'
    BY <2>3
  <2>5. u # <<>>
    BY <2>4, ResolveFacts, ResolveNext DEF ResolveLaw
  <2>6. PICK v \in PathType, a \in PathName : u = Append(v, a)
    BY <2>5, SequenceEmptyOrAppend DEF PathType, PathName
  <2>7. Len(u) = Len(v) + 1 /\ Len(v) \in Nat
    BY <2>6, AppendProperties, LenProperties DEF PathType, PathName
  <2>8. i \in Inode /\ Attached(i) /\ loc[i][1] \in Resolve(v) /\ loc[i][2] = a
    BY <2>4, <2>6, ResolveFacts DEF ResolveLaw
  <2>9. loc'[i] = loc[i] /\ Attached(i)'
    BY <2>8 DEF TreeGrows, Attached
  <2>10. Resolve(v) \subseteq Resolve(v)'
    <3>1. SUFFICES ASSUME ~ (Resolve(v) \subseteq Resolve(v)') PROVE FALSE
      OBVIOUS
    <3>2. Len(v) \in T
      BY <2>7, <3>1
    <3>3. n <= Len(v)
      BY <2>2, <3>2
    <3> QED
      BY <2>3, <2>7, <3>3
  <2>11. i \in Resolve(u)'
    BY <2>6, <2>8, <2>9, <2>10, ResolveNext DEF ResolveLaw
  <2> QED
    BY <2>4, <2>11
<1>2. Len(s) \in Nat
  BY LenProperties DEF PathType
<1> QED
  BY <1>1, <1>2

\* As long as the tree stays as it is.
LEMMA ResolveSame ==
  ASSUME loc' = loc, NEW s \in PathType
  PROVE  Resolve(s)' = Resolve(s)
<1> DEFINE T == {n \in Nat : \E u \in PathType : Len(u) = n /\ Resolve(u)' # Resolve(u)}
<1>1. ASSUME T # {}
      PROVE  FALSE
  <2>1. T \in SUBSET Nat
    OBVIOUS
  <2>2. PICK n \in T : \A m \in T : n <= m
    <3> HIDE DEF T
    <3> QED
      BY <1>1, <2>1, Least
  <2>3. PICK u \in PathType : Len(u) = n /\ Resolve(u)' # Resolve(u)
    BY <2>2
  <2>4. u # <<>>
    BY <2>3, ResolveFacts, ResolveNext DEF ResolveLaw
  <2>5. PICK v \in PathType, a \in PathName : u = Append(v, a)
    BY <2>4, SequenceEmptyOrAppend DEF PathType, PathName
  <2>6. Len(u) = Len(v) + 1 /\ Len(v) \in Nat
    BY <2>5, AppendProperties, LenProperties DEF PathType, PathName
  <2>7. Resolve(v)' = Resolve(v)
    <3>1. SUFFICES ASSUME Resolve(v)' # Resolve(v) PROVE FALSE
      OBVIOUS
    <3>2. Len(v) \in T
      BY <2>6, <3>1
    <3>3. n <= Len(v)
      BY <2>2, <3>2
    <3> QED
      BY <2>3, <2>6, <3>3
  <2>8. Resolve(u) = {i \in Inode : Attached(i) /\ loc[i][1] \in Resolve(v) /\ loc[i][2] = a}
    BY <2>5, ResolveFacts DEF ResolveLaw
  <2>9. Resolve(u)' = {i \in Inode : Attached(i)' /\ loc'[i][1] \in Resolve(v)' /\ loc'[i][2] = a}
    BY <2>5, ResolveNext DEF ResolveLaw
  <2>10. \A i \in Inode : Attached(i)' = Attached(i)
    BY DEF Attached
  <2> QED
    BY <2>3, <2>7, <2>8, <2>9, <2>10
<1>2. Len(s) \in Nat
  BY LenProperties DEF PathType
<1> QED
  BY <1>1, <1>2

-----------------------------------------------------------------------------
(***************************************************************************)
(* What the invariant says of one row and of one call.                     *)
(***************************************************************************)

\* The directory a row is of is at the row's path, and so is no other; the
\* row of a directory is the only one at its path.
LEMMA RowFacts ==
  ASSUME IInv, TreeInv, TableInv, NEW r \in rows
  PROVE  /\ r.wd \in Nat \ {NULL_WD} /\ r.path \in PathType /\ r.path # <<>>
         /\ \A d \in Inode : watch[d] = r.wd => d \in Resolve(r.path)
         /\ \A d \in Resolve(r.path) : d \in Inode /\ watch[d] = r.wd
<1>1. r.wd \in Nat \ {NULL_WD} /\ r.path \in PathType
  BY DEF IInv, TypeOK, RowType
<1>2. PICK i \in Inode : watch[i] = r.wd /\ i \in Resolve(r.path)
  BY DEF TableInv
<1>3. r.path # <<>>
  BY <1>1, <1>2, ResolveRange, InotifyAssumption
<1>4. ASSUME NEW d \in Inode, watch[d] = r.wd
      PROVE  d \in Resolve(r.path)
  <2>1. d = i
    BY <1>1, <1>2, <1>4 DEF IInv, WdInv, NULL_WD
  <2> QED
    BY <1>2, <2>1
<1>5. ASSUME NEW d \in Resolve(r.path)
      PROVE  d \in Inode /\ watch[d] = r.wd
  <2>1. d = i
    BY <1>1, <1>2, UniqueInode DEF UniqueInodeLaw, IInv, TypeOK
  <2> QED
    BY <1>2, <2>1
<1> QED
  BY <1>1, <1>3, <1>4, <1>5

\* A directory in a watched one is at the path add_watch gives it.
LEMMA ChildFacts ==
  ASSUME IInv, TreeInv, TableInv, NEW r \in rows, NEW d \in Inode, watch[d] = r.wd,
         NEW i \in Children(d)
  PROVE  /\ i \in Inode /\ Attached(i) /\ loc[i][2] \in Name
         /\ Append(r.path, loc[i][2]) \in PathType
         /\ i \in Resolve(Append(r.path, loc[i][2]))
<1>1. i \in Inode /\ Attached(i) /\ loc[i][1] = d
  BY DEF Children
<1>2. loc[i][2] \in Name
  BY <1>1, PlaceType DEF IInv, TypeOK
<1>3. r.path \in PathType /\ d \in Resolve(r.path)
  BY RowFacts
<1>4. loc[i][2] \in PathName
  BY <1>2 DEF PathName, EntryName
<1>5. Append(r.path, loc[i][2]) \in PathType
  BY <1>3, <1>4, AppendProperties DEF PathType, PathName
<1>6. i \in Resolve(Append(r.path, loc[i][2]))
  BY <1>1, <1>3, <1>4, ResolveFacts DEF ResolveLaw
<1> QED
  BY <1>1, <1>2, <1>5, <1>6

\* A path of the table, or of the configuration, is a path.
LEMMA TopLevelType ==
  ASSUME NEW k \in DOMAIN TopLevel
  PROVE  TopLevel[k] \in PathType /\ TopLevel[k] # <<>>
<1>1. k \in 1 .. Len(TopLevel)
  BY DirWatcherAssumption, LenProperties
<1>2. TopLevel[k] \in Seq(Name) \ {<<>>}
  BY <1>1, DirWatcherAssumption, ElementOfSeq
<1>3. TopLevel[k] \in PathType
  BY <1>2, SeqMonotonic DEF PathType, EntryName
<1> QED
  BY <1>2, <1>3

\* The memo of process_inotify_events finds the path of the event's watch.
LEMMA MemoFacts ==
  ASSUME IInv, EventInv, NEW e, buf # <<>>, e = Head(buf), Dispatch(e), e # Overflow
  PROVE  /\ e \in EventType /\ e.mask \in GrowMasks /\ prev_wd' = e.wd
         /\ \E r \in rows : r.wd = e.wd /\ r.path = parent_dir_p'
<1>1. buf \in Seq(EventType) /\ rows \subseteq RowType
  BY DEF IInv, TypeOK
<1>2. 1 \in 1 .. Len(buf) /\ e = buf[1] /\ e \in EventType
  <2>1. Len(buf) \in Nat /\ Len(buf) # 0
    BY <1>1, EmptySeq, LenProperties
  <2>2. 1 \in 1 .. Len(buf)
    BY <2>1
  <2> QED
    BY <1>1, <2>2, ElementOfSeq
<1>3. e.mask \in GrowMasks /\ wd_directory_exists(rows, e.wd)
  BY <1>2 DEF EventInv, Grows
<1>4. PICK r \in rows : r.wd = e.wd
  BY <1>3 DEF wd_directory_exists
<1>5. r.wd # NULL_WD
  BY <1>1, <1>4 DEF RowType
<1>6. parent_dir_p' = ParentDir(e) /\ prev_wd' = e.wd
  BY DEF Dispatch
<1>7. \E q \in rows : q.wd = e.wd /\ q.path = parent_dir_p'
  <2>1. CASE e.wd = prev_wd
    <3>1. prev_wd # NULL_WD /\ parent_dir_p' = parent_dir_p
      BY <1>4, <1>5, <1>6, <2>1 DEF ParentDir
    <3> QED
      BY <2>1, <3>1 DEF EventInv
  <2>2. CASE e.wd # prev_wd
    <3>1. PICK q : q = (CHOOSE w \in rows : w.wd = e.wd)
      OBVIOUS
    <3>2. q \in rows /\ q.wd = e.wd
      BY <1>4, <3>1
    <3>3. parent_dir_p' = find_wd_directory(rows, e.wd)
      BY <1>6, <2>2 DEF ParentDir
    <3>4. find_wd_directory(rows, e.wd) = q.path
      BY <1>3, <3>1 DEF find_wd_directory
    <3> QED
      BY <3>2, <3>3, <3>4
  <2> QED
    BY <2>1, <2>2
<1> QED
  BY <1>2, <1>3, <1>6, <1>7

-----------------------------------------------------------------------------
(***************************************************************************)
(* Steps that leave the tree, the watches and the table alone.             *)
(***************************************************************************)
Settled == UNCHANGED <<loc, watch, rows>>

\* They keep what is about these, and directories keep their paths.
LEMMA SettledKeeps ==
  ASSUME IInv, WatchedInv, Settled
  PROVE  /\ TreeInv' /\ TableInv'
         /\ \A r \in rows' : LinkedTo(r.parent_wd, r.path)'
         /\ \A wd, path : LinkedTo(wd, path)' = LinkedTo(wd, path)
         /\ \A e : Grows(e)' = Grows(e)
         /\ \A i, path : Watched(i, path)' = Watched(i, path)
         /\ \A k \in DOMAIN TopLevel : Resolve(TopLevel[k])' = Resolve(TopLevel[k])
         /\ \A d : Children(d)' = Children(d)
<1>1. TreeInv'
  BY DEF WatchedInv, Settled, TreeInv, Attached
<1>2. TableInv'
  <2>1. ASSUME NEW r \in rows
        PROVE  \E i \in Inode : watch'[i] = r.wd /\ i \in Resolve(r.path)'
    <3>1. r.path \in PathType
      BY DEF IInv, TypeOK, RowType
    <3>2. Resolve(r.path)' = Resolve(r.path)
      BY <3>1, ResolveSame DEF Settled
    <3> QED
      BY <3>2 DEF WatchedInv, TableInv, Settled
  <2> QED
    BY <2>1 DEF WatchedInv, TableInv, Settled
<1>3. \A wd, path : LinkedTo(wd, path)' = LinkedTo(wd, path)
  BY DEF Settled, LinkedTo
<1>4. \A r \in rows' : LinkedTo(r.parent_wd, r.path)'
  BY <1>3 DEF Settled, WatchedInv, LinkInv
<1>5. \A e : Grows(e)' = Grows(e)
  BY DEF Settled, Grows
<1>6. \A i, path : Watched(i, path)' = Watched(i, path)
  BY DEF Settled, Watched
<1>7. \A k \in DOMAIN TopLevel : Resolve(TopLevel[k])' = Resolve(TopLevel[k])
  BY TopLevelType, ResolveSame DEF Settled
<1>8. \A d : Children(d)' = Children(d)
  BY DEF Settled, Children, Attached
<1> QED
  BY <1>1, <1>2, <1>3, <1>4, <1>5, <1>6, <1>7, <1>8

\* If besides each call that goes away is done with, and nothing that was
\* announced is forgotten, they keep what is about all directories.
LEMMA SettledAccounts ==
  ASSUME IInv, WatchedInv, Settled,
         \A path \in PathType : \A i \in Resolve(path) :
           i \in Inode /\ Accounted(i, path) => Accounted(i, path)'
  PROVE  /\ TopLevelInv'
         /\ \/ Pending(Overflow) \/ Stopped
            \/ \A r \in rows' : \A d \in Inode : watch'[d] = r.wd =>
                 \A i \in Children(d)' :
                   \/ Accounted(i, Append(r.path, loc[i][2]))'
                   \/ Announced(r.wd, loc[i][2])
                   \/ pc = "list" /\ r.wd = watch_descriptor
<1>1. TopLevelInv'
  <2>1. TopLevelExists'
    BY SettledKeeps DEF WatchedInv, TopLevelInv, TopLevelExists
  <2>2. ASSUME NEW k \in DOMAIN TopLevel, NEW i \in Resolve(TopLevel[k])'
        PROVE  Accounted(i, TopLevel[k])'
    <3>1. i \in Resolve(TopLevel[k]) /\ TopLevel[k] \in PathType /\ TopLevel[k] # <<>>
      BY SettledKeeps, TopLevelType
    <3>2. i \in Inode
      BY <3>1, ResolveRange
    <3>3. Accounted(i, TopLevel[k])
      BY <3>1 DEF WatchedInv, TopLevelInv
    <3> QED
      BY <3>1, <3>2, <3>3
  <2> QED
    BY <2>1, <2>2 DEF TopLevelInv
<1>2. SUFFICES ASSUME ~ Pending(Overflow), ~ Stopped,
                      NEW r \in rows', NEW d \in Inode, watch'[d] = r.wd,
                      NEW i \in Children(d)'
               PROVE  \/ Accounted(i, Append(r.path, loc[i][2]))'
                      \/ Announced(r.wd, loc[i][2])
                      \/ pc = "list" /\ r.wd = watch_descriptor
  BY <1>1
<1>3. r \in rows /\ watch[d] = r.wd /\ i \in Children(d) /\ loc'[i] = loc[i]
  BY <1>2, SettledKeeps DEF Settled
<1>4. PICK path : path = Append(r.path, loc[i][2])
  OBVIOUS
<1>5. path \in PathType /\ i \in Resolve(path) /\ i \in Inode
  BY <1>3, <1>4, ChildFacts DEF WatchedInv
<1>6. \/ Accounted(i, path)
      \/ Announced(r.wd, loc[i][2])
      \/ pc = "list" /\ r.wd = watch_descriptor
  BY <1>2, <1>3, <1>4 DEF WatchedInv, ChildrenInv
<1>7. Accounted(i, path) => Accounted(i, path)'
  BY <1>5
<1>8. Accounted(i, path)' => Accounted(i, Append(r.path, loc[i][2]))'
  <2>1. path = Append(r.path, loc'[i][2])
    BY <1>3, <1>4
  <2> QED
    BY <2>1 DEF Accounted, Watched
<1> QED
  BY <1>6, <1>7, <1>8

\* Of the invariant that leaves the three parts that differ from step to step.
LEMMA SettledInv ==
  ASSUME IInv, WatchedInv, Settled,
         \A path \in PathType : \A i \in Resolve(path) :
           i \in Inode /\ Accounted(i, path) => Accounted(i, path)',
         EventInv', CallInv',
         \A n \in 1 .. Len(calls') : LinkedTo(calls'[n].parent_wd, calls'[n].path),
         ChildrenInv'
  PROVE  WatchedInv'
<1>1. TreeInv' /\ TableInv'
  BY SettledKeeps
<1>2. LinkInv'
  BY SettledKeeps DEF LinkInv
<1>3. TopLevelInv'
  BY SettledAccounts
<1> QED
  BY <1>1, <1>2, <1>3 DEF WatchedInv

\* Steps that do nothing but go on, or end the program.
LEMMA SameGrows ==
  ASSUME IInv, WatchedInv, Settled,
         UNCHANGED <<queue, buf, calls, prev_wd, parent_dir_p, watch_descriptor>>,
         \/ pc' = pc
         \/ pc = "add" /\ pc' = "idle" /\ buf = <<>> /\ calls = <<>>
         \/ Stopped'
  PROVE  WatchedInv'
<1>1. \A path \in PathType : \A i \in Resolve(path) :
        i \in Inode /\ Accounted(i, path) => Accounted(i, path)'
  BY SettledKeeps DEF Accounted
<1>2. EventInv'
  BY SettledKeeps DEF WatchedInv, EventInv, Settled
<1>3. CallInv'
  BY DEF WatchedInv, CallInv, Settled, Stopped
<1>4. \A n \in 1 .. Len(calls') : LinkedTo(calls'[n].parent_wd, calls'[n].path)
  BY DEF WatchedInv, LinkInv
<1>5. ChildrenInv'
  <2>1. CASE Stopped'
    BY <2>1 DEF ChildrenInv
  <2>2. CASE ~ (Stopped')
    <3>1. Stopped => Stopped'
      BY <2>2 DEF Stopped
    <3>2. Pending(Overflow) => Pending(Overflow)'
      BY DEF Pending, Queued
    <3>3. Ahead' = Ahead
      BY <2>2 DEF Ahead
    <3>4. \A wd, name : Announced(wd, name) => Announced(wd, name)'
      BY <3>3 DEF Announced, Queued
    <3>5. pc = "list" => pc' = "list"
      BY <2>2
    <3> QED
      BY <1>1, <3>1, <3>2, <3>4, <3>5, SettledAccounts, SettledKeeps DEF ChildrenInv, Settled
  <2> QED
    BY <2>1, <2>2
<1> QED
  BY <1>1, <1>2, <1>3, <1>4, <1>5, SettledInv

\* An event that is not of a new directory, or whose calls were all made, is
\* done with.
LEMMA PopGrows ==
  ASSUME IInv, WatchedInv, Settled, UNCHANGED <<queue, calls>>,
         buf # <<>>, calls = <<>>, NextEvent, Head(buf) # Overflow,
         \/ pc = "add" /\ UNCHANGED <<prev_wd, parent_dir_p>>
         \/ Dispatch(Head(buf)) /\ Head(buf).mask # {"IN_CREATE", "IN_ISDIR"}
  PROVE  WatchedInv'
<1>1. \A path \in PathType : \A i \in Resolve(path) :
        i \in Inode /\ Accounted(i, path) => Accounted(i, path)'
  BY SettledKeeps DEF Accounted
<1>2. TypeInv
  BY DEF IInv, TypeInv
<1>3. EventInv'
  <2>1. \A e : Queued(buf', e) => Queued(buf, e)
    BY <1>2, NextEventFacts
  <2>2. \A n \in 1 .. Len(buf') : Queued(buf, buf'[n])
    BY <2>1 DEF Queued
  <2>3. \A n \in 1 .. Len(buf') : Grows(buf'[n])
    BY <2>2 DEF Queued, WatchedInv, EventInv
  <2>4. prev_wd' # NULL_WD => \E r \in rows : r.wd = prev_wd' /\ r.path = parent_dir_p'
    BY MemoFacts DEF WatchedInv, EventInv
  <2> QED
    BY <2>3, <2>4, SettledKeeps DEF WatchedInv, EventInv, Settled
<1>4. pc' \in {"idle", "dispatch"} /\ pc \in {"add", "dispatch"}
  BY DEF NextEvent, Dispatch
<1>5. CallInv'
  BY <1>4 DEF CallInv
<1>6. \A n \in 1 .. Len(calls') : LinkedTo(calls'[n].parent_wd, calls'[n].path)
  BY DEF WatchedInv, LinkInv
<1>7. ChildrenInv'
  <2>1. ~ Stopped /\ pc # "list"
    BY <1>4 DEF Stopped
  <2>2. Pending(Overflow) => Pending(Overflow)'
    BY <1>2, NextEventFacts DEF Pending, Queued
  <2>3. \A wd, name : Announced(wd, name) => Announced(wd, name)'
    <3> SUFFICES ASSUME NEW wd, NEW name, NEW e,
                        e = Event(wd, {"IN_CREATE", "IN_ISDIR"}, 0, name),
                        Queued(Ahead, e)
                 PROVE  Queued(Ahead', e)
      BY DEF Announced, Queued
    <3>1. Ahead' = Tail(buf) /\ buf' = Tail(buf)
      <4>1. pc' = "dispatch" \/ buf' = <<>>
        BY <1>2, NextEventType DEF TypeInv, NextEvent
      <4> QED
        BY <4>1 DEF Ahead, NextEvent
    <3>2. CASE pc = "add"
      BY <3>1, <3>2 DEF Ahead
    <3>3. CASE pc # "add"
      <4>1. Queued(buf, e) /\ e # Head(buf)
        BY <1>4, <3>3 DEF Ahead, Event
      <4> QED
        BY <1>2, <3>1, <4>1, NextEventFacts
    <3> QED
      BY <3>2, <3>3
  <2> QED
    BY <1>1, <2>1, <2>2, <2>3, SettledAccounts, SettledKeeps DEF ChildrenInv, Settled
<1> QED
  BY <1>1, <1>3, <1>5, <1>6, <1>7, SettledInv

\* A read leaves events ahead, in the order it found them.
LEMMA ReadGrows ==
  ASSUME IInv, WatchedInv, ReadEvents
  PROVE  WatchedInv'
<1>1. /\ Settled /\ UNCHANGED <<calls, watch_descriptor>>
      /\ pc = "idle" /\ buf = <<>> /\ pc' = "dispatch"
      /\ prev_wd' = NULL_WD
  BY DEF ReadEvents, Settled, IInv, ControlInv
<1>2. TypeInv
  BY DEF IInv, TypeInv
<1>3. \A e : Queued(queue, e) <=> Queued(buf', e) \/ Queued(queue', e)
  BY <1>2, ReadFacts
<1>4. \A path \in PathType : \A i \in Resolve(path) :
        i \in Inode /\ Accounted(i, path) => Accounted(i, path)'
  BY <1>1, SettledKeeps DEF Accounted
<1>5. EventInv'
  <2>1. /\ \A n \in 1 .. Len(queue') : Queued(queue, queue'[n])
        /\ \A n \in 1 .. Len(buf') : Queued(queue, buf'[n])
    BY <1>3 DEF Queued
  <2>2. \A e : Queued(queue, e) => Grows(e)
    BY DEF Queued, WatchedInv, EventInv
  <2> QED
    BY <1>1, <2>1, <2>2, SettledKeeps DEF EventInv
<1>6. CallInv'
  BY <1>1 DEF CallInv, WatchedInv
<1>7. \A n \in 1 .. Len(calls') : LinkedTo(calls'[n].parent_wd, calls'[n].path)
  BY <1>1 DEF WatchedInv, LinkInv
<1>8. ChildrenInv'
  <2>1. ~ Stopped /\ pc # "list"
    BY <1>1 DEF Stopped
  <2>2. \A e : ~ Queued(buf, e)
    BY <1>1 DEF Queued
  <2>3. \A e : Queued(queue, e) <=> Queued(buf, e)' \/ Queued(queue, e)'
    BY <1>3 DEF Queued
  <2>4. Pending(Overflow) => Pending(Overflow)'
    BY <2>2, <2>3 DEF Pending, Overflow, Event
  <2>5. Ahead = buf /\ Ahead' = buf'
    BY <1>1 DEF Ahead
  <2>6. \A wd, name : Announced(wd, name) => Announced(wd, name)'
    BY <1>3, <2>2, <2>5 DEF Announced, Queued
  <2> QED
    BY <1>1, <1>4, <2>1, <2>4, <2>6, SettledAccounts, SettledKeeps DEF ChildrenInv, Settled
<1> QED
  BY <1>1, <1>4, <1>5, <1>6, <1>7, <1>8, SettledInv

\* What is in a sequence is its first element or in the rest.
LEMMA TailFacts ==
  ASSUME NEW S, NEW q \in Seq(S), q # <<>>
  PROVE  /\ Len(q) \in Nat \ {0} /\ Head(q) = q[1]
         /\ Len(Tail(q)) = Len(q) - 1
         /\ \A n \in 1 .. Len(q) : n = 1 \/ (n - 1 \in 1 .. Len(Tail(q)) /\ Tail(q)[n - 1] = q[n])
         /\ \A n \in 1 .. Len(Tail(q)) : n + 1 \in 1 .. Len(q) /\ Tail(q)[n] = q[n + 1]
<1>1. Len(q) \in Nat /\ Len(q) # 0 /\ Head(q) = q[1]
  BY EmptySeq, LenProperties
<1>2. Len(Tail(q)) = Len(q) - 1 /\ \A n \in 1 .. Len(Tail(q)) : Tail(q)[n] = q[n + 1]
  BY HeadTailProperties
<1>3. ASSUME NEW n \in 1 .. Len(q), n # 1
      PROVE  n - 1 \in 1 .. Len(Tail(q)) /\ Tail(q)[n - 1] = q[n]
  <2>1. n - 1 \in 1 .. Len(Tail(q)) /\ n - 1 + 1 = n
    BY <1>1, <1>2, <1>3
  <2>2. Tail(q)[n - 1] = q[n - 1 + 1]
    BY <1>2, <2>1
  <2> QED
    BY <2>1, <2>2
<1>4. \A n \in 1 .. Len(Tail(q)) : n + 1 \in 1 .. Len(q)
  BY <1>1, <1>2
<1> QED
  BY <1>1, <1>2, <1>3, <1>4

\* A path and a name make the path of an entry.
LEMMA JoinFacts ==
  ASSUME NEW path \in PathType, path # <<>>, NEW name \in EntryName
  PROVE  /\ Join(path, name) = Append(path, name)
         /\ Append(path, name) \in PathType
         /\ Append(path, name)[Len(Append(path, name))] = name
<1>1. name \in EntryName \cup {"(null)"}
  OBVIOUS
<1>2. Join(path, name) = Append(path, name)
  BY DEF Join, NULL_PATH
<1>3. Append(path, name) \in PathType
  BY <1>1, AppendProperties DEF PathType
<1>4. /\ Len(Append(path, name)) = Len(path) + 1
      /\ Append(path, name)[Len(path) + 1] = name
  BY <1>1, AppendProperties DEF PathType
<1> QED
  BY <1>2, <1>3, <1>4

\* The event of a new directory becomes the call to watch it.
LEMMA CreateGrows ==
  ASSUME IInv, WatchedInv, NEW e, buf # <<>>, e = Head(buf), HandleCreateDir(e)
  PROVE  WatchedInv'
<1>1. /\ Settled /\ UNCHANGED <<queue, buf, watch_descriptor>>
      /\ Dispatch(e) /\ pc = "dispatch" /\ pc' = "add"
      /\ {"IN_CREATE", "IN_ISDIR"} \subseteq e.mask
      /\ calls' = <<Call(e.wd, Join(parent_dir_p', e.name))>>
  BY DEF HandleCreateDir, Dispatch, Settled, fsVars
<1>2. e # Overflow
  BY <1>1, IgnoredMask
<1>3. e \in EventType /\ e.mask \in GrowMasks /\ prev_wd' = e.wd
  BY <1>1, <1>2, MemoFacts DEF WatchedInv
<1>4. PICK r \in rows : r.wd = e.wd /\ r.path = parent_dir_p'
  BY <1>1, <1>2, MemoFacts DEF WatchedInv
<1>5. r.path \in PathType /\ r.path # <<>>
  BY RowFacts DEF WatchedInv
<1>6. PICK path : path = Append(r.path, e.name)
  OBVIOUS
<1>7. /\ Join(parent_dir_p', e.name) = path
      /\ path[Len(path)] = e.name
  BY <1>3, <1>4, <1>5, <1>6, JoinFacts DEF EventType
<1>8. Len(calls') = 1 /\ calls'[1] = Call(e.wd, path)
  BY <1>1, <1>7
<1>9. \A q \in PathType : \A i \in Resolve(q) :
        i \in Inode /\ Accounted(i, q) => Accounted(i, q)'
  <2>1. calls = <<>> /\ Len(calls) = 0
    BY <1>1 DEF WatchedInv, CallInv
  <2> QED
    BY <1>1, <2>1, SettledKeeps DEF Accounted
<1>10. EventInv'
  <2>1. \E q \in rows : q.wd = prev_wd' /\ q.path = parent_dir_p'
    BY <1>3, <1>4
  <2> QED
    BY <1>1, <2>1, SettledKeeps DEF WatchedInv, EventInv, Settled
<1>11. CallInv'
  BY <1>1 DEF CallInv
<1>12. \A n \in 1 .. Len(calls') : LinkedTo(calls'[n].parent_wd, calls'[n].path)
  BY <1>4, <1>6, <1>7, <1>8 DEF LinkedTo, Call
<1>13. ChildrenInv'
  <2>1. ~ Stopped /\ pc # "list"
    BY <1>1 DEF Stopped
  <2>2. Pending(Overflow) => Pending(Overflow)'
    BY <1>1 DEF Pending, Queued
  <2>3. Ahead = buf /\ Ahead' = Tail(buf)
    BY <1>1 DEF Ahead
  <2>4. ASSUME NEW wd, NEW name, Announced(wd, name)
        PROVE  Announced(wd, name)' \/ (wd = e.wd /\ name = e.name)
    <3>1. PICK ev : ev = Event(wd, {"IN_CREATE", "IN_ISDIR"}, 0, name)
      OBVIOUS
    <3>2. ev = e \/ Queued(Tail(buf), ev) \/ Queued(queue, ev)
      <4>1. buf \in Seq(EventType)
        BY DEF IInv, TypeOK
      <4> QED
        BY <2>3, <2>4, <3>1, <4>1, TailFacts DEF Announced, Queued
    <3>3. ev = e => wd = e.wd /\ name = e.name
      BY <3>1 DEF Event
    <3>4. Queued(Tail(buf), ev) \/ Queued(queue, ev) => Announced(wd, name)'
      BY <1>1, <2>3, <3>1 DEF Announced, Queued
    <3> QED
      BY <3>2, <3>3, <3>4
  <2>5. ASSUME NEW q \in rows', q.wd = e.wd, NEW i
        PROVE  Accounted(i, Append(q.path, e.name))'
    <3>1. q = r
      BY <1>1, <1>4, <2>5 DEF Settled, IInv, KeyInv
    <3>2. 1 \in 1 .. Len(calls') /\ calls'[1].path = Append(q.path, e.name)
      BY <1>6, <1>8, <3>1 DEF Call
    <3> QED
      BY <3>2 DEF Accounted
  <2> QED
    BY <1>1, <1>9, <2>1, <2>2, <2>4, <2>5, SettledAccounts, SettledKeeps DEF ChildrenInv, Settled
<1> QED
  BY <1>1, <1>9, <1>10, <1>11, <1>12, <1>13, SettledInv

\* A path add_watch makes no watch for is declined, or watched already.
LEMMA DeclinedGrows ==
  ASSUME Growing, IInv, WatchedInv, AddWatchDeclined
  PROVE  WatchedInv'
<1>1. /\ Settled
      /\ UNCHANGED <<queue, buf, pc, prev_wd, parent_dir_p, watch_descriptor>>
      /\ pc = "add" /\ calls # <<>> /\ calls' = Tail(calls)
  BY DEF AddWatchDeclined, Settled, fsVars
<1>2. PICK path : path = Head(calls).path
  OBVIOUS
<1>3. \/ Declined(path)
      \/ find_directory_wd(rows, path) # NULL_WD
      \/ Resolve(path) = {}
  BY <1>2 DEF AddWatchDeclined, Declined, Growing
<1>4. calls \in Seq(CallType) /\ rows \in SUBSET RowType
  BY DEF IInv, TypeOK
<1>5. /\ Len(calls) \in Nat \ {0} /\ Head(calls) = calls[1]
      /\ \A n \in 1 .. Len(calls) :
           n = 1 \/ (n - 1 \in 1 .. Len(calls') /\ calls'[n - 1] = calls[n])
      /\ \A n \in 1 .. Len(calls') : n + 1 \in 1 .. Len(calls) /\ calls'[n] = calls[n + 1]
  BY <1>1, <1>4, TailFacts
<1>6. ASSUME NEW q \in PathType, NEW i \in Resolve(q), i \in Inode, Accounted(i, q)
      PROVE  Accounted(i, q)'
  <2>1. CASE Declined(q) \/ Watched(i, q)
    BY <2>1, <1>1, SettledKeeps DEF Accounted
  <2>2. CASE q = path
    <3>1. Resolve(path) # {}
      BY <1>6, <2>2
    <3>2. CASE find_directory_wd(rows, path) # NULL_WD
      <4>1. PICK r \in rows : r.path = path
        BY <1>4, <3>2, FindType
      <4>2. watch[i] = r.wd
        BY <1>6, <2>2, <4>1, RowFacts DEF WatchedInv
      <4>3. Watched(i, q)
        BY <2>2, <4>1, <4>2 DEF Watched
      <4> QED
        BY <1>1, <4>3, SettledKeeps DEF Accounted
    <3>3. CASE Declined(path)
      BY <2>1, <2>2, <3>3
    <3> QED
      BY <1>3, <3>1, <3>2, <3>3
  <2>3. CASE q # path /\ \E n \in 1 .. Len(calls) : calls[n].path = q
    <3>1. PICK n \in 1 .. Len(calls) : calls[n].path = q
      BY <2>3
    <3>2. n - 1 \in 1 .. Len(calls') /\ calls'[n - 1].path = q
      BY <1>2, <1>5, <2>3, <3>1
    <3> QED
      BY <3>2 DEF Accounted
  <2> QED
    BY <1>6, <2>1, <2>2, <2>3 DEF Accounted
<1>7. EventInv'
  BY <1>1, SettledKeeps DEF WatchedInv, EventInv, Settled
<1>8. CallInv'
  BY <1>1 DEF CallInv
<1>9. \A n \in 1 .. Len(calls') : LinkedTo(calls'[n].parent_wd, calls'[n].path)
  BY <1>5 DEF WatchedInv, LinkInv
<1>10. ChildrenInv'
  <2>1. Stopped => Stopped'
    BY <1>1 DEF Stopped
  <2>2. Pending(Overflow) => Pending(Overflow)'
    BY <1>1 DEF Pending, Queued
  <2>3. Ahead' = Ahead
    BY <1>1 DEF Ahead
  <2>4. \A wd, name : Announced(wd, name) => Announced(wd, name)'
    BY <1>1, <2>3 DEF Announced, Queued
  <2> QED
    BY <1>1, <1>6, <2>1, <2>2, <2>4, SettledAccounts, SettledKeeps DEF ChildrenInv, Settled
<1> QED
  BY <1>1, <1>6, <1>7, <1>8, <1>9, <1>10, SettledInv

\* What is in one of two sequences is in both put together, and nothing else.
Joined(u, s, t) ==
  /\ \A n \in 1 .. Len(s) : \E k \in 1 .. Len(u) : u[k] = s[n]
  /\ \A n \in 1 .. Len(t) : \E k \in 1 .. Len(u) : u[k] = t[n]
  /\ \A k \in 1 .. Len(u) : \/ \E n \in 1 .. Len(s) : u[k] = s[n]
                           \/ \E n \in 1 .. Len(t) : u[k] = t[n]

\* Where the elements of two sequences are when they are put together.
LEMMA ConcatPlaces ==
  ASSUME NEW S, NEW s \in Seq(S), NEW t \in Seq(S), NEW u, u = s \o t
  PROVE  Joined(u, s, t)
<1>1. PICK l \in Nat, m \in Nat : l = Len(s) /\ m = Len(t)
  BY LenProperties
<1>3. Len(u) = l + m /\ \A k \in 1 .. l + m : u[k] = IF k <= l THEN s[k] ELSE t[k - l]
  BY <1>1, ConcatProperties
<1>4. \A n \in 1 .. l : n \in 1 .. l + m /\ u[n] = s[n]
  BY <1>3
<1>5. ASSUME NEW n \in 1 .. m
      PROVE  n + l \in 1 .. l + m /\ u[n + l] = t[n]
  <2>1. n + l \in 1 .. l + m /\ ~ (n + l <= l) /\ n + l - l = n
    BY <1>5
  <2>2. u[n + l] = t[n + l - l]
    BY <1>3, <2>1
  <2> QED
    BY <2>1, <2>2
<1>6. ASSUME NEW k \in 1 .. l + m
      PROVE  \/ \E n \in 1 .. l : u[k] = s[n]
             \/ \E n \in 1 .. m : u[k] = t[n]
  <2>1. CASE k <= l
    BY <1>3, <2>1
  <2>2. CASE ~ (k <= l)
    <3>1. k - l \in 1 .. m /\ u[k] = t[k - l]
      BY <1>3, <2>2
    <3> QED
      BY <3>1
  <2> QED
    BY <2>1, <2>2
<1> QED
  BY <1>1, <1>3, <1>4, <1>5, <1>6 DEF Joined

\* add_watch recurses into each sub-directory that is there.
LEMMA ListGrows ==
  ASSUME IInv, WatchedInv, ListSubDirs
  PROVE  WatchedInv'
<1>1. /\ Settled
      /\ UNCHANGED <<queue, buf, prev_wd, parent_dir_p>>
      /\ pc = "list" /\ pc' = "add" /\ calls # <<>>
  BY DEF ListSubDirs, Settled, fsVars, IInv, ControlInv
<1>2. PICK r \in rows : r.wd = watch_descriptor /\ r.path = Head(calls).path
  BY <1>1 DEF WatchedInv, CallInv
<1>3. /\ r.path \in PathType /\ r.path # <<>>
      /\ \A d \in Inode : watch[d] = r.wd => d \in Resolve(r.path)
      /\ \A d \in Resolve(r.path) : d \in Inode /\ watch[d] = r.wd
  BY RowFacts DEF WatchedInv
<1> DEFINE subs == UNION {Children(d) : d \in Resolve(r.path)}
<1>4. PICK order \in [1 .. Cardinality(subs) -> subs] :
        /\ subs \subseteq {order[k] : k \in DOMAIN order}
        /\ calls' = [k \in 1 .. Cardinality(subs) |->
                       Call(r.wd, Join(r.path, loc[order[k]][2]))] \o Tail(calls)
  BY <1>2 DEF ListSubDirs
<1>5. PICK c \in Nat : c = Cardinality(subs)
  <2>1. subs \subseteq Inode
    BY DEF Children
  <2> QED
    BY <2>1, InotifyAssumption, FS_Subset, FS_CardinalityType
<1>6. \A i \in subs : i \in Inode /\ Attached(i) /\ loc[i][2] \in EntryName
  BY PlaceType DEF Children, IInv, TypeOK, EntryName
<1>7. \A i \in subs : Join(r.path, loc[i][2]) = Append(r.path, loc[i][2])
  BY <1>3, <1>6, JoinFacts
<1>8. order \in [1 .. c -> subs] /\ \A i \in subs : \E k \in 1 .. c : order[k] = i
  BY <1>4, <1>5
<1> HIDE DEF subs
<1> DEFINE new == [k \in 1 .. c |-> Call(r.wd, Append(r.path, loc[order[k]][2]))]
<1>9. [k \in 1 .. Cardinality(subs) |-> Call(r.wd, Join(r.path, loc[order[k]][2]))] = new
  BY <1>5, <1>7, <1>8
<1>10. calls' = new \o Tail(calls)
  BY <1>4, <1>9
<1>11. calls \in Seq(CallType) /\ Tail(calls) \in Seq(CallType)
  BY <1>1, HeadTailProperties DEF IInv, TypeOK
<1>12. new \in Seq(CallType) /\ Len(new) = c
  <2>1. ASSUME NEW k \in 1 .. c
        PROVE  Call(r.wd, Append(r.path, loc[order[k]][2])) \in CallType
    <3>1. Append(r.path, loc[order[k]][2]) \in PathType
      BY <1>3, <1>6, <1>8, JoinFacts
    <3>2. r.wd \in Nat
      BY DEF IInv, TypeOK, RowType
    <3> QED
      BY <3>1, <3>2 DEF Call, CallType
  <2> QED
    BY <2>1
<1>13. PICK nw, tl : nw = new /\ tl = Tail(calls)
  OBVIOUS
<1>14. /\ nw \in Seq(CallType) /\ tl \in Seq(CallType) /\ calls' = nw \o tl
       /\ Len(nw) = c
       /\ \A k \in 1 .. c : nw[k] = Call(r.wd, Append(r.path, loc[order[k]][2]))
  BY <1>10, <1>11, <1>12, <1>13
<1> HIDE DEF new
<1>15. /\ \A n \in 1 .. Len(nw) : \E k \in 1 .. Len(calls') : calls'[k] = nw[n]
       /\ \A n \in 1 .. Len(tl) : \E k \in 1 .. Len(calls') : calls'[k] = tl[n]
       /\ \A k \in 1 .. Len(calls') : \/ \E n \in 1 .. Len(nw) : calls'[k] = nw[n]
                                      \/ \E n \in 1 .. Len(tl) : calls'[k] = tl[n]
  <2>1. Joined(calls', nw, tl)
    BY <1>14, ConcatPlaces
  <2> QED
    BY <2>1 DEF Joined
<1>16. /\ Head(calls) = calls[1]
       /\ \A n \in 1 .. Len(calls) :
            n = 1 \/ (n - 1 \in 1 .. Len(tl) /\ tl[n - 1] = calls[n])
       /\ \A n \in 1 .. Len(tl) : n + 1 \in 1 .. Len(calls) /\ tl[n] = calls[n + 1]
  BY <1>1, <1>11, <1>13, TailFacts
<1>17. ASSUME NEW q \in PathType, NEW i \in Resolve(q), i \in Inode, Accounted(i, q)
       PROVE  Accounted(i, q)'
  <2>1. CASE Declined(q) \/ Watched(i, q)
    BY <2>1, <1>1, SettledKeeps DEF Accounted
  <2>2. CASE q = r.path
    <3>1. watch[i] = r.wd
      BY <1>3, <1>17, <2>2
    <3>2. Watched(i, q)
      BY <2>2, <3>1 DEF Watched
    <3> QED
      BY <2>1, <3>2
  <2>3. CASE q # r.path /\ \E n \in 1 .. Len(calls) : calls[n].path = q
    <3>1. PICK n \in 1 .. Len(calls) : calls[n].path = q
      BY <2>3
    <3>2. n - 1 \in 1 .. Len(tl) /\ tl[n - 1].path = q
      BY <1>2, <1>16, <2>3, <3>1
    <3>3. PICK k \in 1 .. Len(calls') : calls'[k] = tl[n - 1]
      BY <1>15, <3>2
    <3> QED
      BY <3>2, <3>3 DEF Accounted
  <2> QED
    BY <1>17, <2>1, <2>2, <2>3 DEF Accounted
<1>18. EventInv'
  BY <1>1, SettledKeeps DEF WatchedInv, EventInv, Settled
<1>19. CallInv'
  BY <1>1 DEF CallInv
<1>20. ASSUME NEW k \in 1 .. Len(calls')
       PROVE  LinkedTo(calls'[k].parent_wd, calls'[k].path)
  <2>1. CASE \E n \in 1 .. Len(nw) : calls'[k] = nw[n]
    <3>1. PICK n \in 1 .. c : calls'[k] = Call(r.wd, Append(r.path, loc[order[n]][2]))
      BY <1>14, <2>1
    <3>2. PICK path : path = Append(r.path, loc[order[n]][2])
      OBVIOUS
    <3>3. path = Append(r.path, path[Len(path)])
      <4>1. order[n] \in subs
        BY <1>8
      <4> QED
        BY <1>3, <1>6, <3>2, <4>1, JoinFacts
    <3>4. calls'[k].parent_wd = r.wd /\ calls'[k].path = path
      BY <3>1, <3>2 DEF Call
    <3> QED
      BY <3>3, <3>4 DEF LinkedTo
  <2>2. CASE \E n \in 1 .. Len(tl) : calls'[k] = tl[n]
    BY <1>16, <2>2 DEF WatchedInv, LinkInv
  <2> QED
    BY <1>15, <2>1, <2>2
<1>21. ChildrenInv'
  <2>1. ~ Stopped
    BY <1>1 DEF Stopped
  <2>2. Pending(Overflow) => Pending(Overflow)'
    BY <1>1 DEF Pending, Queued
  <2>3. Ahead' = Ahead
    BY <1>1 DEF Ahead
  <2>4. \A wd, name : Announced(wd, name) => Announced(wd, name)'
    BY <1>1, <2>3 DEF Announced, Queued
  <2>5. ASSUME NEW q \in rows, q.wd = watch_descriptor, NEW d \in Inode, watch[d] = q.wd,
               NEW i \in Children(d)
        PROVE  Accounted(i, Append(q.path, loc[i][2]))'
    <3>1. q = r
      BY <1>2, <2>5 DEF IInv, KeyInv
    <3>2. i \in subs
      BY <1>3, <2>5, <3>1 DEF subs
    <3>3. PICK k \in 1 .. c : order[k] = i
      BY <1>8, <3>2
    <3>4. nw[k].path = Append(q.path, loc[i][2])
      BY <1>14, <3>1, <3>3 DEF Call
    <3>5. PICK n \in 1 .. Len(calls') : calls'[n] = nw[k]
      BY <1>14, <1>15
    <3>6. PICK path : path = Append(q.path, loc[i][2])
      OBVIOUS
    <3>7. path = Append(q.path, loc'[i][2])
      BY <1>1, <3>6 DEF Settled
    <3>8. Accounted(i, path)'
      BY <3>4, <3>5, <3>6 DEF Accounted
    <3> QED
      BY <3>7, <3>8 DEF Accounted, Watched
  <2> QED
    BY <1>1, <1>17, <2>1, <2>2, <2>4, <2>5, SettledAccounts, SettledKeeps DEF ChildrenInv, Settled
<1> QED
  BY <1>1, <1>17, <1>18, <1>19, <1>20, <1>21, SettledInv

\* add_watch gets a new wd, for a directory the table does not have.
LEMMA AddWatchGrows ==
  ASSUME IInv, WatchedInv, AddWatch
  PROVE  WatchedInv'
<1> DEFINE call == Head(calls)
           w == last_wd + 1
           row == Row(w, call.parent_wd, call.path)
<1>1. /\ pc = "add" /\ calls # <<>>
      /\ find_directory_wd(rows, call.path) = NULL_WD
      /\ UNCHANGED <<loc, queue, buf, prev_wd, parent_dir_p, calls>>
  BY DEF AddWatch
<1>2. PICK i \in Resolve(call.path) :
        /\ InotifyAddWatch(i)
        /\ IF wd_directory_exists(rows, watch_descriptor')
             THEN Prune(watch_descriptor')
             ELSE Insert(rows, watch_descriptor', call)
  BY DEF AddWatch
<1>3. /\ call \in CallType /\ 1 \in 1 .. Len(calls) /\ call = calls[1]
      /\ rows \in SUBSET RowType
      /\ watch \in [Inode -> Nat] /\ last_wd \in Nat
  <2>1. calls \in Seq(CallType)
    BY DEF IInv, TypeOK
  <2>2. Len(calls) \in Nat \ {0} /\ call = calls[1]
    BY <1>1, <2>1, TailFacts
  <2> QED
    BY <2>1, <2>2, <1>1, HeadTailProperties DEF IInv, TypeOK, FsTypeOK
<1>4. call.path \in PathType /\ i \in Inode
  BY <1>2, <1>3 DEF CallType, InotifyAddWatch
<1>5. \A r \in rows : r.path # call.path
  BY <1>1, <1>3, FindType
<1>6. watch[i] = 0
  <2>1. SUFFICES ASSUME watch[i] # 0 PROVE FALSE
    OBVIOUS
  <2>2. PICK r \in rows : r.wd = watch[i]
    BY <1>4, <2>1 DEF WatchedInv, TableInv, wd_directory_exists
  <2>3. r.path \in PathType /\ i \in Resolve(r.path)
    BY <1>4, <2>2, RowFacts DEF WatchedInv
  <2>4. r.path = call.path
    BY <1>2, <1>4, <2>3, UniquePath
  <2> QED
    BY <1>5, <2>4
<1>7. watch_descriptor' = w /\ watch' = [watch EXCEPT ![i] = w] /\ w # 0
  BY <1>2, <1>3, <1>6 DEF InotifyAddWatch
<1>8. \A r \in rows : r.wd # w /\ r.wd # 0
  BY <1>3 DEF IInv, WdInv, RowType, NULL_WD
<1>9. pc' = "list" /\ rows' = rows \cup {row}
  <2>1. ~ wd_directory_exists(rows, w)
    BY <1>8 DEF wd_directory_exists
  <2>2. InsertAllowed(rows, w, call.path)
    BY <1>5, <1>8 DEF InsertAllowed
  <2> QED
    BY <1>2, <1>7, <2>1, <2>2 DEF Insert, add_wd_directory
<1>10. row.wd = w /\ row.parent_wd = call.parent_wd /\ row.path = call.path
  BY DEF Row
<1> HIDE DEF call, w, row
<1>11. \A j \in Inode : watch'[j] = IF j = i THEN w ELSE watch[j]
  BY <1>3, <1>7
<1>12. \A s \in PathType : Resolve(s)' = Resolve(s)
  BY <1>1, ResolveSame
<1>13. TreeInv'
  BY <1>1 DEF WatchedInv, TreeInv, Attached
<1>14. TableInv'
  <2>1. ASSUME NEW r \in rows'
        PROVE  \E j \in Inode : watch'[j] = r.wd /\ j \in Resolve(r.path)'
    <3>1. CASE r \in rows
      <4>1. PICK j \in Inode : watch[j] = r.wd /\ j \in Resolve(r.path)
        BY <3>1 DEF WatchedInv, TableInv
      <4>2. watch'[j] = r.wd /\ r.path \in PathType
        BY <1>3, <1>6, <1>8, <1>11, <3>1, <4>1 DEF RowType
      <4> QED
        BY <1>12, <4>1, <4>2
    <3>2. CASE r = row
      BY <1>2, <1>4, <1>10, <1>11, <1>12, <3>2
    <3> QED
      BY <1>9, <3>1, <3>2
  <2>2. ASSUME NEW j \in Inode, watch'[j] # 0
        PROVE  \E r \in rows' : r.wd = watch'[j]
    BY <1>9, <1>10, <1>11, <2>2 DEF WatchedInv, TableInv, wd_directory_exists
  <2> QED
    BY <2>1, <2>2 DEF TableInv, wd_directory_exists
<1>15. LinkInv'
  <2>1. \A wd, path : LinkedTo(wd, path) => LinkedTo(wd, path)'
    BY <1>9 DEF LinkedTo
  <2>2. LinkedTo(call.parent_wd, call.path)
    BY <1>3 DEF WatchedInv, LinkInv
  <2> QED
    BY <1>1, <1>9, <1>10, <2>1, <2>2 DEF WatchedInv, LinkInv
<1>16. EventInv'
  <2>1. \A e : Grows(e) => Grows(e)'
    BY <1>9 DEF Grows, wd_directory_exists
  <2> QED
    BY <1>1, <1>9, <2>1 DEF WatchedInv, EventInv
<1>17. CallInv'
  BY <1>1, <1>7, <1>9, <1>10 DEF CallInv, call
<1>18. \A j \in Inode : \A path : Accounted(j, path) => Accounted(j, path)'
  <2>1. \A j \in Inode : \A path : Watched(j, path) => Watched(j, path)'
    BY <1>6, <1>8, <1>9, <1>11 DEF Watched
  <2> QED
    BY <1>1, <2>1 DEF Accounted
<1>19. TopLevelInv'
  <2>1. \A k \in DOMAIN TopLevel :
          Resolve(TopLevel[k])' = Resolve(TopLevel[k]) /\ Resolve(TopLevel[k]) \subseteq Inode
    BY <1>12, TopLevelType, ResolveRange
  <2> QED
    BY <1>18, <2>1 DEF WatchedInv, TopLevelInv, TopLevelExists
<1>20. ChildrenInv'
  <2>1. ~ Stopped /\ pc # "list" /\ Ahead' = Ahead
    BY <1>1, <1>9 DEF Stopped, Ahead
  <2>2. Pending(Overflow) => Pending(Overflow)'
    BY <1>1 DEF Pending, Queued
  <2>3. \A wd, name : Announced(wd, name) => Announced(wd, name)'
    BY <1>1, <2>1 DEF Announced, Queued
  <2>4. SUFFICES ASSUME ~ Pending(Overflow),
                        NEW r \in rows', NEW d \in Inode, watch'[d] = r.wd, r.wd # w,
                        NEW j \in Children(d)'
                 PROVE  \/ Accounted(j, Append(r.path, loc[j][2]))'
                        \/ Announced(r.wd, loc[j][2])'
    BY <1>1, <1>7, <1>9, <2>2 DEF ChildrenInv, Accounted, Watched, Announced, Queued
  <2>5. r \in rows /\ watch[d] = r.wd
    BY <1>9, <1>10, <1>11, <2>4
  <2>6. j \in Children(d) /\ j \in Inode
    BY <1>1, <2>4 DEF Children, Attached
  <2>7. \/ Accounted(j, Append(r.path, loc[j][2]))
        \/ Announced(r.wd, loc[j][2])
    BY <2>1, <2>4, <2>5, <2>6 DEF WatchedInv, ChildrenInv
  <2>8. PICK path, name : path = Append(r.path, loc[j][2]) /\ name = loc[j][2]
    OBVIOUS
  <2>9. Accounted(j, path)' \/ Announced(r.wd, name)'
    BY <1>18, <2>3, <2>6, <2>7, <2>8
  <2>10. path = Append(r.path, loc'[j][2]) /\ name = loc'[j][2]
    BY <1>1, <2>8
  <2> QED
    BY <2>9, <2>10 DEF Accounted, Watched, Announced, Queued
<1> QED
  BY <1>13, <1>14, <1>15, <1>16, <1>17, <1>19, <1>20 DEF WatchedInv

-----------------------------------------------------------------------------
(***************************************************************************)
(* What other processes do.                                                *)
(***************************************************************************)

\* Events of a watched directory have a row.
LEMMA ReportGrows ==
  ASSUME TableInv, NEW d, NEW mask \in GrowMasks, NEW cookie, NEW name, NEW e,
         Queued(Report(d, mask, cookie, name), e)
  PROVE  Grows(e)
<1>1. d \in Inode /\ watch[d] # 0 /\ e = Event(watch[d], mask, cookie, name)
  BY DEF Report, Queued
<1>2. e.wd = watch[d] /\ e.mask = mask
  BY <1>1 DEF Event
<1> QED
  BY <1>1, <1>2 DEF TableInv, Grows

\* A change that other processes make, as far as the program is concerned.
Changes(es) ==
  /\ es \in Seq(EventType)
  /\ queue' = Enqueue(queue, es)
  /\ \A e : Queued(es, e) => Grows(e)
  /\ UNCHANGED <<watch, rows, pc, buf, prev_wd, parent_dir_p, calls, watch_descriptor>>

\* What such a change leaves of the queue and of the events ahead.
LEMMA ChangesFacts ==
  ASSUME IInv, WatchedInv, NEW es, Changes(es)
  PROVE  /\ EventInv' /\ CallInv' /\ LinkInv'
         /\ \A i, path : Accounted(i, path)' = Accounted(i, path)
         /\ \A wd, name : Announced(wd, name) => Announced(wd, name)'
         /\ Pending(Overflow) => Pending(Overflow)'
         /\ Ahead' = Ahead
<1>1. queue \in Seq(EventType) /\ es \in Seq(EventType) /\ queue' = Enqueue(queue, es)
  BY DEF IInv, TypeOK, FsTypeOK, Changes
<1>2. \A e : Queued(queue, e) => Queued(queue', e)
  BY <1>1, EnqueueFacts
<1>3. \A e : Queued(queue', e) => Queued(queue, e) \/ Queued(es, e) \/ e = Overflow
  BY <1>1, EnqueueFacts
<1>4. \A e : Grows(e)' = Grows(e)
  BY DEF Changes, Grows
<1>5. EventInv'
  <2>1. \A e : Queued(queue, e) => Grows(e)
    BY DEF Queued, WatchedInv, EventInv
  <2>2. \A e : Queued(queue', e) => Grows(e)
    BY <1>3, <2>1 DEF Changes, Grows
  <2>3. \A n \in 1 .. Len(queue') : Grows(queue'[n])
    BY <2>2 DEF Queued
  <2> QED
    BY <1>4, <2>3 DEF WatchedInv, EventInv, Changes
<1>6. CallInv'
  BY DEF Changes, WatchedInv, CallInv
<1>7. LinkInv'
  BY DEF Changes, WatchedInv, LinkInv, LinkedTo
<1>8. \A i, path : Accounted(i, path)' = Accounted(i, path)
  BY DEF Changes, Accounted, Watched
<1>9. Ahead' = Ahead
  BY DEF Changes, Ahead
<1>10. \A wd, name : Announced(wd, name) => Announced(wd, name)'
  BY <1>2, <1>9 DEF Announced, Queued
<1>11. Pending(Overflow) => Pending(Overflow)'
  BY <1>2 DEF Changes, Pending, Queued
<1> QED
  BY <1>5, <1>6, <1>7, <1>8, <1>9, <1>10, <1>11

\* A file that is written or moved.
LEMMA FileGrows ==
  ASSUME IInv, WatchedInv, NEW es, Changes(es), loc' = loc
  PROVE  WatchedInv'
<1>1. Settled /\ UNCHANGED <<pc, watch_descriptor, calls>>
  BY DEF Changes, Settled
<1>2. \A path \in PathType : \A i \in Resolve(path) :
        i \in Inode /\ Accounted(i, path) => Accounted(i, path)'
  BY ChangesFacts
<1>3. \A n \in 1 .. Len(calls') : LinkedTo(calls'[n].parent_wd, calls'[n].path)
  BY <1>1 DEF WatchedInv, LinkInv
<1>4. ChildrenInv'
  <2>1. Stopped => Stopped'
    BY <1>1 DEF Stopped
  <2> QED
    BY <1>1, <1>2, <2>1, ChangesFacts, SettledAccounts, SettledKeeps DEF ChildrenInv, Settled
<1> QED
  BY <1>1, <1>2, <1>3, <1>4, ChangesFacts, SettledInv

\* A directory that is made: the watch on its parent, if there is one, tells.
LEMMA MkdirGrows ==
  ASSUME IInv, IInv', WatchedInv, NEW i \in Inode, NEW d \in Parents, NEW n \in Name,
         Mkdir(i, d, n),
         UNCHANGED <<rows, pc, buf, prev_wd, parent_dir_p, calls, watch_descriptor>>
  PROVE  WatchedInv'
<1> DEFINE es == Report(d, {"IN_CREATE", "IN_ISDIR"}, 0, n)
<1>1. /\ loc[i] = Gone /\ Free(d, n) /\ loc' = [loc EXCEPT ![i] = <<d, n>>]
      /\ queue' = Enqueue(queue, es) /\ watch' = watch
  BY DEF Mkdir
<1>2. loc \in [Inode -> {Gone, Unlinked} \cup ((Inode \cup {Root}) \X Name)]
  BY DEF IInv, TypeOK, FsTypeOK
<1>3. /\ loc'[i] = <<d, n>> /\ <<d, n>> # Gone /\ <<d, n>> # Unlinked
      /\ \A j \in Inode : j # i => loc'[j] = loc[j]
      /\ TreeGrows
  BY <1>1, <1>2 DEF Gone, Unlinked, TreeGrows
<1>4. Changes(es)
  <2>1. n \in EntryName /\ {"IN_CREATE", "IN_ISDIR"} \in GrowMasks
    BY DEF EntryName, GrowMasks
  <2>2. es \in Seq(EventType)
    BY <2>1, ReportType DEF IInv, TypeOK, Masks
  <2>3. \A e : Queued(es, e) => Grows(e)
    BY <2>1, ReportGrows DEF WatchedInv
  <2> HIDE DEF es
  <2> QED
    BY <1>1, <2>2, <2>3 DEF Changes
<1>5. TreeInv'
  <2>1. \A j \in Inode : Attached(j) => Attached(j)'
    BY <1>1, <1>3 DEF Attached
  <2>2. \A x : Attached(x) => Attached(x)'
    BY <2>1 DEF Attached
  <2>3. ASSUME NEW j \in Inode, loc[j] = <<d, n>>
        PROVE  FALSE
    <3>1. j \in Children(d) /\ loc[j][2] = n
      BY <1>3, <2>3 DEF Children, Attached
    <3> QED
      BY <1>1, <3>1 DEF Free
  <2>4. Attached(d)'
    BY <1>1, <2>2 DEF Free
  <2>5. \A j \in Inode : loc'[j] # Unlinked
    BY <1>3 DEF WatchedInv, TreeInv
  <2>6. \A j, k \in Inode : loc'[j] = loc'[k] /\ loc'[j] # Gone => j = k
    BY <1>3, <2>3 DEF WatchedInv, TreeInv
  <2>7. ASSUME NEW j \in Inode, loc'[j] # Gone, NEW x, x = loc'[j][1]
        PROVE  Attached(x)'
    <3>1. CASE j = i
      BY <1>3, <2>4, <2>7, <3>1
    <3>2. CASE j # i
      <4>1. loc'[j] = loc[j] /\ Attached(loc[j][1])
        BY <1>3, <2>7, <3>2 DEF WatchedInv, TreeInv
      <4> QED
        BY <2>2, <2>7, <4>1
    <3> QED
      BY <3>1, <3>2
  <2>8. \A j \in Inode : loc'[j] # Gone => Attached(loc[j][1])'
    BY <2>7 DEF Attached
  <2> QED
    BY <2>5, <2>6, <2>8 DEF TreeInv
<1>6. \A s \in PathType : Resolve(s) \subseteq Resolve(s)'
  BY <1>3, ResolveGrows
<1>7. TableInv'
  <2>1. ASSUME NEW r \in rows
        PROVE  \E j \in Inode : watch'[j] = r.wd /\ j \in Resolve(r.path)'
    <3>1. r.path \in PathType
      BY DEF IInv, TypeOK, RowType
    <3> QED
      BY <1>1, <1>6, <3>1 DEF WatchedInv, TableInv
  <2> QED
    BY <1>1, <2>1 DEF WatchedInv, TableInv
<1>8. TopLevelInv'
  <2>1. ASSUME NEW k \in DOMAIN TopLevel
        PROVE  Resolve(TopLevel[k])' # {} /\ Resolve(TopLevel[k])' \subseteq Resolve(TopLevel[k])
    <3>1. TopLevel[k] \in PathType
      BY TopLevelType
    <3>2. PICK j : j \in Resolve(TopLevel[k]) /\ j \in Resolve(TopLevel[k])'
      BY <1>6, <3>1 DEF WatchedInv, TopLevelInv, TopLevelExists
    <3>3. \A x, y \in Resolve(TopLevel[k])' : x = y
      BY <1>5, <3>1, UniqueInodeNext DEF UniqueInodeLaw, IInv, TypeOK
    <3> QED
      BY <3>2, <3>3
  <2>2. \A k \in DOMAIN TopLevel : \A j \in Resolve(TopLevel[k])' : Accounted(j, TopLevel[k])'
    BY <1>4, <2>1, ChangesFacts DEF WatchedInv, TopLevelInv
  <2> QED
    BY <2>1, <2>2 DEF TopLevelInv, TopLevelExists
<1>9. ChildrenInv'
  <2>1. UNCHANGED <<rows, pc, watch, watch_descriptor>> /\ (Stopped => Stopped')
    BY <1>1 DEF Stopped
  <2>2. Pending(Overflow) => Pending(Overflow)'
    BY <1>4, ChangesFacts
  <2>3. SUFFICES ASSUME ~ Pending(Overflow)', ~ Stopped,
                        NEW r \in rows, NEW x \in Inode, watch[x] = r.wd,
                        NEW j \in Children(x)'
                 PROVE  \/ Accounted(j, Append(r.path, loc[j][2]))'
                        \/ Announced(r.wd, loc[j][2])'
                        \/ pc = "list" /\ r.wd = watch_descriptor
    BY <2>1 DEF ChildrenInv
  <2>4. PICK path, name : path = Append(r.path, loc'[j][2]) /\ name = loc'[j][2]
    OBVIOUS
  <2>5. SUFFICES \/ Accounted(j, path)'
                 \/ Announced(r.wd, name)'
                 \/ pc = "list" /\ r.wd = watch_descriptor
    BY <2>4 DEF Accounted, Watched, Announced, Queued
  <2>6. j \in Inode /\ loc'[j] \notin {Gone, Unlinked} /\ loc'[j][1] = x
    BY <2>3 DEF Children, Attached
  <2>7. CASE j = i
    <3>1. x = d /\ name = n
      BY <1>3, <2>4, <2>6, <2>7
    <3>2. watch[d] # 0
      BY <2>3, <3>1 DEF IInv, TypeOK, RowType, NULL_WD
    <3>3. PICK e : e = Event(r.wd, {"IN_CREATE", "IN_ISDIR"}, 0, n)
      OBVIOUS
    <3>4. es = <<e>>
      BY <2>3, <3>1, <3>2, <3>3 DEF Report
    <3>5. Queued(es, e)
      BY <3>4 DEF Queued
    <3>6. Queued(queue', e) \/ Queued(queue', Overflow)
      <4> HIDE DEF es
      <4>1. queue \in Seq(EventType) /\ es \in Seq(EventType)
        BY <1>4 DEF Changes, IInv, TypeOK, FsTypeOK
      <4> QED
        BY <1>1, <3>5, <4>1, EnqueueFacts
    <3>7. ~ Queued(queue', Overflow)
      BY <2>3 DEF Pending, Queued, Overflow, Event
    <3> QED
      BY <3>1, <3>3, <3>6, <3>7 DEF Announced, Queued
  <2>8. CASE j # i
    <3>1. loc'[j] = loc[j]
      BY <1>3, <2>6, <2>8
    <3>2. j \in Children(x)
      BY <2>6, <3>1 DEF Children, Attached
    <3>3. \/ Accounted(j, path)
          \/ Announced(r.wd, name)
          \/ pc = "list" /\ r.wd = watch_descriptor
      BY <2>2, <2>3, <2>4, <3>1, <3>2 DEF WatchedInv, ChildrenInv
    <3> QED
      BY <1>4, <3>3, ChangesFacts
  <2> QED
    BY <2>7, <2>8
<1> QED
  BY <1>4, <1>5, <1>7, <1>8, <1>9, ChangesFacts DEF WatchedInv

\* All of them.
LEMMA EnvironmentGrows ==
  ASSUME Growing, IInv, IInv', WatchedInv, Environment
  PROVE  WatchedInv'
<1> USE DEF FsOp
<1>0. /\ UNCHANGED <<rows, pc, buf, prev_wd, parent_dir_p, calls, watch_descriptor>>
      /\ FsTypeOK /\ TableInv
  BY DEF Environment, IInv, TypeOK, WatchedInv
<1>1. \A mask \in GrowMasks, name \in EntryName : \A d, cookie :
        cookie \in Nat =>
          /\ Report(d, mask, cookie, name) \in Seq(EventType)
          /\ \A e : Queued(Report(d, mask, cookie, name), e) => Grows(e)
  BY <1>0, ReportType, ReportGrows DEF GrowMasks, Masks
<1>2. \A f, g \in Seq(EventType) :
        (\A e : Queued(f, e) \/ Queued(g, e) => Grows(e)) =>
          f \o g \in Seq(EventType) /\ \A e : Queued(f \o g, e) => Grows(e)
  BY QueuedConcat, ConcatProperties
<1>3. /\ "file" \in EntryName /\ 0 \in Nat /\ last_cookie + 1 \in Nat
      /\ {"IN_CREATE"} \in GrowMasks /\ {"IN_CLOSE_WRITE"} \in GrowMasks
      /\ {"IN_MOVED_FROM"} \in GrowMasks /\ {"IN_MOVED_TO"} \in GrowMasks
  BY <1>0 DEF EntryName, GrowMasks, FsTypeOK
<1>4. ASSUME NEW i \in Inode, WriteFile(i)
      PROVE  WatchedInv'
  <2>1. PICK f, g : /\ f = Report(i, {"IN_CREATE"}, 0, "file")
                    /\ g = Report(i, {"IN_CLOSE_WRITE"}, 0, "file")
    OBVIOUS
  <2>2. f \in Seq(EventType) /\ g \in Seq(EventType) /\ \A e : Queued(f, e) \/ Queued(g, e) => Grows(e)
    BY <1>1, <1>3, <2>1
  <2>3. f \o g \in Seq(EventType) /\ \A e : Queued(f \o g, e) => Grows(e)
    BY <1>2, <2>2
  <2>4. Changes(f \o g) /\ loc' = loc
    BY <1>0, <1>4, <2>1, <2>3 DEF WriteFile, Changes
  <2> QED
    BY <2>4, FileGrows
<1>5. ASSUME NEW i \in Inode, NEW t \in Inode, MoveFile(i, t)
      PROVE  WatchedInv'
  <2>1. PICK f, g : /\ f = Report(i, {"IN_MOVED_FROM"}, last_cookie + 1, "file")
                    /\ g = Report(t, {"IN_MOVED_TO"}, last_cookie + 1, "file")
    OBVIOUS
  <2>2. f \in Seq(EventType) /\ g \in Seq(EventType) /\ \A e : Queued(f, e) \/ Queued(g, e) => Grows(e)
    BY <1>1, <1>3, <2>1
  <2>3. f \o g \in Seq(EventType) /\ \A e : Queued(f \o g, e) => Grows(e)
    BY <1>2, <2>2
  <2>4. Changes(f \o g) /\ loc' = loc
    BY <1>0, <1>5, <2>1, <2>3 DEF MoveFile, Changes
  <2> QED
    BY <2>4, FileGrows
<1>6. ASSUME NEW i \in Inode, NEW d \in Parents, NEW n \in Name, Mkdir(i, d, n)
      PROVE  WatchedInv'
  BY <1>0, <1>6, MkdirGrows
<1>7. ASSUME NEW i \in Inode
      PROVE  ~ Release(i)
  BY DEF Release, WatchedInv, TreeInv
<1>8. \A op \in FsOps : op \in {"mkdir", "write", "mvfile"}
  BY DEF Growing
<1>9. /\ \A i, d, n : ~ Rename(i, d, n)
      /\ \A i : ~ Rmdir(i) /\ ~ RmdirHeld(i)
      /\ \A i, t : ~ RenameOver(i, t)
  BY <1>8 DEF Rename, Rmdir, RmdirHeld, RenameOver
<1> QED
  BY <1>4, <1>5, <1>6, <1>7, <1>9 DEF Environment, FsNext

-----------------------------------------------------------------------------
(***************************************************************************)
(* The invariant.                                                          *)
(***************************************************************************)

\* A full queue ends the program.
LEMMA OverflowGrows ==
  ASSUME IInv, WatchedInv, NEW e, buf # <<>>, e = Head(buf), HandleOverflow(e)
  PROVE  WatchedInv'
<1>1. /\ Settled /\ UNCHANGED <<queue, buf, calls>>
      /\ pc' = "overflow" /\ Dispatch(e) /\ prev_wd' = e.wd
  BY DEF HandleOverflow, Dispatch, Settled, fsVars
<1>2. \A path \in PathType : \A i \in Resolve(path) :
        i \in Inode /\ Accounted(i, path) => Accounted(i, path)'
  BY <1>1, SettledKeeps DEF Accounted
<1>3. EventInv'
  <2>1. prev_wd' # NULL_WD => \E r \in rows : r.wd = prev_wd' /\ r.path = parent_dir_p'
    <3>1. CASE e = Overflow
      <4>1. Overflow.wd = NULL_WD
        BY DEF Overflow, Event, NULL_WD
      <4> QED
        BY <1>1, <3>1, <4>1
    <3>2. CASE e # Overflow
      <4>1. \E r \in rows : r.wd = e.wd /\ r.path = parent_dir_p'
        BY <1>1, <3>2, MemoFacts DEF WatchedInv
      <4> QED
        BY <1>1, <4>1
    <3> QED
      BY <3>1, <3>2
  <2> QED
    BY <1>1, <2>1, SettledKeeps DEF WatchedInv, EventInv, Settled
<1>4. CallInv'
  BY <1>1 DEF CallInv
<1>5. \A n \in 1 .. Len(calls') : LinkedTo(calls'[n].parent_wd, calls'[n].path)
  BY <1>1 DEF WatchedInv, LinkInv
<1>6. ChildrenInv'
  BY <1>1 DEF ChildrenInv, Stopped
<1> QED
  BY <1>1, <1>2, <1>3, <1>4, <1>5, <1>6, SettledInv

\* Every event there is.
LEMMA HandleGrows ==
  ASSUME Growing, IInv, IInv', WatchedInv, buf # <<>>, Handle(Head(buf))
  PROVE  WatchedInv'
<1>1. PICK e : e = Head(buf)
  OBVIOUS
<1>2. Dispatch(e) /\ pc = "dispatch" /\ calls = <<>>
  <2>1. Dispatch(e)
    BY <1>1 DEF Handle, HandleOverflow, HandleCreateDir, HandleSkipped, HandleMovedFrom,
                HandleMovedTo, HandleIgnored, HandleChange
  <2> QED
    BY <2>1 DEF Dispatch, WatchedInv, CallInv
<1>3. e = Overflow \/ e.mask \in GrowMasks
  BY <1>1, <1>2, MemoFacts DEF WatchedInv
<1>4. CASE HandleOverflow(e)
  BY <1>1, <1>4, OverflowGrows
<1>5. CASE HandleCreateDir(e)
  BY <1>1, <1>5, CreateGrows
<1>6. CASE HandleIgnored(e)
  BY <1>3, <1>6, IgnoredMask DEF HandleIgnored, GrowMasks
<1>7. CASE \/ HandleSkipped(e) \/ HandleMovedFrom(e) \/ HandleMovedTo(e) \/ HandleChange(e)
  <2>1. e.mask \in GrowMasks /\ e.mask # {"IN_CREATE", "IN_ISDIR"} /\ "IN_ISDIR" \notin e.mask
    <3>1. e # Overflow
      BY <1>7, IgnoredMask DEF HandleSkipped, HandleMovedFrom, HandleMovedTo, HandleChange
    <3>2. e.mask # {"IN_CREATE", "IN_ISDIR"}
      BY <1>7 DEF HandleSkipped, HandleMovedFrom, HandleMovedTo, HandleChange
    <3> QED
      BY <1>3, <3>1, <3>2 DEF GrowMasks
  <2>2. pc' # "cookie_error"
    BY DEF IInv, CookieInv, NoCookieError
  <2>3. NextEvent /\ UNCHANGED <<loc, watch, rows, queue, calls>>
    BY <1>7, <2>1, <2>2
    DEF HandleSkipped, HandleMovedFrom, HandleMovedTo, HandleChange, Continue, FallThrough
  <2>4. e # Overflow
    BY <2>1, IgnoredMask DEF GrowMasks
  <2> QED
    BY <1>1, <1>2, <2>1, <2>3, <2>4, PopGrows DEF Settled
<1> QED
  BY <1>1, <1>4, <1>5, <1>6, <1>7 DEF Handle

\* Every step keeps the invariant.
LEMMA GrowStep ==
  ASSUME Growing, IInv, IInv', WatchedInv, [Next]_vars
  PROVE  WatchedInv'
<1>1. CASE AddWatchDeclined
  BY <1>1, DeclinedGrows
<1>2. CASE AddWatch
  BY <1>2, AddWatchGrows
<1>3. CASE ListSubDirs
  BY <1>3, ListGrows
<1>4. CASE RemovePruned \/ InsertAfterPrune \/ PruneMovedDone \/ RemovePrunedFails
  BY <1>4 DEF RemovePruned, InsertAfterPrune, PruneMovedDone, RemovePrunedFails, WatchedInv, CallInv
<1>5. CASE ReadEvents
  BY <1>5, ReadGrows
<1>6. CASE WatchNewDone
  <2>1. /\ pc = "add" /\ calls = <<>> /\ buf # <<>> /\ NextEvent
        /\ Settled /\ UNCHANGED <<queue, calls, prev_wd, parent_dir_p>>
    BY <1>6 DEF WatchNewDone, Continue, FallThrough, Settled
  <2>2. Head(buf) # Overflow
    BY <2>1, IgnoredMask DEF IInv, ControlInv
  <2> QED
    BY <2>1, <2>2, PopGrows
<1>7. CASE StartupDone \/ Flush \/ UNCHANGED vars
  <2>1. /\ Settled
        /\ UNCHANGED <<queue, buf, calls, prev_wd, parent_dir_p, watch_descriptor>>
    BY <1>7 DEF StartupDone, Flush, vars, fsVars, Settled
  <2>2. pc' = pc \/ (pc = "add" /\ pc' = "idle" /\ buf = <<>> /\ calls = <<>>)
    BY <1>7 DEF StartupDone, Flush, vars
  <2> QED
    BY <2>1, <2>2, SameGrows
<1>8. CASE AddWatchFails \/ OpendirFails \/ ReadFails
  <2>1. CallFailed
    BY <1>8 DEF AddWatchFails, OpendirFails, ReadFails
  <2>2. /\ Settled /\ Stopped'
        /\ UNCHANGED <<queue, buf, calls, prev_wd, parent_dir_p, watch_descriptor>>
    BY <2>1 DEF CallFailed, Settled, fsVars, Stopped
  <2> QED
    BY <2>2, SameGrows
<1>9. CASE buf # <<>> /\ Handle(Head(buf))
  BY <1>9, HandleGrows
<1>10. CASE Environment
  BY <1>10, EnvironmentGrows
<1> QED
  BY <1>1, <1>2, <1>3, <1>4, <1>5, <1>6, <1>7, <1>8, <1>9, <1>10 DEF Next, Watcher

\* The program starts with a call for every top-level directory.
LEMMA GrowInit ==
  ASSUME Init, TopLevelExists
  PROVE  WatchedInv
<1>1. /\ loc = InitLoc /\ watch = [i \in Inode |-> 0] /\ rows = {}
      /\ queue = <<>> /\ buf = <<>> /\ prev_wd = NULL_WD /\ pc = "add"
      /\ calls = [k \in 1 .. Len(TopLevel) |-> Call(NULL_WD, TopLevel[k])]
  BY DEF Init, FsInit
<1>2. Len(TopLevel) \in Nat /\ DOMAIN TopLevel = 1 .. Len(TopLevel)
  BY DirWatcherAssumption, LenProperties
<1>3. Len(calls) = Len(TopLevel) /\ \A k \in 1 .. Len(TopLevel) : calls[k] = Call(NULL_WD, TopLevel[k])
  BY <1>1, <1>2
<1>4. TreeInv
  <2>1. \A i \in Inode : loc[i] # Unlinked
    <3>1. \A i \in Inode : InitLoc[i] = Gone \/ InitLoc[i] \in (Inode \cup {Root}) \X Name
      BY InotifyAssumption
    <3>2. Unlinked # Gone /\ \A p \in (Inode \cup {Root}) \X Name : p # Unlinked
      BY DEF Unlinked, Gone
    <3> QED
      BY <1>1, <3>1, <3>2
  <2>2. ASSUME NEW i \in Inode, loc[i] # Gone
        PROVE  Attached(loc[i][1])
    <3>1. loc[i][1] \in Inode => loc[loc[i][1]] # Gone
      BY <1>1, <2>2, InotifyAssumption
    <3> QED
      BY <2>1, <3>1 DEF Attached
  <2> QED
    BY <1>1, <2>1, <2>2, InotifyAssumption DEF TreeInv
<1>5. TableInv
  BY <1>1 DEF TableInv
<1>6. LinkInv
  BY <1>1, <1>3 DEF LinkInv, LinkedTo, Call
<1>7. EventInv
  BY <1>1 DEF EventInv
<1>8. CallInv
  BY <1>1 DEF CallInv
<1>9. TopLevelInv
  <2>1. ASSUME NEW k \in DOMAIN TopLevel, NEW i
        PROVE  Accounted(i, TopLevel[k])
    <3>1. k \in 1 .. Len(calls)
      BY <1>2, <1>3
    <3>2. calls[k] = Call(NULL_WD, TopLevel[k])
      BY <1>3, <3>1
    <3>3. calls[k].path = TopLevel[k]
      BY <3>2 DEF Call
    <3> QED
      BY <3>1, <3>3 DEF Accounted
  <2> QED
    BY <2>1 DEF TopLevelInv
<1>10. ChildrenInv
  BY <1>1 DEF ChildrenInv
<1> QED
  BY <1>4, <1>5, <1>6, <1>7, <1>8, <1>9, <1>10 DEF WatchedInv

-----------------------------------------------------------------------------
(***************************************************************************)
(* What is excluded.                                                       *)
(***************************************************************************)

\* A step that only drops rows and calls.
LEMMA FewerWanted ==
  ASSUME IInv, WantedInv, rows' \subseteq rows,
         calls' = calls \/ (calls # <<>> /\ calls' = Tail(calls))
  PROVE  WantedInv'
<1>1. calls \in Seq(CallType)
  BY DEF IInv, TypeOK
<1>2. ASSUME NEW n \in 1 .. Len(calls')
      PROVE  NotBelowIgnored(calls'[n].path)
  <2>1. \E k \in 1 .. Len(calls) : calls[k] = calls'[n]
    BY <1>1, <1>2, TailFacts
  <2> QED
    BY <2>1 DEF WantedInv
<1>3. \A r \in rows' : ~ Declined(r.path) /\ NotBelowIgnored(r.path)
  BY DEF WantedInv
<1> QED
  BY <1>2, <1>3 DEF WantedInv, NotBelowIgnored, Declined, Excluded, HasIgnoreSuffix

\* An entry of a directory whose row is wanted is not below an ignored name.
LEMMA EntryWanted ==
  ASSUME NEW path \in PathType, NEW name \in EntryName,
         NotBelowIgnored(path), ~ Declined(path)
  PROVE  NotBelowIgnored(Append(path, name))
<1>1. PICK l \in Nat : l = Len(path)
  BY LenProperties DEF PathType
<1>2. name \in EntryName \cup {"(null)"}
  OBVIOUS
<1>3. /\ Len(Append(path, name)) = l + 1
      /\ \A n \in 1 .. l : Append(path, name)[n] = path[n]
  BY <1>1, <1>2, AppendProperties DEF PathType
<1>4. \A n \in 1 .. l : path[n] \notin IgnoredNames
  BY <1>1 DEF NotBelowIgnored, Declined, HasIgnoreSuffix
<1> QED
  BY <1>3, <1>4 DEF NotBelowIgnored

\* add_watch asks for both before it inserts.
LEMMA AddWatchWanted ==
  ASSUME IInv, WantedInv, AddWatch
  PROVE  WantedInv'
<1>1. calls' = calls /\ calls # <<>> /\ ~ Declined(Head(calls).path)
  BY DEF AddWatch, Declined
<1>2. NotBelowIgnored(Head(calls).path)
  <2>1. calls \in Seq(CallType)
    BY DEF IInv, TypeOK
  <2>2. 1 \in 1 .. Len(calls) /\ Head(calls) = calls[1]
    BY <1>1, <2>1, TailFacts
  <2> QED
    BY <2>2 DEF WantedInv
<1>3. \A r \in rows' : r \in rows \/ r.path = Head(calls).path
  BY DEF AddWatch, Prune, prune_wd_directory, Insert, add_wd_directory, Row
<1>4. \A r \in rows' : ~ Declined(r.path) /\ NotBelowIgnored(r.path)
  BY <1>1, <1>2, <1>3 DEF WantedInv
<1>5. \A n \in 1 .. Len(calls') : NotBelowIgnored(calls'[n].path)
  BY <1>1 DEF WantedInv
<1> QED
  BY <1>4, <1>5 DEF WantedInv, NotBelowIgnored, Declined, Excluded, HasIgnoreSuffix

\* The recursion makes calls for entries of a directory that has a row.
LEMMA ListWanted ==
  ASSUME IInv, WatchedInv, WantedInv, ListSubDirs
  PROVE  WantedInv'
<1>1. pc = "list" /\ calls # <<>> /\ rows' = rows
  BY DEF ListSubDirs, IInv, ControlInv
<1>2. PICK r \in rows : r.wd = watch_descriptor /\ r.path = Head(calls).path
  BY <1>1 DEF WatchedInv, CallInv
<1>3. r.path \in PathType /\ r.path # <<>>
  BY RowFacts DEF WatchedInv
<1> DEFINE subs == UNION {Children(d) : d \in Resolve(r.path)}
<1>4. PICK order \in [1 .. Cardinality(subs) -> subs] :
        calls' = [k \in 1 .. Cardinality(subs) |->
                    Call(r.wd, Join(r.path, loc[order[k]][2]))] \o Tail(calls)
  BY <1>2 DEF ListSubDirs
<1>5. PICK c \in Nat : c = Cardinality(subs)
  <2>1. subs \subseteq Inode
    BY DEF Children
  <2> QED
    BY <2>1, InotifyAssumption, FS_Subset, FS_CardinalityType
<1>6. \A i \in subs : loc[i][2] \in EntryName
  BY PlaceType DEF Children, IInv, TypeOK, EntryName
<1> HIDE DEF subs
<1>7. ASSUME NEW k \in 1 .. c
      PROVE  /\ Call(r.wd, Join(r.path, loc[order[k]][2])) \in CallType
             /\ NotBelowIgnored(Join(r.path, loc[order[k]][2]))
  <2>1. loc[order[k]][2] \in EntryName
    BY <1>4, <1>5, <1>6
  <2>2. PICK name \in EntryName : name = loc[order[k]][2]
    BY <2>1
  <2>3. Join(r.path, name) = Append(r.path, name) /\ Append(r.path, name) \in PathType
    BY <1>3, JoinFacts
  <2>4. NotBelowIgnored(Append(r.path, name))
    BY <1>3, EntryWanted DEF WantedInv
  <2>5. r.wd \in Nat
    BY DEF IInv, TypeOK, RowType
  <2> QED
    BY <2>2, <2>3, <2>4, <2>5 DEF Call, CallType
<1> DEFINE new == [k \in 1 .. c |-> Call(r.wd, Join(r.path, loc[order[k]][2]))]
<1>8. PICK nw, tl : nw = new /\ tl = Tail(calls)
  OBVIOUS
<1>9. nw \in Seq(CallType) /\ \A k \in 1 .. Len(nw) : NotBelowIgnored(nw[k].path)
  <2>1. new \in Seq(CallType) /\ Len(new) = c
    BY <1>7
  <2>2. \A k \in 1 .. c : new[k].path = Join(r.path, loc[order[k]][2])
    BY DEF Call
  <2> QED
    BY <1>7, <1>8, <2>1, <2>2
<1>10. calls \in Seq(CallType) /\ tl \in Seq(CallType)
  BY <1>1, <1>8, HeadTailProperties DEF IInv, TypeOK
<1>11. \A k \in 1 .. Len(tl) : NotBelowIgnored(tl[k].path)
  BY <1>1, <1>8, <1>10, TailFacts DEF WantedInv
<1>12. Joined(calls', nw, tl)
  BY <1>4, <1>5, <1>8, <1>9, <1>10, ConcatPlaces
<1>13. \A k \in 1 .. Len(calls') : NotBelowIgnored(calls'[k].path)
  BY <1>9, <1>11, <1>12 DEF Joined
<1>14. \A r2 \in rows' : ~ Declined(r2.path) /\ NotBelowIgnored(r2.path)
  BY <1>1 DEF WantedInv
<1> QED
  BY <1>13, <1>14 DEF WantedInv, NotBelowIgnored, Declined, Excluded, HasIgnoreSuffix

\* So does the event of a new directory.
LEMMA CreateWanted ==
  ASSUME IInv, WatchedInv, WantedInv, NEW e, buf # <<>>, e = Head(buf), HandleCreateDir(e)
  PROVE  WantedInv'
<1>1. /\ Dispatch(e) /\ rows' = rows /\ {"IN_CREATE", "IN_ISDIR"} \subseteq e.mask
      /\ calls' = <<Call(e.wd, Join(parent_dir_p', e.name))>>
  BY DEF HandleCreateDir
<1>2. e # Overflow
  BY <1>1, IgnoredMask
<1>3. e \in EventType
  BY <1>1, <1>2, MemoFacts DEF WatchedInv
<1>4. PICK r \in rows : r.wd = e.wd /\ r.path = parent_dir_p'
  BY <1>1, <1>2, MemoFacts DEF WatchedInv
<1>5. r.path \in PathType /\ r.path # <<>> /\ e.name \in EntryName
  BY <1>3, RowFacts DEF WatchedInv, EventType
<1>6. Join(parent_dir_p', e.name) = Append(r.path, e.name)
  BY <1>4, <1>5, JoinFacts
<1>7. NotBelowIgnored(Append(r.path, e.name))
  BY <1>5, EntryWanted DEF WantedInv
<1>8. Len(calls') = 1 /\ calls'[1].path = Append(r.path, e.name)
  BY <1>1, <1>6 DEF Call
<1>9. \A n \in 1 .. Len(calls') : NotBelowIgnored(calls'[n].path)
  <2>1. \A n \in 1 .. Len(calls') : n = 1
    BY <1>8
  <2> QED
    BY <1>7, <1>8, <2>1
<1>10. \A r2 \in rows' : ~ Declined(r2.path) /\ NotBelowIgnored(r2.path)
  BY <1>1 DEF WantedInv
<1> QED
  BY <1>9, <1>10 DEF WantedInv, NotBelowIgnored, Declined, Excluded, HasIgnoreSuffix

\* Every step keeps it.
LEMMA WantedStep ==
  ASSUME IInv, WatchedInv, WantedInv, [Next]_vars
  PROVE  WantedInv'
<1>1. CASE AddWatchDeclined
  BY <1>1, FewerWanted DEF AddWatchDeclined
<1>2. CASE AddWatch
  BY <1>2, AddWatchWanted
<1>3. CASE ListSubDirs
  BY <1>3, ListWanted
<1>4. CASE InsertAfterPrune
  BY <1>4 DEF InsertAfterPrune, WatchedInv, CallInv
<1>5. CASE \/ RemovePruned \/ PruneMovedDone \/ ReadEvents \/ WatchNewDone \/ StartupDone
           \/ Flush \/ AddWatchFails \/ OpendirFails \/ RemovePrunedFails \/ ReadFails
           \/ Environment \/ UNCHANGED vars
  <2>1. rows' = rows /\ calls' = calls
    BY <1>5 DEF RemovePruned, PruneMovedDone, ReadEvents, WatchNewDone, StartupDone, Flush,
                AddWatchFails, OpendirFails, RemovePrunedFails, ReadFails, CallFailed,
                Environment, vars
  <2> QED
    BY <2>1, FewerWanted
<1>6. CASE buf # <<>> /\ Handle(Head(buf))
  <2>1. PICK e : e = Head(buf)
    OBVIOUS
  <2>2. CASE HandleCreateDir(e)
    BY <1>6, <2>1, <2>2, CreateWanted
  <2>3. CASE HandleMovedTo(e)
    <3>1. e # Overflow /\ Dispatch(e)
      BY <2>3, IgnoredMask DEF HandleMovedTo
    <3>2. "IN_ISDIR" \notin e.mask
      BY <1>6, <2>1, <2>3, <3>1, MemoFacts DEF WatchedInv, GrowMasks, HandleMovedTo
    <3>3. rows' = rows /\ calls' = calls
      BY <2>3, <3>2 DEF HandleMovedTo
    <3> QED
      BY <3>3, FewerWanted
  <2>4. CASE HandleOverflow(e) \/ HandleSkipped(e) \/ HandleMovedFrom(e)
             \/ HandleIgnored(e) \/ HandleChange(e)
    <3>1. rows' \subseteq rows /\ calls' = calls
      BY <2>4 DEF HandleOverflow, HandleSkipped, HandleMovedFrom, HandleIgnored, HandleChange,
                  Prune, prune_wd_directory, remove_wd_directory
    <3> QED
      BY <3>1, FewerWanted
  <2> QED
    BY <1>6, <2>1, <2>2, <2>3, <2>4 DEF Handle
<1> QED
  BY <1>1, <1>2, <1>3, <1>4, <1>5, <1>6 DEF Next, Watcher

\* The top-level paths are the first calls.
LEMMA WantedInit ==
  ASSUME Init, TopLevelWanted
  PROVE  WantedInv
<1>1. /\ rows = {}
      /\ calls = [k \in 1 .. Len(TopLevel) |-> Call(NULL_WD, TopLevel[k])]
  BY DEF Init
<1>2. Len(TopLevel) \in Nat /\ DOMAIN TopLevel = 1 .. Len(TopLevel)
  BY DirWatcherAssumption, LenProperties
<1>3. Len(calls) = Len(TopLevel) /\ \A k \in 1 .. Len(TopLevel) : calls[k] = Call(NULL_WD, TopLevel[k])
  BY <1>1, <1>2
<1>4. ASSUME NEW k \in 1 .. Len(calls)
      PROVE  NotBelowIgnored(calls[k].path)
  <2>1. k \in DOMAIN TopLevel /\ calls[k] = Call(NULL_WD, TopLevel[k])
    BY <1>2, <1>3
  <2>2. calls[k].path = TopLevel[k]
    BY <2>1 DEF Call
  <2> QED
    BY <2>1, <2>2 DEF TopLevelWanted
<1> QED
  BY <1>1, <1>4 DEF WantedInv

\* The directories on the way down to the one at a path.
OnTheWay(s) ==
  {j \in Inode \cup {Root} : \E n \in 0 .. Len(s) : j \in Resolve(SubSeq(s, 1, n))}

\* One turn of the recursion of Ancestors.
Climb(X) == X \cup {loc[j][1] : j \in {k \in X \ {Root} : Attached(k)}}

\* The beginning of a path is a path, one name longer than the one before.
LEMMA Beginning ==
  ASSUME NEW s \in PathType, NEW n \in 0 .. Len(s)
  PROVE  /\ SubSeq(s, 1, n) \in PathType /\ Len(SubSeq(s, 1, n)) = n
         /\ n = 0 => SubSeq(s, 1, n) = <<>>
         /\ n # 0 => /\ s[n] \in PathName /\ n - 1 \in 0 .. Len(s)
                     /\ SubSeq(s, 1, n) = Append(SubSeq(s, 1, n - 1), s[n])
<1>1. PICK l \in Nat : l = Len(s)
  BY LenProperties DEF PathType
<1>2. \A k \in 1 .. l : s[k] \in PathName
  BY <1>1, ElementOfSeq DEF PathType, PathName
<1>3. ASSUME NEW m \in 0 .. l
      PROVE  SubSeq(s, 1, m) \in PathType /\ Len(SubSeq(s, 1, m)) = m
  <2>1. m \in Int /\ 1 \in Int /\ \A k \in 1 .. m : s[k] \in PathName
    BY <1>2
  <2>2. /\ SubSeq(s, 1, m) \in Seq(PathName)
        /\ Len(SubSeq(s, 1, m)) = IF 1 <= m THEN m - 1 + 1 ELSE 0
    BY <2>1, SubSeqProperties
  <2> QED
    BY <2>2 DEF PathType, PathName
<1>4. n = 0 => SubSeq(s, 1, n) = <<>>
  BY SubSeqEmpty
<1>5. ASSUME n # 0
      PROVE  SubSeq(s, 1, n) = Append(SubSeq(s, 1, n - 1), s[n])
  <2>1. n \in 1 .. l /\ 1 \in 1 .. l /\ n - 1 \in 0 .. l /\ s \in Seq(PathName)
    BY <1>1, <1>5 DEF PathType, PathName
  <2>2. SubSeq(s, 1, n) = SubSeq(s, 1, n - 1) \o <<s[n]>>
    BY <1>1, <2>1, SubSeqRecursiveSecond
  <2>3. SubSeq(s, 1, n - 1) \in Seq(PathName) /\ s[n] \in PathName
    BY <1>2, <1>3, <2>1 DEF PathType, PathName
  <2> QED
    BY <2>2, <2>3, AppendIsConcat
<1> QED
  BY <1>1, <1>2, <1>3, <1>4, <1>5

\* Going up from there does not leave the way.
LEMMA ClimbFacts ==
  ASSUME NEW s \in PathType, NEW X \in SUBSET OnTheWay(s)
  PROVE  Climb(X) \subseteq OnTheWay(s)
<1>1. ASSUME NEW k \in X, k # Root
      PROVE  loc[k][1] \in OnTheWay(s)
  <2>1. PICK n \in 0 .. Len(s) : k \in Resolve(SubSeq(s, 1, n))
    BY DEF OnTheWay
  <2>2. n # 0
    BY <1>1, <2>1, Beginning, ResolveFacts DEF ResolveLaw
  <2>3. PICK u \in PathType : u = SubSeq(s, 1, n - 1)
    BY <2>2, Beginning
  <2>4. s[n] \in PathName /\ n - 1 \in 0 .. Len(s) /\ SubSeq(s, 1, n) = Append(u, s[n])
    BY <2>2, <2>3, Beginning
  <2>5. loc[k][1] \in Resolve(u)
    BY <2>1, <2>4, ResolveFacts DEF ResolveLaw
  <2> QED
    BY <2>3, <2>4, <2>5, ResolveRange DEF OnTheWay
<1> QED
  BY <1>1 DEF Climb

\* All of a directory's ancestors are on the way to it.
LEMMA AncestorFacts ==
  ASSUME NEW s \in PathType, NEW i \in Resolve(s)
  PROVE  Ancestors(i) \subseteq OnTheWay(s)
<1> DEFINE Sol(n, f) == f = [m \in 0 .. n |-> IF m = 0 THEN {i} ELSE Climb(f[m - 1])]
<1>1. {i} \subseteq OnTheWay(s)
  <2>1. Len(s) \in Nat /\ SubSeq(s, 1, Len(s)) = s
    BY LenProperties, SubSeqFull DEF PathType
  <2>2. i \in Inode \cup {Root}
    BY ResolveRange
  <2>3. PICK l : l = Len(s) /\ l \in 0 .. l /\ SubSeq(s, 1, l) = s
    BY <2>1
  <2>4. i \in Resolve(SubSeq(s, 1, l))
    BY <2>3
  <2> QED
    BY <2>2, <2>3, <2>4 DEF OnTheWay
<1> DEFINE T == {n \in Nat : ~ \E f : Sol(n, f) /\ f[n] \subseteq OnTheWay(s)}
<1>2. ASSUME T # {}
      PROVE  FALSE
  <2>1. T \in SUBSET Nat
    OBVIOUS
  <2>2. PICK n \in T : \A m \in T : n <= m
    <3> HIDE DEF T
    <3> QED
      BY <1>2, <2>1, Least
  <2>3. CASE n = 0
    <3>1. PICK f : f = [m \in 0 .. 0 |-> {i}]
      OBVIOUS
    <3>2. Sol(0, f) /\ f[0] = {i}
      BY <3>1
    <3> QED
      BY <1>1, <2>3, <3>2
  <2>4. CASE n # 0
    <3>1. n - 1 \in Nat /\ n \in Nat /\ ~ (n <= n - 1)
      BY <2>4
    <3>2. \E f : Sol(n - 1, f) /\ f[n - 1] \subseteq OnTheWay(s)
      BY <2>2, <3>1
    <3>3. PICK f : Sol(n - 1, f) /\ f[n - 1] \subseteq OnTheWay(s)
      BY <3>2
    <3> DEFINE g == [m \in 0 .. n |-> IF m = n THEN Climb(f[n - 1]) ELSE f[m]]
    <3>4. ASSUME NEW m \in 0 .. n
          PROVE  g[m] = IF m = 0 THEN {i} ELSE Climb(g[m - 1])
      <4>1. CASE m = n
        <5>1. g[m - 1] = f[n - 1] /\ g[m] = Climb(f[n - 1]) /\ m # 0
          BY <2>4, <3>1, <4>1
        <5> QED
          BY <5>1
      <4>2. CASE m # n
        <5>1. m \in 0 .. n - 1 /\ (m # 0 => m - 1 \in 0 .. n /\ m - 1 # n)
          BY <3>1, <4>2
        <5>2. g[m] = f[m] /\ (m # 0 => g[m - 1] = f[m - 1])
          BY <4>2, <5>1
        <5>3. f[m] = IF m = 0 THEN {i} ELSE Climb(f[m - 1])
          BY <3>3, <5>1
        <5> HIDE DEF g, Sol
        <5> QED
          BY <5>2, <5>3
      <4> QED
        BY <4>1, <4>2
    <3>5. Sol(n, g)
      BY <3>4
    <3>6. g[n] \subseteq OnTheWay(s)
      BY <3>1, <3>3, ClimbFacts
    <3> QED
      BY <3>5, <3>6
  <2> QED
    BY <2>3, <2>4
<1>3. PICK c \in Nat : c = Cardinality(Inode)
  BY InotifyAssumption, FS_CardinalityType
<1>4. PICK f : Sol(c, f) /\ f[c] \subseteq OnTheWay(s)
  BY <1>2
<1>5. Ancestors(i) = (CHOOSE g : Sol(c, g))[c]
  BY <1>3 DEF Ancestors, Climb
<1>6. PICK h : h = (CHOOSE g : Sol(c, g))
  OBVIOUS
<1>7. Sol(c, h)
  <2> HIDE DEF Sol
  <2> QED
    BY <1>4, <1>6
<1>8. ASSUME NEW f1, NEW f2, Sol(c, f1), Sol(c, f2)
      PROVE  f1[c] = f2[c]
  <2> DEFINE D == {n \in Nat : n <= c /\ f1[n] # f2[n]}
  <2>1. ASSUME D # {}
        PROVE  FALSE
    <3>1. D \in SUBSET Nat
      OBVIOUS
    <3>2. PICK n \in D : \A m \in D : n <= m
      <4> HIDE DEF D
      <4> QED
        BY <2>1, <3>1, Least
    <3>3. n \in 0 .. c /\ f1[n] # f2[n]
      BY <3>2
    <3>4. /\ f1[n] = IF n = 0 THEN {i} ELSE Climb(f1[n - 1])
          /\ f2[n] = IF n = 0 THEN {i} ELSE Climb(f2[n - 1])
      BY <1>8, <3>3
    <3>5. n # 0 => n - 1 \in Nat /\ n - 1 <= c /\ ~ (n <= n - 1)
      BY <3>3
    <3>6. n # 0 => f1[n - 1] = f2[n - 1]
      BY <3>2, <3>5
    <3> HIDE DEF D
    <3> QED
      BY <3>3, <3>4, <3>6
  <2> QED
    BY <2>1
<1>9. h[c] = f[c]
  <2> HIDE DEF Sol
  <2> QED
    BY <1>4, <1>7, <1>8
<1> QED
  BY <1>4, <1>5, <1>6, <1>9

\* A watched directory's row is at its path, and on the way there is nothing the
\* configuration excludes.
LEMMA WatchedNotUnwanted ==
  ASSUME IInv, WatchedInv, WantedInv, NEW i \in Inode, watch[i] # 0
  PROVE  i \notin Unwanted
<1>1. PICK r \in rows : r.wd = watch[i]
  BY DEF WatchedInv, TableInv, wd_directory_exists
<1>2. PICK s \in PathType : s = r.path /\ i \in Resolve(s)
  BY <1>1, RowFacts DEF WatchedInv
<1>3. ~ Declined(s) /\ NotBelowIgnored(s)
  BY <1>2 DEF WantedInv
<1>4. PICK l \in Nat : l = Len(s)
  BY LenProperties DEF PathType
<1>5. ASSUME NEW p \in Excludes, NEW j \in Ancestors(i), j \in Resolve(p)
      PROVE  FALSE
  <2>1. p \in PathType
    BY DirWatcherAssumption, SeqMonotonic DEF PathType, EntryName
  <2>2. PICK n \in 0 .. l : j \in Resolve(SubSeq(s, 1, n))
    BY <1>2, <1>4, AncestorFacts DEF OnTheWay
  <2>3. PICK u \in PathType : u = SubSeq(s, 1, n) /\ Len(u) = n
    BY <1>4, Beginning
  <2>4. p = u
    <3>1. CASE j \in Inode
      BY <1>5, <2>1, <2>2, <2>3, <3>1, UniquePath
    <3>2. CASE j \notin Inode
      BY <1>5, <2>1, <2>2, <2>3, <3>2, ResolveRange
    <3> QED
      BY <3>1, <3>2
  <2>5. IsPathPrefix(p, s)
    BY <1>4, <2>3, <2>4 DEF IsPathPrefix
  <2> QED
    BY <1>3, <2>5 DEF Declined, Excluded
<1>6. ASSUME NEW j \in Ancestors(i) \cap Inode, Attached(j), loc[j][2] \in IgnoredNames
      PROVE  FALSE
  <2>1. PICK n \in 0 .. l : j \in Resolve(SubSeq(s, 1, n))
    BY <1>2, <1>4, AncestorFacts DEF OnTheWay
  <2>2. n # 0
    <3>1. n = 0 => j \in Resolve(<<>>)
      BY <1>4, <2>1, Beginning
    <3> QED
      BY <1>6, <3>1, ResolveFacts, InotifyAssumption DEF ResolveLaw
  <2>3. PICK u \in PathType : u = SubSeq(s, 1, n - 1)
    BY <1>4, <2>2, Beginning
  <2>4. s[n] \in PathName /\ SubSeq(s, 1, n) = Append(u, s[n])
    BY <1>4, <2>2, <2>3, Beginning
  <2>5. loc[j][2] = s[n]
    BY <2>1, <2>4, ResolveFacts DEF ResolveLaw
  <2>6. n = l \/ n \in 1 .. l - 1
    BY <2>2
  <2> QED
    BY <1>3, <1>4, <1>6, <2>5, <2>6 DEF Declined, HasIgnoreSuffix, NotBelowIgnored
<1>7. i \notin CoveredBy(Excludes)
  BY <1>5 DEF CoveredBy
<1> QED
  BY <1>6, <1>7 DEF Unwanted

-----------------------------------------------------------------------------
(***************************************************************************)
(* The theorems.                                                           *)
(***************************************************************************)

\* All of the inductive invariant the run growing checks, for every
\* configuration of a tree in which directories come and none goes.
THEOREM GrowingInvariant ==
  ASSUME Growing
  PROVE  Spec /\ TopLevelExists => []GrowInv
<1>1. Init /\ TopLevelExists => GrowInv
  BY GrowInit, WantedInit DEF GrowInv
<1>2. IInv /\ IInv' /\ GrowInv /\ [Next]_vars => GrowInv'
  <2> SUFFICES ASSUME IInv, IInv', GrowInv, [Next]_vars PROVE GrowInv'
    OBVIOUS
  <2>1. WatchedInv'
    BY GrowStep DEF GrowInv
  <2>2. TopLevelWanted => WantedInv'
    BY WantedStep DEF GrowInv
  <2> QED
    BY <2>1, <2>2 DEF GrowInv, TopLevelWanted, NotBelowIgnored
<1> QED
  BY <1>1, <1>2, Invariant, PTL DEF Spec

\* The program never loses a directory: once it has caught up it watches every
\* one it should, however the creations interleave with its scans
\* (add_watch's recursion against the IN_CREATE of process_inotify_events),
\* whatever the sizes of the queue and of the read buffer.
THEOREM GrowingWatched ==
  ASSUME Growing
  PROVE  Spec /\ TopLevelExists => []AllWatched
<1>1. IInv /\ GrowInv => AllWatched
  <2> SUFFICES ASSUME IInv, GrowInv, Quiet PROVE AllWatched
    BY DEF AllWatched
  <2>1. /\ pc = "idle" /\ queue = <<>> /\ buf = <<>> /\ calls = <<>>
        /\ Len(queue) = 0 /\ Len(buf) = 0 /\ Len(calls) = 0
    BY DEF Quiet, IInv, ControlInv, GrowInv, WatchedInv, CallInv
  <2>2. \A e : ~ Queued(queue, e) /\ ~ Queued(buf, e)
    BY <2>1 DEF Queued
  <2>3. ~ Pending(Overflow) /\ ~ Stopped
    BY <2>1, <2>2 DEF Pending, Stopped
  <2>4. \A wd, name : ~ Announced(wd, name)
    BY <2>1, <2>2 DEF Announced, Ahead
  <2>5. \A i, path : Accounted(i, path) => Declined(path) \/ Watched(i, path)
    BY <2>1 DEF Accounted
  <2>6. \A k \in DOMAIN TopLevel : \A i \in Resolve(TopLevel[k]) :
          Declined(TopLevel[k]) \/ Watched(i, TopLevel[k])
    BY <2>5 DEF GrowInv, WatchedInv, TopLevelInv
  <2>7. ASSUME NEW r \in rows, NEW d \in Inode, watch[d] = r.wd, NEW i \in Children(d),
               NEW path, path = Append(r.path, loc[i][2])
        PROVE  Declined(path) \/ Watched(i, path)
    <3>1. Accounted(i, path)
      BY <2>1, <2>3, <2>4, <2>7 DEF GrowInv, WatchedInv, ChildrenInv
    <3> QED
      BY <2>5, <3>1
  <2> QED
    BY <2>6, <2>7 DEF AllWatched
<1> QED
  BY <1>1, Invariant, GrowingInvariant, PTL

\* In such a tree every row has its watch, on the directory at its path, ...
THEOREM GrowingRowsTrue ==
  ASSUME Growing
  PROVE  Spec /\ TopLevelExists => []RowsTrue
<1>1. GrowInv => RowsTrue
  BY DEF GrowInv, WatchedInv, TableInv, RowsTrue
<1> QED
  BY <1>1, GrowingInvariant, PTL

\* ... and below the row of the directory above it, which is the one that
\* prune_wd_directory would find it under.
THEOREM GrowingParentLink ==
  ASSUME Growing
  PROVE  Spec /\ TopLevelExists => []ParentLink
<1>1. GrowInv => ParentLink
  BY DEF GrowInv, WatchedInv, LinkInv, LinkedTo, ParentLink
<1> QED
  BY <1>1, GrowingInvariant, PTL

\* Nothing at or below an excluded path or an ignored name is watched, if no
\* top-level path is below such a name (add_watch looks at the last name only).
THEOREM GrowingNothingExcluded ==
  ASSUME Growing, TopLevelWanted
  PROVE  Spec /\ TopLevelExists => []NothingExcludedWatched
<1>1. IInv /\ GrowInv => NothingExcludedWatched
  <2> SUFFICES ASSUME IInv, GrowInv, NEW i \in Unwanted, watch[i] # 0 PROVE FALSE
    BY DEF NothingExcludedWatched
  <2>1. i \in Inode
    BY DEF Unwanted, CoveredBy
  <2> QED
    BY <2>1, WatchedNotUnwanted DEF GrowInv
<1> QED
  BY <1>1, Invariant, GrowingInvariant, PTL
=============================================================================
