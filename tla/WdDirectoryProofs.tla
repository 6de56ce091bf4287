-------------------------- MODULE WdDirectoryProofs --------------------------
(***************************************************************************)
(* Theorems about WdDirectory, for every set of watches and every table:   *)
(* the first loop of prune_wd_directory lists what PruneSet defines, each  *)
(* wd once, it never ends for a wd below itself, and the two loops do what *)
(* WdStore does in one step.                                               *)
(***************************************************************************)
EXTENDS WdDirectory, SequenceTheorems, FiniteSetTheorems, NumberLemmas, TLAPS

-----------------------------------------------------------------------------
(***************************************************************************)
(* PruneSet.                                                               *)
(***************************************************************************)

\* It holds wd and the children of every wd it holds.
LEMMA PruneClosed ==
  ASSUME NEW tab, NEW wd
  PROVE  /\ wd \in PruneSet(tab, wd)
         /\ ClosedUnderChildren(tab, PruneSet(tab, wd))
<1>1. wd \in PruneSet(tab, wd)
  BY DEF PruneSet
<1>2. ASSUME NEW r \in tab, r.parent_wd \in PruneSet(tab, wd)
      PROVE  r.wd \in PruneSet(tab, wd)
  BY <1>2 DEF PruneSet, ClosedUnderChildren
<1> QED
  BY <1>1, <1>2 DEF ClosedUnderChildren

\* It is the least such set.
LEMMA PruneLeast ==
  ASSUME NEW tab, NEW wd, NEW S, wd \in S, ClosedUnderChildren(tab, S)
  PROVE  PruneSet(tab, wd) \subseteq S
<1> DEFINE W == {wd} \cup {r.wd : r \in tab}
           T == S \cap W
<1>1. T \in SUBSET W /\ wd \in T
  OBVIOUS
<1>2. ClosedUnderChildren(tab, T)
  BY DEF ClosedUnderChildren
<1> QED
  BY <1>1, <1>2, Zenon DEF PruneSet

\* What is below a wd in it is in it.
LEMMA PruneBelow ==
  ASSUME NEW tab, NEW wd, NEW x \in PruneSet(tab, wd)
  PROVE  PruneSet(tab, x) \subseteq PruneSet(tab, wd)
BY PruneClosed, PruneLeast

\* What is below a wd, other than the wd, is below a child of it.
LEMMA PruneVia ==
  ASSUME NEW tab, NEW x, NEW p \in PruneSet(tab, x), p # x
  PROVE  \E c \in find_children(tab, x) : p \in PruneSet(tab, c)
<1> DEFINE S == {x} \cup UNION {PruneSet(tab, c) : c \in find_children(tab, x)}
<1>1. ASSUME NEW r \in tab, r.parent_wd \in S
      PROVE  r.wd \in S
  <2>1. CASE r.parent_wd = x
    <3>1. r.wd \in find_children(tab, x)
      BY <2>1 DEF find_children
    <3>2. r.wd \in PruneSet(tab, r.wd)
      BY PruneClosed
    <3> QED
      BY <3>1, <3>2
  <2>2. CASE r.parent_wd # x
    <3>1. PICK c \in find_children(tab, x) : r.parent_wd \in PruneSet(tab, c)
      BY <1>1, <2>2
    <3>2. r.wd \in PruneSet(tab, c)
      BY <3>1, PruneClosed DEF ClosedUnderChildren
    <3> QED
      BY <3>2
  <2> QED
    BY <2>1, <2>2
<1>2. ClosedUnderChildren(tab, S) /\ x \in S
  BY <1>1 DEF ClosedUnderChildren
<1>3. p \in S
  <2> HIDE DEF S
  <2> QED
    BY <1>2, PruneLeast
<1> QED
  BY <1>3

-----------------------------------------------------------------------------
(***************************************************************************)
(* A turn of the first loop.                                               *)
(***************************************************************************)
\* Elements, with the positions written out.
LEMMA ElementsAre ==
  ASSUME NEW s \in Seq(Wd)
  PROVE  DOMAIN s = 1 .. Len(s) /\ Elements(s) = {s[k] : k \in 1 .. Len(s)}
<1>1. DOMAIN s = 1 .. Len(s)
  OBVIOUS
<1> QED
  BY <1>1, Zenon DEF Elements

\* The children of a wd are watches, finitely many.
LEMMA ChildrenType ==
  ASSUME TypeOK, NEW wd
  PROVE  /\ find_children(rows, wd) \subseteq Wd
         /\ IsFiniteSet(find_children(rows, wd))
         /\ Cardinality(find_children(rows, wd)) \in Nat
<1>1. find_children(rows, wd) \subseteq Wd
  BY DEF TypeOK, find_children
<1> QED
  BY <1>1, WdDirectoryAssumption, FS_Subset, FS_CardinalityType

\* Filling as many places as there are children with all of them names each
\* child once.
LEMMA OrderInjective ==
  ASSUME NEW C, IsFiniteSet(C), NEW order \in [1 .. Cardinality(C) -> C],
         C \subseteq Elements(order)
  PROVE  \A j, k \in 1 .. Cardinality(C) : order[j] = order[k] => j = k
<1> DEFINE n == Cardinality(C)
<1>1. n \in Nat
  BY FS_CardinalityType
<1>2. IsFiniteSet(1 .. n) /\ Cardinality(1 .. n) = n
  <2>1. 1 \in Int /\ n \in Int
    BY <1>1
  <2>2. IsFiniteSet(1 .. n) /\ Cardinality(1 .. n) = IF 1 > n THEN 0 ELSE n - 1 + 1
    BY <2>1, FS_Interval, Zenon
  <2> QED
    BY <1>1, <2>2
<1>3. order \in Surjection(1 .. n, C)
  BY DEF Surjection, Elements
<1>4. order \in Injection(1 .. n, C)
  BY <1>2, <1>3, FS_SurjSameCardinalityImpliesInj
<1> QED
  BY <1>4 DEF Injection, IsInjective

\* The list grows by the children of current_p, each once.
LEMMA Appended ==
  ASSUME TypeOK, AppendChildren
  PROVE  /\ list' \in Seq(Wd)
         /\ Len(list') \in Nat /\ Len(list) \in Nat /\ Len(list) <= Len(list')
         /\ \A k \in 1 .. Len(list) : list'[k] = list[k]
         /\ \A m \in Len(list) + 1 .. Len(list') :
              list'[m] \in find_children(rows, list[current])
         /\ \A w \in find_children(rows, list[current]) :
              \E m \in Len(list) + 1 .. Len(list') : list'[m] = w
         /\ \A m, n \in Len(list) + 1 .. Len(list') : list'[m] = list'[n] => m = n
<1> DEFINE C == find_children(rows, list[current])
<1>1. C \subseteq Wd /\ IsFiniteSet(C) /\ Cardinality(C) \in Nat
  BY ChildrenType
<1>2. PICK order \in [1 .. Cardinality(C) -> C] :
        C \subseteq Elements(order) /\ list' = list \o order
  BY DEF AppendChildren
<1>3. PICK n \in Nat : n = Cardinality(C)
  BY <1>1
<1>4. PICK l \in Nat : l = Len(list)
  BY DEF TypeOK
<1> HIDE DEF C
<1>5. order \in Seq(Wd) /\ Len(order) = n /\ DOMAIN order = 1 .. n
  <2>1. order \in [1 .. n -> Wd]
    BY <1>1, <1>2, <1>3
  <2> QED
    BY <2>1
<1>6. /\ list' \in Seq(Wd) /\ Len(list') = l + n
      /\ \A m \in 1 .. l + n : list'[m] = IF m <= l THEN list[m] ELSE order[m - l]
  <2>1. list \in Seq(Wd)
    BY DEF TypeOK
  <2>2. /\ list \o order \in Seq(Wd) /\ Len(list \o order) = l + n
        /\ \A m \in 1 .. l + n : (list \o order)[m] = IF m <= l THEN list[m] ELSE order[m - l]
    BY <1>4, <1>5, <2>1, ConcatProperties
  <2> QED
    BY <1>2, <2>2
<1>7. \A m \in l + 1 .. l + n : m - l \in 1 .. n /\ list'[m] = order[m - l]
  BY <1>6
<1>8. \A m \in l + 1 .. l + n : list'[m] \in C
  BY <1>2, <1>3, <1>7
<1>9. ASSUME NEW w \in C
      PROVE  \E m \in l + 1 .. l + n : list'[m] = w
  <2>1. PICK k \in 1 .. n : order[k] = w
    BY <1>2, <1>5 DEF Elements
  <2>2. l + k \in l + 1 .. l + n /\ (l + k) - l = k
    OBVIOUS
  <2> QED
    BY <1>7, <2>1, <2>2
<1>10. ASSUME NEW m \in l + 1 .. l + n, NEW k \in l + 1 .. l + n, list'[m] = list'[k]
       PROVE  m = k
  <2>1. \A j, i \in 1 .. n : order[j] = order[i] => j = i
    BY <1>1, <1>2, <1>3, OrderInjective
  <2>2. order[m - l] = order[k - l] /\ m - l \in 1 .. n /\ k - l \in 1 .. n
    BY <1>7, <1>10
  <2>3. m - l = k - l
    BY <2>1, <2>2, Zenon
  <2> QED
    BY <2>3
<1>11. \A k \in 1 .. l : list'[k] = list[k]
  BY <1>6
<1> QED
  BY <1>4, <1>6, <1>8, <1>9, <1>10, <1>11 DEF C

\* What is below a wd of the list is behind it in the list when the first
\* loop is left: current_p was at the end and had no children.
LEMMA LeftAtEnd ==
  ASSUME IInv, AppendChildren, pc' = "remove"
  PROVE  /\ Len(list) \in Nat \ {0} /\ current = Len(list) /\ Len(list') = Len(list)
         /\ find_children(rows, list[current]) = {}
         /\ \A k \in 1 .. Len(list) : list'[k] = list[k]
<1>1. pc = "append" /\ current \in Nat \ {0} /\ current <= Len(list)
  BY DEF IInv, TypeOK, AppendChildren
<1>2. ~ (current < Len(list'))
  BY <1>1 DEF AppendChildren
<1>3. /\ Len(list') \in Nat /\ Len(list) \in Nat /\ Len(list) <= Len(list')
      /\ \A k \in 1 .. Len(list) : list'[k] = list[k]
      /\ \A w \in find_children(rows, list[current]) :
           \E m \in Len(list) + 1 .. Len(list') : list'[m] = w
  BY Appended DEF IInv
<1>4. current = Len(list) /\ Len(list') = Len(list)
  BY <1>1, <1>2, <1>3
<1> QED
  BY <1>1, <1>3, <1>4

\* The loop is not left for a wd below itself: of the wds in the list that
\* the wd's parent is below, the last has a child that it is below too, and
\* that child is behind it.
LEMMA LeftConverges ==
  ASSUME IInv, AppendChildren, pc' = "remove"
  PROVE  ~ PruneDiverges(rows, list[1])
<1> SUFFICES ASSUME PruneDiverges(rows, list[1])
             PROVE  FALSE
  OBVIOUS
<1>1. PICK r \in rows : r.wd = list[1] /\ r.parent_wd \in PruneSet(rows, list[1])
  BY DEF PruneDiverges
<1>2. PICK p : p = r.parent_wd
  OBVIOUS
<1>3. PICK l \in Nat \ {0} : l = Len(list) /\ l = current
  BY LeftAtEnd
<1> DEFINE T == {m \in 1 .. l : p \in PruneSet(rows, list[m])}
<1>4. T \in SUBSET (0 .. l) /\ T # {}
  <2>1. 1 \in T
    BY <1>1, <1>2, <1>3
  <2> QED
    BY <2>1, <1>3
<1>5. PICK m \in T : \A k \in T : k <= m
  <2> HIDE DEF T
  <2> QED
    BY <1>3, <1>4, Greatest
<1>6. PICK c \in find_children(rows, list[m]) : p \in PruneSet(rows, c)
  <2>1. CASE p = list[m]
    <3>1. list[1] \in find_children(rows, list[m])
      BY <1>1, <1>2, <2>1 DEF find_children
    <3> QED
      BY <1>1, <1>2, <3>1
  <2>2. CASE p # list[m]
    BY <1>5, <2>2, PruneVia
  <2> QED
    BY <2>1, <2>2
<1>7. m \in 1 .. l - 1
  <2>1. m # l
    BY <1>3, <1>6, LeftAtEnd
  <2> QED
    BY <1>3, <1>5, <2>1
<1>8. PICK k \in m + 1 .. l : list[k] = c
  BY <1>3, <1>6, <1>7 DEF IInv, ListInv, AppendChildren
<1>9. k \in T /\ m < k
  BY <1>6, <1>7, <1>8
<1> QED
  BY <1>5, <1>7, <1>9

\* The list is then what PruneSet defines.
LEMMA LeftComplete ==
  ASSUME IInv, AppendChildren, pc' = "remove"
  PROVE  {list'[k] : k \in 1 .. Len(list')} = PruneSet(rows, list[1])
<1>1. PICK l \in Nat \ {0} : l = Len(list) /\ l = current /\ l = Len(list')
  BY LeftAtEnd
<1> DEFINE E == {list[k] : k \in 1 .. l}
<1>2. {list'[k] : k \in 1 .. Len(list')} = E
  BY <1>1, LeftAtEnd
<1>3. E = Elements(list)
  BY <1>1, ElementsAre DEF IInv, TypeOK
<1>4. E \subseteq PruneSet(rows, list[1])
  BY <1>3 DEF IInv, ListSound, AppendChildren
<1>5. list[1] \in E
  BY <1>1
<1>6. ASSUME NEW r \in rows, r.parent_wd \in E
      PROVE  r.wd \in E
  <2>1. PICK k \in 1 .. l : r.parent_wd = list[k]
    BY <1>6
  <2>2. r.wd \in find_children(rows, list[k])
    BY <2>1 DEF find_children
  <2>3. k # l
    BY <1>1, <2>2, LeftAtEnd
  <2>4. k \in 1 .. current - 1
    BY <1>1, <2>3
  <2> QED
    BY <1>3, <2>2, <2>4 DEF IInv, ListSound, AppendChildren
<1>7. PruneSet(rows, list[1]) \subseteq E
  <2>1. ClosedUnderChildren(rows, E)
    BY <1>6 DEF ClosedUnderChildren
  <2> HIDE DEF E
  <2> QED
    BY <1>5, <2>1, PruneLeast
<1> HIDE DEF E
<1> QED
  BY <1>2, <1>4, <1>7

-----------------------------------------------------------------------------
(***************************************************************************)
(* The inductive invariant.                                                *)
(***************************************************************************)

\* A turn of the first loop keeps it.
LEMMA AppendKeeps ==
  ASSUME IInv, AppendChildren
  PROVE  IInv'
<1>1. /\ pc = "append" /\ current \in Nat \ {0} /\ current <= Len(list)
      /\ rows' = rows /\ returned' = returned
  BY DEF IInv, TypeOK, AppendChildren
<1>2. PICK l \in Nat \ {0} : l = Len(list)
  BY <1>1 DEF IInv, TypeOK
<1>3. PICK n \in Nat \ {0} : n = Len(list') /\ l <= n
  BY <1>2, Appended DEF IInv
<1>4. /\ list' \in Seq(Wd)
      /\ \A k \in 1 .. l : list'[k] = list[k]
      /\ \A m \in l + 1 .. n : list'[m] \in find_children(rows, list[current])
      /\ \A w \in find_children(rows, list[current]) :
           \E m \in l + 1 .. n : list'[m] = w
      /\ \A j, k \in l + 1 .. n : list'[j] = list'[k] => j = k
  BY <1>2, <1>3, Appended DEF IInv
<1>5. \/ current < n /\ current' = current + 1 /\ pc' = "append"
      \/ ~ (current < n) /\ current' = 1 /\ pc' = "remove"
  BY <1>1, <1>3 DEF AppendChildren
<1>6. TypeOK' /\ (pc' = "append" => current' - 1 = current)
  BY <1>1, <1>3, <1>4, <1>5 DEF IInv, TypeOK
<1>7. DOMAIN list = 1 .. l /\ DOMAIN list' = 1 .. n
  BY <1>2, <1>3, <1>4, ElementsAre DEF IInv, TypeOK
<1>8. Elements(list') = {list'[k] : k \in 1 .. n}
  BY <1>3, <1>4, ElementsAre
<1>9. Elements(list) = {list[k] : k \in 1 .. l}
  BY <1>2, ElementsAre DEF IInv, TypeOK
<1>10. list'[1] = list[1] /\ 1 \in 1 .. l /\ 1 \in 1 .. n
  BY <1>2, <1>3, <1>4
<1>11. ListInv'
  <2> DEFINE Listed == \A m \in 2 .. n : \E r \in rows, j \in 1 .. current :
                         r.wd = list'[m] /\ r.parent_wd = list'[j]
             Passed == \A j \in 1 .. current : \A w \in find_children(rows, list'[j]) :
                         \E m \in j + 1 .. n : list'[m] = w
  <2>1. ASSUME NEW m \in 2 .. n
        PROVE  \E r \in rows, j \in 1 .. current : r.wd = list'[m] /\ r.parent_wd = list'[j]
    <3>1. CASE m \in 2 .. l
      <4>1. PICK r \in rows, j \in 1 .. current - 1 : r.wd = list[m] /\ r.parent_wd = list[j]
        BY <1>1, <1>2, <3>1 DEF IInv, ListInv
      <4> QED
        BY <1>1, <1>2, <1>4, <3>1, <4>1
    <3>2. CASE m \in l + 1 .. n
      <4>1. PICK r \in rows : r.parent_wd = list[current] /\ r.wd = list'[m]
        BY <1>4, <3>2 DEF find_children
      <4> QED
        BY <1>1, <1>2, <1>4, <4>1
    <3> QED
      BY <1>2, <1>3, <3>1, <3>2
  <2>2. ASSUME NEW j \in 1 .. current, NEW w \in find_children(rows, list'[j])
        PROVE  \E m \in j + 1 .. n : list'[m] = w
    <3>1. list'[j] = list[j]
      BY <1>1, <1>2, <1>4
    <3>2. CASE j \in 1 .. current - 1
      <4>1. PICK m \in j + 1 .. l : list[m] = w
        BY <1>1, <1>2, <3>1, <3>2 DEF IInv, ListInv
      <4> QED
        BY <1>1, <1>2, <1>3, <1>4, <3>2, <4>1
    <3>3. CASE j = current
      <4>1. PICK m \in l + 1 .. n : list'[m] = w
        BY <1>4, <3>1, <3>3
      <4> QED
        BY <1>1, <1>2, <1>3, <3>3, <4>1
    <3> QED
      BY <1>1, <3>2, <3>3
  <2>3. Listed /\ Passed
    BY <2>1, <2>2
  <2>4. (pc = "append")' => 1 .. (current - 1)' = 1 .. current
    BY <1>6
  <2>5. Len(list)' = n /\ rows' = rows
    BY <1>1, <1>3
  <2>6. ASSUME (pc = "append")'
        PROVE  \A m \in 2 .. Len(list') : \E r \in rows', j \in 1 .. current' - 1 :
                 r.wd = list'[m] /\ r.parent_wd = list'[j]
    <3>1. 1 .. current' - 1 = 1 .. current
      BY <2>4, <2>6
    <3> TAKE m \in 2 .. Len(list')
    <3>3. m \in 2 .. n
      BY <2>5
    <3>4. PICK r \in rows, j \in 1 .. current : r.wd = list'[m] /\ r.parent_wd = list'[j]
      BY <2>1, <3>3
    <3>5. r \in rows' /\ j \in 1 .. current' - 1
      BY <2>5, <3>1
    <3> QED
      BY <3>4, <3>5
  <2>7. ASSUME (pc = "append")'
        PROVE  \A j \in 1 .. current' - 1 : \A w \in find_children(rows', list'[j]) :
                 \E m \in j + 1 .. Len(list') : list'[m] = w
    BY <2>3, <2>4, <2>5, <2>7
  <2> HIDE DEF Listed, Passed
  <2> QED
    BY <2>6, <2>7 DEF ListInv
<1>12. ListSound'
  <2> SUFFICES ASSUME pc' = "append"
               PROVE  /\ list'[1] \in Elements(list')
                      /\ Elements(list') \subseteq PruneSet(rows, list'[1])
                      /\ \A k \in 1 .. current :
                           find_children(rows, list'[k]) \subseteq Elements(list')
    BY <1>1, <1>6, Zenon DEF ListSound
  <2>1. list'[1] \in Elements(list')
    BY <1>8, <1>10
  <2>2. ASSUME NEW m \in 1 .. n
        PROVE  list'[m] \in PruneSet(rows, list[1])
    <3>1. \A k \in 1 .. l : list[k] \in PruneSet(rows, list[1])
      BY <1>1, <1>9 DEF IInv, ListSound
    <3>2. CASE m \in 1 .. l
      BY <1>4, <3>1, <3>2
    <3>3. CASE m \in l + 1 .. n
      <4>1. PICK r \in rows : r.parent_wd = list[current] /\ r.wd = list'[m]
        BY <1>4, <3>3 DEF find_children
      <4>2. list[current] \in PruneSet(rows, list[1])
        BY <1>1, <1>2, <3>1
      <4> QED
        BY <4>1, <4>2, PruneClosed DEF ClosedUnderChildren
    <3> QED
      BY <1>2, <1>3, <3>2, <3>3
  <2>3. ASSUME NEW k \in 1 .. current, NEW w \in find_children(rows, list'[k])
        PROVE  w \in Elements(list')
    <3>1. PICK m \in k + 1 .. n : list'[m] = w
      BY <1>1, <1>3, <1>6, <1>11, Zenon DEF ListInv
    <3> QED
      BY <1>3, <1>8, <3>1
  <2> QED
    BY <1>8, <1>10, <2>1, <2>2, <2>3
<1>13. ListedOnce'
  <2>1. pc' = "remove" => ~ PruneDiverges(rows, list[1])
    BY LeftConverges
  <2> SUFFICES ASSUME ~ PruneDiverges(rows, list[1]),
                      NEW j \in 1 .. n, NEW k \in 1 .. n, list'[j] = list'[k]
               PROVE  j = k
    BY <1>1, <1>5, <1>7, <1>10, <2>1 DEF ListedOnce
  <2>2. \A a, b \in 1 .. l : list[a] = list[b] => a = b
    BY <1>1, <1>7 DEF IInv, ListedOnce
  <2>3. ASSUME NEW a \in 1 .. l, NEW b \in l + 1 .. n, list'[a] = list'[b]
        PROVE  FALSE
    <3>1. PICK r \in rows : r.parent_wd = list[current] /\ r.wd = list'[b]
      BY <1>4 DEF find_children
    <3>2. r.wd = list[a]
      BY <1>4, <2>3, <3>1
    <3>3. CASE a = 1
      <4>1. list[current] \in PruneSet(rows, list[1])
        BY <1>1, <1>2, <1>9 DEF IInv, ListSound
      <4> QED
        BY <3>1, <3>2, <3>3, <4>1 DEF PruneDiverges
    <3>4. CASE a \in 2 .. l
      <4>1. PICK q \in rows, i \in 1 .. current - 1 : q.wd = list[a] /\ q.parent_wd = list[i]
        BY <1>1, <1>2, <3>4 DEF IInv, ListInv
      <4>2. q = r
        BY <3>2, <4>1 DEF IInv, UniqueWds
      <4>3. i \in 1 .. l /\ current \in 1 .. l /\ i # current
        BY <1>1, <1>2
      <4> QED
        BY <2>2, <3>1, <4>1, <4>2, <4>3
    <3> QED
      BY <1>2, <3>3, <3>4
  <2>4. (j \in 1 .. l \/ j \in l + 1 .. n) /\ (k \in 1 .. l \/ k \in l + 1 .. n)
    BY <1>2, <1>3
  <2> QED
    BY <1>4, <2>2, <2>3, <2>4
<1>14. UniqueWds'
  BY <1>1 DEF IInv, UniqueWds
<1> QED
  BY <1>6, <1>11, <1>12, <1>13, <1>14 DEF IInv

\* So do the turns of the second.
LEMMA RemoveListedKeeps ==
  ASSUME IInv, RemoveListed
  PROVE  IInv'
<1>1. /\ pc = "remove" /\ rows' \subseteq rows /\ list' = list
      /\ \/ current < Len(list) /\ current' = current + 1 /\ pc' = pc /\ returned' = returned
         \/ current' = 1 /\ pc' = "ready" /\ returned' = list
  BY DEF RemoveListed, remove_wd_directory
<1>2. Len(list) \in Nat
  BY DEF IInv, TypeOK
<1>3. TypeOK'
  BY <1>1, <1>2 DEF IInv, TypeOK
<1>4. ListSound' /\ ListInv'
  BY <1>1 DEF ListSound, ListInv
<1>5. ListedOnce'
  BY <1>1 DEF IInv, ListedOnce
<1>6. UniqueWds'
  BY <1>1 DEF IInv, UniqueWds
<1> QED
  BY <1>3, <1>4, <1>5, <1>6 DEF IInv

\* Between the calls only the key matters, and at the start of a prune the
\* list is the wd.
LEMMA ReadyKeeps ==
  ASSUME IInv, NEW wd \in Wd,
         \/ \E parent_wd \in Wd \cup {NULL_WD}, path \in Path : Add(wd, parent_wd, path)
         \/ Remove(wd) \/ StartPrune(wd)
  PROVE  IInv'
<1>1. ASSUME NEW parent_wd \in Wd \cup {NULL_WD}, NEW path \in Path, Add(wd, parent_wd, path)
      PROVE  IInv'
  <2>1. TypeOK'
    BY <1>1 DEF Add, add_wd_directory, Row, IInv, TypeOK
  <2>2. ListSound' /\ ListInv' /\ ListedOnce'
    BY <1>1 DEF Add, ListSound, ListInv, ListedOnce
  <2>3. UniqueWds'
    BY <1>1 DEF Add, InsertAllowed, add_wd_directory, Row, IInv, UniqueWds
  <2> QED
    BY <2>1, <2>2, <2>3 DEF IInv
<1>2. CASE Remove(wd)
  <2>1. TypeOK'
    BY <1>2 DEF Remove, remove_wd_directory, IInv, TypeOK
  <2>2. ListSound' /\ ListInv' /\ ListedOnce'
    BY <1>2 DEF Remove, ListSound, ListInv, ListedOnce
  <2>3. UniqueWds'
    BY <1>2 DEF Remove, remove_wd_directory, IInv, UniqueWds
  <2> QED
    BY <2>1, <2>2, <2>3 DEF IInv
<1>3. CASE StartPrune(wd)
  <2>1. pc' = "append" /\ list' = <<wd>> /\ current' = 1 /\ UNCHANGED <<rows, returned>>
    BY <1>3 DEF StartPrune
  <2>2. list' \in Seq(Wd) /\ Len(list') = 1 /\ DOMAIN list' = 1 .. 1 /\ list'[1] = wd
    BY <2>1
  <2>3. TypeOK'
    BY <2>1, <2>2 DEF IInv, TypeOK
  <2>4. Elements(list') = {wd}
    BY <2>2 DEF Elements
  <2>5. ListSound'
    BY <2>1, <2>2, <2>4, PruneClosed DEF ListSound
  <2>6. ListInv' /\ ListedOnce'
    BY <2>1, <2>2 DEF ListInv, ListedOnce
  <2>7. UniqueWds'
    BY <2>1 DEF IInv, UniqueWds
  <2> QED
    BY <2>3, <2>5, <2>6, <2>7 DEF IInv
<1> QED
  BY <1>1, <1>2, <1>3

\* The list is built soundly, and the wds of a list that ends are distinct.
THEOREM Invariant == Spec => []IInv
<1>1. Init => IInv
  BY DEF Init, IInv, TypeOK, ListSound, ListedOnce, ListInv, UniqueWds
<1>2. IInv /\ [Next]_vars => IInv'
  <2> SUFFICES ASSUME IInv, [Next]_vars
               PROVE  IInv'
    OBVIOUS
  <2>1. CASE \E wd \in Wd, parent_wd \in Wd \cup {NULL_WD}, path \in Path :
               Add(wd, parent_wd, path)
    BY <2>1, ReadyKeeps
  <2>2. CASE \E wd \in Wd : Remove(wd) \/ StartPrune(wd)
    BY <2>2, ReadyKeeps
  <2>3. CASE AppendChildren
    BY <2>3, AppendKeeps
  <2>4. CASE RemoveListed
    BY <2>4, RemoveListedKeeps
  <2>5. CASE UNCHANGED vars
    BY <2>5 DEF vars, IInv, TypeOK, ListSound, ListedOnce, ListInv, UniqueWds
  <2> QED
    BY <2>1, <2>2, <2>3, <2>4, <2>5 DEF Next
<1> QED
  BY <1>1, <1>2, PTL DEF Spec

\* Every variable has its type; in a loop current_p points into the list.
THEOREM TypeCorrect == Spec => []TypeOK
<1>1. IInv => TypeOK
  BY DEF IInv
<1> QED
  BY <1>1, Invariant, PTL

\* The first loop's invariant: the list holds wd, wds below it, and the
\* children of every wd current_p has passed.
THEOREM ListAlwaysSound == Spec => []ListSound
<1>1. IInv => ListSound
  BY DEF IInv
<1> QED
  BY <1>1, Invariant, PTL

\* A list that ends names no wd twice, so no watch is removed twice for it.
THEOREM ListsOnce == Spec => []ListedOnce
<1>1. IInv => ListedOnce
  BY DEF IInv
<1> QED
  BY <1>1, Invariant, PTL

\* prune_wd_directory never returns for a wd that is below itself.
THEOREM NeverReturns == Spec => DivergingNeverReturns
<1>1. IInv /\ [Next]_vars =>
        [pc = "append" /\ PruneDiverges(rows, list[1]) => pc' = "append"]_vars
  <2> SUFFICES ASSUME IInv, Next, pc = "append", PruneDiverges(rows, list[1])
               PROVE  pc' = "append"
    BY DEF vars
  <2>1. AppendChildren
    BY DEF Next, Add, Remove, StartPrune, RemoveListed
  <2>2. pc' # "remove"
    BY <2>1, LeftConverges
  <2> QED
    BY <2>1, <2>2 DEF AppendChildren
<1> QED
  BY <1>1, Invariant, PTL DEF Spec, DivergingNeverReturns

-----------------------------------------------------------------------------
(***************************************************************************)
(* WdDirectory implements WdStore.                                         *)
(***************************************************************************)

\* The rows and the list of a caller, as WdStore sees them.
Table == IF pc = "remove"
           THEN {r \in rows : \A k \in current .. Len(list) : list[k] # r.wd}
           ELSE rows
Returned == Elements(IF pc = "remove" THEN list ELSE returned)

\* The turn that leaves the first loop is the prune.
LEMMA AppendImplements ==
  ASSUME IInv, AppendChildren
  PROVE  \/ UNCHANGED <<Table, Returned>> /\ pc # "remove" /\ pc' # "remove"
         \/ /\ ~ PruneDiverges(Table, list[1]) /\ list[1] \in Wd
            /\ Table' = prune_wd_directory(Table, list[1])
            /\ Returned' = PruneSet(Table, list[1])
            /\ pc # "remove" /\ pc' = "remove"
<1>1. pc = "append" /\ rows' = rows /\ returned' = returned /\ Table = rows
  BY DEF AppendChildren, Table
<1>2. CASE pc' # "remove"
  BY <1>1, <1>2 DEF Table, Returned
<1>3. CASE pc' = "remove"
  <2>1. ~ PruneDiverges(rows, list[1])
    BY <1>3, LeftConverges
  <2>2. {list'[k] : k \in 1 .. Len(list')} = PruneSet(rows, list[1])
    BY <1>3, LeftComplete
  <2>3. list' \in Seq(Wd) /\ current' = 1
    BY <1>1, <1>3, Appended DEF IInv, AppendChildren
  <2>4. Returned' = PruneSet(rows, list[1])
    BY <1>3, <2>2, <2>3, ElementsAre DEF Returned
  <2>5. Table' = {r \in rows : \A k \in 1 .. Len(list') : list'[k] # r.wd}
    BY <1>1, <1>3, <2>3 DEF Table
  <2>6. Table' = prune_wd_directory(rows, list[1])
    BY <2>2, <2>5 DEF prune_wd_directory
  <2>7. list[1] \in Wd
    BY <1>1 DEF IInv, TypeOK
  <2> QED
    BY <1>1, <1>3, <2>1, <2>4, <2>6, <2>7
<1> QED
  BY <1>2, <1>3

\* A turn of the second loop removes a row that is gone for the callers, and
\* the last one returns.
LEMMA RemoveListedImplements ==
  ASSUME IInv, RemoveListed
  PROVE  UNCHANGED <<Table, Returned>> /\ pc = "remove" /\ pc' \in {"remove", "ready"}
<1>1. PICK l \in Nat : l = Len(list) /\ current \in 1 .. l
  BY DEF IInv, TypeOK, RemoveListed
<1>2. PICK c \in 1 .. l : c = current
  BY <1>1
<1>3. /\ pc = "remove" /\ list' = list
      /\ rows' = {r \in rows : r.wd # list[c]}
  BY <1>2 DEF RemoveListed, remove_wd_directory
<1>4. Table = {r \in rows : \A k \in c .. l : list[k] # r.wd}
  BY <1>1, <1>2, <1>3 DEF Table
<1>5. CASE current < Len(list)
  <2>1. current' = c + 1 /\ pc' = "remove" /\ c < l
    BY <1>1, <1>2, <1>3, <1>5 DEF RemoveListed
  <2>2. Table' = {r \in rows' : \A k \in c + 1 .. l : list[k] # r.wd}
    BY <1>1, <1>3, <2>1 DEF Table
  <2>3. c .. l = {c} \cup (c + 1 .. l)
    BY <2>1
  <2>4. Table' = Table
    BY <1>3, <1>4, <2>2, <2>3
  <2> QED
    BY <1>3, <2>1, <2>4 DEF Returned
<1>6. CASE ~ (current < Len(list))
  <2>1. pc' = "ready" /\ returned' = list /\ c .. l = {c}
    BY <1>1, <1>2, <1>6 DEF RemoveListed
  <2>2. Table' = rows'
    BY <2>1 DEF Table
  <2>3. Table' = Table
    BY <1>3, <1>4, <2>1, <2>2
  <2> QED
    BY <1>3, <2>1, <2>3 DEF Returned
<1> QED
  BY <1>5, <1>6

\* WdStore and WdDirectory have the operators of WdTable in common.
LEMMA SameTable ==
  ASSUME NEW tab, NEW wd, NEW parent_wd, NEW path
  PROVE  /\ Store!NULL_WD = NULL_WD
         /\ Store!InsertAllowed(tab, wd, path) = InsertAllowed(tab, wd, path)
         /\ Store!add_wd_directory(tab, wd, parent_wd, path) =
              add_wd_directory(tab, wd, parent_wd, path)
         /\ Store!remove_wd_directory(tab, wd) = remove_wd_directory(tab, wd)
         /\ Store!PruneSet(tab, wd) = PruneSet(tab, wd)
         /\ Store!PruneDiverges(tab, wd) = PruneDiverges(tab, wd)
         /\ Store!prune_wd_directory(tab, wd) = prune_wd_directory(tab, wd)
<1>1. Store!PruneSet(tab, wd) = PruneSet(tab, wd)
  BY Zenon DEF Store!PruneSet, PruneSet, Store!ClosedUnderChildren, ClosedUnderChildren
<1>2. /\ Store!PruneDiverges(tab, wd) = PruneDiverges(tab, wd)
      /\ Store!prune_wd_directory(tab, wd) = prune_wd_directory(tab, wd)
  BY <1>1, Zenon DEF Store!PruneDiverges, PruneDiverges,
                     Store!prune_wd_directory, prune_wd_directory
<1>3. Store!InsertAllowed(tab, wd, path) = InsertAllowed(tab, wd, path)
  BY Zenon DEF Store!InsertAllowed, InsertAllowed
<1>4. /\ Store!NULL_WD = NULL_WD
      /\ Store!add_wd_directory(tab, wd, parent_wd, path) =
           add_wd_directory(tab, wd, parent_wd, path)
      /\ Store!remove_wd_directory(tab, wd) = remove_wd_directory(tab, wd)
  BY DEF Store!NULL_WD, NULL_WD, Store!add_wd_directory, add_wd_directory, Store!Row, Row,
         Store!remove_wd_directory, remove_wd_directory
<1> QED
  BY <1>1, <1>2, <1>3, <1>4

\* Every step is a step of WdStore or leaves its state alone.
LEMMA StepImplements ==
  ASSUME IInv, [Next]_vars
  PROVE  [Store!Next]_<<Table, Returned, pc = "remove">>
<1>1. ASSUME NEW wd \in Wd, NEW parent_wd \in Wd \cup {NULL_WD}, NEW path \in Path,
             Add(wd, parent_wd, path)
      PROVE  [Store!Next]_<<Table, Returned, pc = "remove">>
  <2>1. /\ pc = "ready" /\ pc' \in {"ready", "exit"} /\ Table = rows /\ Table' = rows'
        /\ Returned' = Returned
    BY <1>1 DEF Add, Table, Returned
  <2>2. (pc = "remove")' = (pc = "remove")
    BY <2>1
  <2>3. CASE InsertAllowed(rows, wd, path)
    <3>1. Table' = add_wd_directory(Table, wd, parent_wd, path)
      BY <1>1, <2>1, <2>3 DEF Add
    <3>2. Store!Add(wd, parent_wd, path)
      BY <2>1, <2>2, <2>3, <3>1, SameTable DEF Store!Add, Table, Returned
    <3>3. parent_wd \in Wd \cup {Store!NULL_WD}
      BY SameTable
    <3> QED
      BY <3>2, <3>3, Zenon DEF Store!Next
  <2>4. CASE ~ InsertAllowed(rows, wd, path)
    BY <1>1, <2>1, <2>2, <2>4 DEF Add
  <2> QED
    BY <2>3, <2>4
<1>2. ASSUME NEW wd \in Wd, Remove(wd)
      PROVE  Store!Next
  <2>1. /\ pc = "ready" /\ (pc = "remove")' = (pc = "remove") /\ Returned' = Returned
        /\ Table' = remove_wd_directory(Table, wd)
    BY <1>2 DEF Remove, Table, Returned
  <2>2. Store!Remove(wd)
    BY <2>1, SameTable DEF Store!Remove, Table, Returned
  <2> QED
    BY <2>2, Zenon DEF Store!Next
<1>3. ASSUME NEW wd \in Wd, StartPrune(wd)
      PROVE  UNCHANGED <<Table, Returned, pc = "remove">>
  BY <1>3 DEF StartPrune, Table, Returned
<1>4. CASE AppendChildren
  <2>1. CASE UNCHANGED <<Table, Returned>> /\ pc # "remove" /\ pc' # "remove"
    BY <2>1
  <2>2. CASE /\ ~ PruneDiverges(Table, list[1]) /\ list[1] \in Wd
             /\ Table' = prune_wd_directory(Table, list[1])
             /\ Returned' = PruneSet(Table, list[1])
             /\ pc # "remove" /\ pc' = "remove"
    <3>1. PICK wd \in Wd : wd = list[1]
      BY <2>2
    <3>2. Store!Prune(wd)
      BY <2>2, <3>1, SameTable DEF Store!Prune, Table, Returned
    <3> QED
      BY <3>2, Zenon DEF Store!Next
  <2> QED
    BY <1>4, <2>1, <2>2, AppendImplements
<1>5. CASE RemoveListed
  <2>1. UNCHANGED <<Table, Returned>> /\ pc = "remove" /\ pc' \in {"remove", "ready"}
    BY <1>5, RemoveListedImplements
  <2>2. CASE pc' = "remove"
    BY <2>1, <2>2
  <2>3. CASE pc' = "ready"
    <3>1. Store!Return
      BY <2>1, <2>3 DEF Store!Return, Table, Returned
    <3> QED
      BY <3>1, Zenon DEF Store!Next
  <2> QED
    BY <2>1, <2>2, <2>3
<1>6. CASE UNCHANGED vars
  BY <1>6 DEF vars, Table, Returned
<1> QED
  BY <1>1, <1>2, <1>3, <1>4, <1>5, <1>6 DEF Next

\* The calls are atomic to their callers: prune_wd_directory removes exactly
\* the rows of wd and of all below it, and returns exactly their wds.
THEOREM ImplementsStore == Spec => StoreSpec
<1>1. Init => Store!Init
  BY DEF Init, Store!Init, Elements
<1>2. IInv /\ [Next]_vars => [Store!Next]_<<Table, Returned, pc = "remove">>
  BY StepImplements
<1> QED
  BY <1>1, <1>2, Invariant, PTL DEF Spec, StoreSpec, Store!Spec, Table, Returned
=============================================================================
