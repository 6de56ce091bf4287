--------------------------- MODULE HashCacheProofs ---------------------------
(***************************************************************************)
(* Theorems about HashCache, for every value of its constants: the table,  *)
(* its entries and their data stay consistent, every search ends, and the  *)
(* table is the set of paths PathCache specifies.                          *)
(***************************************************************************)
EXTENDS HashCache, SequenceTheorems, FiniteSetTheorems, NumberLemmas, TLAPS

-----------------------------------------------------------------------------
(***************************************************************************)
(* The search for a value.                                                 *)
(***************************************************************************)

\* It goes through rows.
LEMMA NthIsRow ==
  ASSUME NEW d \in Data, NEW k \in Nat
  PROVE  Nth(d, k) \in Rows
<1>1. hash_of[d] + k \in Nat /\ HashSize \in Nat \ {0}
  BY HashCacheAssumption
<1> QED
  BY <1>1 DEF Nth, Rows

\* Every row is one of them.
LEMMA EveryRowIsNth ==
  ASSUME NEW d \in Data, NEW p \in Rows
  PROVE  \E k \in Rows : Nth(d, k) = p
<1> DEFINE h == hash_of[d]
           q == h \div HashSize
           r == h % HashSize
<1>1. h \in Nat /\ HashSize \in Nat \ {0} /\ p \in 0 .. HashSize - 1
  BY HashCacheAssumption DEF Rows
<1>2. h = HashSize * q + r /\ r \in 0 .. HashSize - 1 /\ q \in Nat
  BY <1>1, DivMod, Zenon
<1> HIDE DEF h, q, r
<1>3. CASE r <= p
  <2>1. p - r \in Rows /\ h + (p - r) \in Nat
    BY <1>1, <1>2, <1>3 DEF Rows
  <2>2. h + (p - r) = q * HashSize + p
    BY <1>1, <1>2, <1>3
  <2>3. (h + (p - r)) % HashSize = p
    BY <1>1, <1>2, <2>1, <2>2, ModUnique
  <2> QED
    BY <2>1, <2>3 DEF Nth, h
<1>4. CASE p < r
  <2>1. p - r + HashSize \in Rows /\ h + (p - r + HashSize) \in Nat
    BY <1>1, <1>2, <1>4 DEF Rows
  <2>2. h + (p - r + HashSize) = (q + 1) * HashSize + p
    BY <1>1, <1>2, <1>4
  <2>3. (h + (p - r + HashSize)) % HashSize = p
    BY <1>1, <1>2, <2>1, <2>2, ModUnique
  <2> QED
    BY <2>1, <2>3 DEF Nth, h
<1> QED
  BY <1>1, <1>2, <1>3, <1>4

\* What TypeOK says of the entries.
LEMMA EntryFacts ==
  ASSUME TypeOK
  PROVE  /\ Len(entries) \in Nat /\ DOMAIN entries = 1 .. Len(entries)
         /\ \A k \in DOMAIN entries :
              /\ entries[k].data \in Data /\ entries[k].hash_pos \in Rows
              /\ entries[k].memory_pos \in Nat /\ length_of[entries[k].data] \in Nat
         /\ \A p \in Rows : hash[p] \in 0 .. Len(entries)
<1>1. Len(entries) \in Nat /\ DOMAIN entries = 1 .. Len(entries)
  BY LenProperties DEF TypeOK
<1>2. \A k \in DOMAIN entries :
        entries[k] \in [data : Data, memory_pos : Nat, hash_pos : Rows, count : 0 .. CountLimit - 1]
  BY <1>1, ElementOfSeq DEF TypeOK
<1> QED
  BY <1>1, <1>2, HashCacheAssumption DEF TypeOK

\* A search that finds a free row, or the value, on its way ends.
LEMMA SearchEnds ==
  ASSUME NEW d \in Data, NEW p \in Rows, Stops(p, d)
  PROVE  \E q \in Rows : IsProbe(q, d)
<1> DEFINE T == {k \in Rows : Stops(Nth(d, k), d)}
<1>1. T \in SUBSET Nat
  BY HashCacheAssumption DEF Rows
<1>2. T # {}
  <2>1. PICK k \in Rows : Nth(d, k) = p
    BY EveryRowIsNth
  <2>2. k \in T
    BY <2>1
  <2> QED
    BY <2>2
<1> HIDE DEF T
<1>3. PICK k \in T : \A j \in T : k <= j
  BY <1>1, <1>2, Least
<1> USE DEF T
<1>4. \A j \in 0 .. k - 1 : ~ Stops(Nth(d, j), d)
  <2> SUFFICES ASSUME NEW j \in 0 .. k - 1, Stops(Nth(d, j), d)
               PROVE  FALSE
    OBVIOUS
  <2>1. k \in Rows /\ HashSize \in Nat
    BY HashCacheAssumption
  <2>2. j \in T /\ ~ (k <= j)
    BY <2>1 DEF Rows
  <2> QED
    BY <1>3, <2>2
<1>5. Nth(d, k) \in Rows
  BY <1>1, NthIsRow
<1>6. IsProbe(Nth(d, k), d)
  BY <1>3, <1>4 DEF IsProbe
<1> QED
  BY <1>5, <1>6

\* It ends at one row only.
LEMMA ProbeUnique ==
  ASSUME NEW d \in Data, NEW p, NEW q, IsProbe(p, d), IsProbe(q, d)
  PROVE  p = q
<1>1. PICK k \in Rows : /\ p = Nth(d, k) /\ Stops(p, d)
                        /\ \A j \in 0 .. k - 1 : ~ Stops(Nth(d, j), d)
  BY DEF IsProbe
<1>2. PICK m \in Rows : /\ q = Nth(d, m) /\ Stops(q, d)
                        /\ \A j \in 0 .. m - 1 : ~ Stops(Nth(d, j), d)
  BY DEF IsProbe
<1>3. k \in Nat /\ m \in Nat
  BY HashCacheAssumption DEF Rows
<1>4. ~ (k < m) /\ ~ (m < k)
  <2>1. k < m => k \in 0 .. m - 1
    BY <1>3
  <2>2. m < k => m \in 0 .. k - 1
    BY <1>3
  <2> QED
    BY <1>1, <1>2, <2>1, <2>2
<1>5. k = m
  BY <1>3, <1>4
<1> QED
  BY <1>1, <1>2, <1>5

\* A table with fewer entries than rows has a free row: the entry a row
\* points to says in which row it is.
LEMMA FreeRow ==
  ASSUME TypeOK, Linked, Len(entries) < HashSize
  PROVE  \E p \in Rows : hash[p] = NULL
<1> SUFFICES ASSUME \A p \in Rows : hash[p] # NULL
             PROVE  FALSE
  OBVIOUS
<1>1. HashSize \in Nat \ {0} /\ Len(entries) \in Nat
  BY HashCacheAssumption, EntryFacts
<1>2. hash \in [Rows -> 1 .. Len(entries)]
  BY <1>1 DEF TypeOK, NULL
<1>3. IsFiniteSet(Rows) /\ Cardinality(Rows) = HashSize
  <2>1. 0 \in Int /\ HashSize - 1 \in Int
    BY <1>1
  <2>2. /\ IsFiniteSet(0 .. HashSize - 1)
        /\ Cardinality(0 .. HashSize - 1) =
             IF 0 > HashSize - 1 THEN 0 ELSE (HashSize - 1) - 0 + 1
    BY <2>1, FS_Interval, Zenon
  <2> QED
    BY <1>1, <2>2 DEF Rows
<1>4. IsFiniteSet(1 .. Len(entries)) /\ Cardinality(1 .. Len(entries)) = Len(entries)
  <2>1. 1 \in Int /\ Len(entries) \in Int
    BY <1>1
  <2>2. /\ IsFiniteSet(1 .. Len(entries))
        /\ Cardinality(1 .. Len(entries)) =
             IF 1 > Len(entries) THEN 0 ELSE Len(entries) - 1 + 1
    BY <2>1, FS_Interval, Zenon
  <2> QED
    BY <1>1, <2>2
<1>5. \E p, q \in Rows : p # q /\ hash[p] = hash[q]
  BY <1>1, <1>2, <1>3, <1>4, FS_PigeonHole
<1> QED
  BY <1>5 DEF Linked

\* The table is not full of entries when hash_cache_add looks.
LEMMA HalfEmpty ==
  ASSUME TypeOK, NEW d \in Data, ~ Full(d)
  PROVE  /\ Len(entries) < HashSize
         /\ memory_pos + length_of[d] <= MemSize
<1>1. /\ HashSize \in Nat \ {0} /\ MemSize \in Nat /\ length_of[d] \in Nat
      /\ Len(entries) \in Nat /\ memory_pos \in Nat
  BY HashCacheAssumption, EntryFacts DEF TypeOK
<1>2. HashSize \div 2 < HashSize
  BY <1>1
<1> QED
  BY <1>1, <1>2 DEF Full

\* hash_cache_add's while loop ends.
LEMMA LinkedProbeEnds ==
  ASSUME TypeOK, Linked
  PROVE  ProbeEnds
<1> SUFFICES ASSUME NEW d \in Data, ~ Full(d)
             PROVE  \E p \in Rows : IsProbe(p, d)
  BY DEF ProbeEnds
<1>1. PICK p \in Rows : hash[p] = NULL
  BY HalfEmpty, FreeRow
<1>2. Stops(p, d)
  BY <1>1 DEF Stops
<1> QED
  BY <1>2, SearchEnds

-----------------------------------------------------------------------------
(***************************************************************************)
(* Steps.                                                                  *)
(***************************************************************************)

\* The empty table satisfies the invariant.
LEMMA InitInv == Init => IInv
<1> SUFFICES ASSUME Init PROVE IInv
  OBVIOUS
<1>1. /\ Len(entries) = 0 /\ DOMAIN entries = {} /\ DOMAIN flushed = {}
      /\ entries \in Seq([data : Data, memory_pos : Nat, hash_pos : Rows,
                            count : 0 .. CountLimit - 1])
      /\ flushed \in Seq(Data)
  BY EmptySeq DEF Init
<1>2. TypeOK
  BY <1>1, HashCacheAssumption DEF Init, TypeOK, NULL
<1>3. Linked /\ InBounds /\ FlushedOnce
  BY <1>1, HashCacheAssumption DEF Init, Linked, InBounds, FlushedOnce
<1> QED
  BY <1>2, <1>3 DEF IInv, Init

\* A new entry: its row was free, so no other search went past it.
LEMMA NewEntry ==
  ASSUME IInv, NEW d \in Data, AddedNew(d)
  PROVE  IInv'
<1> DEFINE E == [data : Data, memory_pos : Nat, hash_pos : Rows, count : 0 .. CountLimit - 1]
<1>0. PICK n \in Nat : n = Len(entries) + 1
  BY EntryFacts DEF IInv
<1>1. TypeOK /\ Linked /\ InBounds /\ FlushedOnce
  BY DEF IInv
<1>2. PICK p \in Rows : /\ IsProbe(p, d) /\ hash[p] = NULL
                        /\ hash' = [hash EXCEPT ![p] = n]
                        /\ entries' = Append(entries, Entry(d, p))
  BY <1>0 DEF AddedNew
<1>3. /\ Len(entries) \in Nat /\ DOMAIN entries = 1 .. Len(entries)
      /\ \A k \in DOMAIN entries :
           /\ entries[k].data \in Data /\ entries[k].hash_pos \in Rows
           /\ entries[k].memory_pos \in Nat /\ length_of[entries[k].data] \in Nat
      /\ \A q \in Rows : hash[q] \in 0 .. Len(entries)
  BY <1>1, EntryFacts
<1>4. /\ HashSize \in Nat \ {0} /\ MemSize \in Nat /\ CountLimit \in Nat \ {0, 1}
      /\ length_of[d] \in Nat /\ memory_pos \in Nat
  BY <1>1, HashCacheAssumption DEF TypeOK
<1>5. Entry(d, p) \in E
  BY <1>4 DEF Entry
<1>6. /\ entries' \in Seq(E)
      /\ Len(entries') = n /\ DOMAIN entries' = 1 .. n
      /\ entries'[n] = Entry(d, p)
      /\ \A k \in 1 .. Len(entries) : entries'[k] = entries[k]
  BY <1>0, <1>1, <1>2, <1>5, AppendProperties, LenProperties DEF TypeOK
<1>7. memory_pos' = memory_pos + length_of[d] /\ result' = 1 /\ flushed' = flushed
  BY DEF AddedNew
<1>8. \A q \in Rows : hash'[q] = IF q = p THEN n ELSE hash[q]
  BY <1>1, <1>2 DEF TypeOK
<1>9. TypeOK'
  BY <1>0, <1>1, <1>2, <1>3, <1>4, <1>6, <1>7 DEF TypeOK
<1>10. /\ \A q \in Rows : hash'[q] # NULL =>
             hash'[q] \in DOMAIN entries' /\ entries'[hash'[q]].hash_pos = q
       /\ \A k \in DOMAIN entries' : hash'[entries'[k].hash_pos] = k
  <2>1. entries'[n].hash_pos = p /\ n \in 1 .. n
    BY <1>0, <1>3, <1>6 DEF Entry
  <2>2. ASSUME NEW q \in Rows, hash'[q] # NULL
        PROVE  hash'[q] \in DOMAIN entries' /\ entries'[hash'[q]].hash_pos = q
    <3>1. CASE q = p
      BY <1>6, <1>8, <2>1, <3>1
    <3>2. CASE q # p
      <4>1. hash'[q] = hash[q] /\ hash[q] \in 1 .. Len(entries)
        BY <1>0, <1>3, <1>8, <2>2, <3>2 DEF NULL
      <4> QED
        BY <1>0, <1>1, <1>3, <1>6, <2>2, <4>1 DEF Linked
    <3> QED
      BY <3>1, <3>2
  <2>3. ASSUME NEW k \in DOMAIN entries'
        PROVE  hash'[entries'[k].hash_pos] = k
    <3>1. CASE k = n
      BY <1>8, <2>1, <3>1
    <3>2. CASE k # n
      <4>1. k \in DOMAIN entries /\ entries'[k] = entries[k] /\ k # NULL
        BY <1>0, <1>3, <1>6, <3>2 DEF NULL
      <4>2. entries[k].hash_pos \in Rows /\ hash[entries[k].hash_pos] = k
        BY <1>0, <1>1, <1>3, <4>1 DEF Linked
      <4> QED
        BY <1>2, <1>8, <4>1, <4>2
    <3> QED
      BY <3>1, <3>2
  <2> QED
    BY <2>2, <2>3
<1>11. ASSUME NEW e \in Data, NEW q \in Rows, ~ Stops(q, e)
       PROVE  ~ Stops(q, e)'
  <2>1. hash[q] # NULL /\ entries[hash[q]].data # e
    BY <1>11 DEF Stops
  <2>2. hash'[q] = hash[q] /\ hash[q] \in 1 .. Len(entries)
    BY <1>0, <1>2, <1>3, <1>8, <2>1 DEF NULL
  <2> QED
    BY <1>6, <2>1, <2>2 DEF Stops
<1>12. ASSUME NEW e \in Data, NEW q \in Rows, IsProbe(q, e), Stops(q, e)'
       PROVE  IsProbe(q, e)'
  <2>1. PICK k \in Rows : /\ q = Nth(e, k)
                          /\ \A j \in 0 .. k - 1 : ~ Stops(Nth(e, j), e)
    BY <1>12 DEF IsProbe
  <2>2. \A j \in 0 .. k - 1 : Nth(e, j) \in Rows
    BY <1>4, NthIsRow DEF Rows
  <2>3. \A j \in 0 .. k - 1 : ~ Stops(Nth(e, j), e)'
    BY <1>11, <2>1, <2>2
  <2> QED
    BY <1>12, <2>1, <2>3 DEF IsProbe, Nth
<1>13. ASSUME NEW k \in DOMAIN entries'
       PROVE  IsProbe(entries[k].hash_pos, entries[k].data)'
  <2>1. PICK q \in Rows, e \in Data : q = entries'[k].hash_pos /\ e = entries'[k].data
    <3>1. entries' \in Seq(E) /\ k \in 1 .. Len(entries')
      BY <1>6, <1>13
    <3>2. entries'[k] \in E
      BY <3>1, ElementOfSeq, Zenon
    <3> QED
      BY <3>2
  <2>2. Stops(q, e)'
    BY <1>10, <1>13, <2>1 DEF Stops
  <2>3. IsProbe(q, e)
    <3>1. CASE k = n
      BY <1>2, <1>6, <2>1, <3>1 DEF Entry
    <3>2. CASE k # n
      BY <1>0, <1>1, <1>3, <1>6, <1>13, <2>1, <3>2 DEF Linked
    <3> QED
      BY <3>1, <3>2
  <2>4. IsProbe(q, e)'
    BY <1>12, <2>2, <2>3
  <2> QED
    BY <2>1, <2>4 DEF IsProbe, Stops
<1>14. Linked'
  BY <1>10, <1>13 DEF Linked
<1>15. InBounds'
  <2>1. Len(entries) < HashSize /\ memory_pos + length_of[d] <= MemSize
    BY <1>1, HalfEmpty DEF AddedNew
  <2>2. ASSUME NEW k \in 1 .. Len(entries)
        PROVE  EndOf(k)' = EndOf(k) /\ EndOf(k) \in Nat /\ EndOf(k) <= memory_pos
    <3>1. entries'[k] = entries[k]
      BY <1>6
    <3>2. EndOf(k)' = EndOf(k)
      BY <3>1 DEF EndOf
    <3>3. EndOf(k) \in Nat
      BY <1>3 DEF EndOf
    <3>4. EndOf(k) <= memory_pos
      BY <1>0, <1>1, <1>3 DEF InBounds
    <3> QED
      BY <3>2, <3>3, <3>4
  <2>3. EndOf(n)' = memory_pos' /\ entries'[n].memory_pos = memory_pos
    BY <1>6, <1>7 DEF EndOf, Entry
  <2>4. ASSUME NEW k \in 1 .. n
        PROVE  EndOf(k)' <= memory_pos'
    <3>1. CASE k = n
      BY <1>4, <1>7, <2>3, <3>1
    <3>2. CASE k # n
      <4>1. k \in 1 .. Len(entries)
        BY <1>0, <1>3, <3>2
      <4> QED
        BY <1>4, <1>7, <2>2, <4>1
    <3> QED
      BY <3>1, <3>2
  <2>5. ASSUME NEW j \in 1 .. n, NEW k \in 1 .. n, j < k
        PROVE  EndOf(j)' <= entries'[k].memory_pos
    <3>1. j \in 1 .. Len(entries)
      BY <1>0, <1>3, <2>5
    <3>2. CASE k = n
      BY <2>2, <2>3, <3>1, <3>2
    <3>3. CASE k # n
      <4>1. k \in 1 .. Len(entries)
        BY <1>0, <1>3, <3>3
      <4>2. EndOf(j) <= entries[k].memory_pos
        BY <1>0, <1>1, <1>3, <2>5, <3>1, <4>1 DEF InBounds
      <4>3. entries'[k] = entries[k]
        BY <1>6, <4>1
      <4> QED
        BY <2>2, <3>1, <4>2, <4>3
    <3> QED
      BY <3>2, <3>3
  <2>6. DOMAIN entries' = 1 .. n /\ Len(entries') = n
    BY <1>6
  <2>7. Len(entries') <= HashSize
    BY <1>0, <1>4, <2>1, <2>6
  <2>8. memory_pos' <= MemSize
    BY <1>7, <2>1
  <2>9. \A k \in DOMAIN entries' : EndOf(k)' <= memory_pos'
    BY <2>4, <2>6
  <2>10. \A j, k \in DOMAIN entries' : j < k => EndOf(j)' <= entries'[k].memory_pos
    BY <2>5, <2>6
  <2> QED
    BY <2>7, <2>8, <2>9, <2>10 DEF InBounds, EndOf
<1>16. FlushedOnce' /\ entries' # <<>>
  BY <1>0, <1>1, <1>3, <1>6, <1>7 DEF FlushedOnce
<1> QED
  BY <1>9, <1>14, <1>15, <1>16 DEF IInv

\* One more of an entry: what a search sees of it is what it was.
LEMMA OldEntry ==
  ASSUME IInv, NEW d \in Data, AddedAgain(d)
  PROVE  /\ IInv'
         /\ d \in Contents /\ Contents' = Contents
         /\ UNCHANGED flushed
<1> DEFINE E == [data : Data, memory_pos : Nat, hash_pos : Rows, count : 0 .. CountLimit - 1]
<1>1. TypeOK /\ Linked /\ InBounds /\ FlushedOnce
  BY DEF IInv
<1>2. PICK p \in Rows : /\ IsProbe(p, d) /\ hash[p] # NULL
                        /\ entries' = [entries EXCEPT ![hash[p]].count = (@ + 1) % CountLimit]
                        /\ result' = entries'[hash[p]].count
  BY DEF AddedAgain
<1>3. PICK m : m = hash[p]
  OBVIOUS
<1>4. UNCHANGED <<hash, memory_pos, flushed>>
  BY DEF AddedAgain
<1>5. /\ Len(entries) \in Nat /\ DOMAIN entries = 1 .. Len(entries)
      /\ \A k \in DOMAIN entries : entries[k] \in E
  BY <1>1, EntryFacts, ElementOfSeq DEF TypeOK
<1>6. m \in 1 .. Len(entries) /\ entries[m].data = d
  BY <1>1, <1>2, <1>3, <1>5 DEF Linked, IsProbe, Stops
<1> DEFINE c == (entries[m].count + 1) % CountLimit
           e == [entries[m] EXCEPT !.count = c]
<1>7. c \in 0 .. CountLimit - 1
  <2>1. entries[m].count + 1 \in Nat /\ CountLimit \in Nat \ {0}
    BY <1>5, <1>6, HashCacheAssumption
  <2> QED
    BY <2>1, DivMod, Zenon
<1>8. /\ e \in E /\ e.count = c /\ e.data = entries[m].data
      /\ e.hash_pos = entries[m].hash_pos /\ e.memory_pos = entries[m].memory_pos
  <2> HIDE DEF c
  <2> QED
    BY <1>5, <1>6, <1>7
<1>9. entries' = [entries EXCEPT ![m] = e]
  BY <1>2, <1>3
<1> HIDE DEF e, c
<1>10. /\ entries' \in Seq(E) /\ Len(entries') = Len(entries)
       /\ DOMAIN entries' = DOMAIN entries
       /\ \A k \in DOMAIN entries : entries'[k] = IF k = m THEN e ELSE entries[k]
  BY <1>1, <1>5, <1>6, <1>8, <1>9, ExceptSeq, LenProperties DEF TypeOK
<1>11. \A k \in DOMAIN entries :
         /\ entries'[k].data = entries[k].data
         /\ entries'[k].hash_pos = entries[k].hash_pos
         /\ entries'[k].memory_pos = entries[k].memory_pos
  BY <1>8, <1>10
<1>12. result' = c
  BY <1>2, <1>3, <1>6, <1>5, <1>8, <1>10
<1>13. TypeOK'
  BY <1>1, <1>4, <1>7, <1>10, <1>12 DEF TypeOK
<1>14. ASSUME NEW q \in Rows, NEW x
       PROVE  Stops(q, x)' <=> Stops(q, x)
  BY <1>1, <1>4, <1>11, <1>14 DEF Stops, Linked
<1>15. ASSUME NEW k \in DOMAIN entries
       PROVE  IsProbe(entries[k].hash_pos, entries[k].data)'
  <2>1. PICK q \in Rows, x \in Data : q = entries[k].hash_pos /\ x = entries[k].data
    BY <1>5, <1>15
  <2>2. PICK i \in Rows : /\ q = Nth(x, i) /\ Stops(q, x)
                          /\ \A j \in 0 .. i - 1 : ~ Stops(Nth(x, j), x)
    BY <1>1, <1>15, <2>1 DEF Linked, IsProbe
  <2>3. \A j \in 0 .. i - 1 : Nth(x, j) \in Rows
    BY NthIsRow, HashCacheAssumption DEF Rows
  <2>4. /\ Stops(q, x)'
        /\ \A j \in 0 .. i - 1 : ~ Stops(Nth(x, j), x)'
    BY <1>14, <2>2, <2>3
  <2>5. IsProbe(q, x)'
    BY <2>2, <2>4 DEF IsProbe, Nth
  <2>6. q = entries'[k].hash_pos /\ x = entries'[k].data
    BY <1>11, <1>15, <2>1
  <2> QED
    BY <2>5, <2>6 DEF IsProbe, Stops
<1>16. Linked'
  BY <1>1, <1>4, <1>10, <1>11, <1>15 DEF Linked
<1>17. InBounds'
  BY <1>1, <1>4, <1>10, <1>11 DEF InBounds, EndOf
<1>18. FlushedOnce' /\ entries' # <<>>
  BY <1>1, <1>4, <1>5, <1>6, <1>10 DEF FlushedOnce
<1>19. d \in Contents /\ Contents' = Contents
  BY <1>5, <1>6, <1>10, <1>11 DEF Contents
<1> QED
  BY <1>4, <1>13, <1>16, <1>17, <1>18, <1>19 DEF IInv

\* A flush sees every entry once and leaves the empty table: the rows it
\* clears are all that point anywhere.
LEMMA FlushClears ==
  ASSUME IInv, Flush
  PROVE  IInv'
<1>1. TypeOK /\ Linked /\ InBounds /\ FlushedOnce
  BY DEF IInv
<1>2. /\ Len(entries) \in Nat /\ DOMAIN entries = 1 .. Len(entries)
      /\ \A k \in DOMAIN entries : entries[k].data \in Data /\ entries[k].hash_pos \in Rows
  BY <1>1, EntryFacts
<1>3. hash' = [p \in Rows |-> NULL]
  <2>1. \A p \in Rows : hash[p] # NULL => \E k \in DOMAIN entries : entries[k].hash_pos = p
    BY <1>1 DEF Linked
  <2>2. hash' = [p \in Rows |->
                  IF \E k \in DOMAIN entries : entries[k].hash_pos = p THEN NULL ELSE hash[p]]
    BY DEF Flush
  <2> QED
    BY <2>1, <2>2
<1>4. /\ entries' = <<>> /\ memory_pos' = 0 /\ result' = result
      /\ flushed' = [k \in DOMAIN entries |-> entries[k].data]
  BY DEF Flush
<1>5. /\ Len(entries') = 0 /\ DOMAIN entries' = {}
      /\ entries' \in Seq([data : Data, memory_pos : Nat, hash_pos : Rows,
                             count : 0 .. CountLimit - 1])
  BY <1>4, EmptySeq
<1>6. flushed' \in Seq(Data)
  BY <1>2, <1>4, IsASeq
<1>7. TypeOK'
  BY <1>1, <1>3, <1>4, <1>5, <1>6 DEF TypeOK, NULL
<1>8. Linked' /\ InBounds'
  BY <1>3, <1>4, <1>5, HashCacheAssumption DEF Linked, InBounds
<1>9. FlushedOnce'
  <2> SUFFICES ASSUME NEW j \in DOMAIN entries, NEW k \in DOMAIN entries,
                      entries[j].data = entries[k].data
               PROVE  j = k
    BY <1>4 DEF FlushedOnce
  <2>1. IsProbe(entries[j].hash_pos, entries[j].data) /\ IsProbe(entries[k].hash_pos, entries[j].data)
    BY <1>1 DEF Linked
  <2>2. entries[j].hash_pos = entries[k].hash_pos
    BY <1>2, <2>1, ProbeUnique
  <2> QED
    BY <1>1, <2>2 DEF Linked
<1> QED
  BY <1>4, <1>7, <1>8, <1>9 DEF IInv

\* Every call keeps the invariant.
LEMMA StepInv ==
  ASSUME IInv, [Next]_vars
  PROVE  IInv'
<1>1. ASSUME NEW d \in Data, Refused(d)
      PROVE  IInv'
  <2>1. UNCHANGED <<hash, entries, memory_pos, flushed>> /\ result' \in 0 .. CountLimit - 1
    BY <1>1, HashCacheAssumption DEF Refused
  <2> QED
    BY <2>1 DEF IInv, TypeOK, Linked, InBounds, EndOf, FlushedOnce, IsProbe, Stops, Nth
<1>2. ASSUME NEW d \in Data, hash_cache_add(d)
      PROVE  IInv'
  BY <1>1, <1>2, NewEntry, OldEntry DEF hash_cache_add
<1>3. CASE Flush
  BY <1>3, FlushClears
<1>4. CASE UNCHANGED vars
  BY <1>4 DEF vars, IInv, TypeOK, Linked, InBounds, EndOf, FlushedOnce, IsProbe, Stops, Nth
<1> QED
  BY <1>2, <1>3, <1>4 DEF Next

-----------------------------------------------------------------------------
(***************************************************************************)
(* What holds of every execution.                                          *)
(***************************************************************************)

\* The table, its entries and the memory stay consistent with each other, in
\* whatever order values are added and flushed.
THEOREM Invariant == Spec => []IInv
BY InitInv, StepInv, PTL DEF Spec

\* A search finds every value that is stored, so none is stored twice, and
\* clearing the rows of the entries clears the table.
THEOREM AlwaysLinked == Spec => []Linked
<1>1. IInv => Linked
  BY DEF IInv
<1> QED
  BY <1>1, Invariant, PTL

\* The while loop of hash_cache_add ends whenever it is reached: at most half
\* of the rows and one are in use.
THEOREM SearchesEnd == Spec => []ProbeEnds
<1>1. IInv => ProbeEnds
  BY LinkedProbeEnds DEF IInv
<1> QED
  BY <1>1, Invariant, PTL

\* hash_cache_add writes its data in free memory, and inside the block.
THEOREM NothingOverwritten == Spec => []InBounds
<1>1. IInv => InBounds
  BY DEF IInv
<1> QED
  BY <1>1, Invariant, PTL

\* Every variable of the hash cache keeps its type.
THEOREM TypeCorrect == Spec => []TypeOK
<1>1. IInv => TypeOK
  BY DEF IInv
<1> QED
  BY <1>1, Invariant, PTL

\* No path has two lines in a notification file.
THEOREM FlushesOnce == Spec => []FlushedOnce
<1>1. IInv => FlushedOnce
  BY DEF IInv
<1> QED
  BY <1>1, Invariant, PTL

-----------------------------------------------------------------------------
(***************************************************************************)
(* HashCache implements PathCache: the set of paths is what the entries    *)
(* hold.                                                                   *)
(***************************************************************************)

\* What a flush of the abstract cache sees.
Seen == {flushed[k] : k \in DOMAIN flushed}

\* Every step of the table is a step of the set, or none.
LEMMA StepImplements ==
  ASSUME IInv, [Next]_vars
  PROVE  [Cache!Next]_<<Contents, Seen, result = 0>>
<1>1. ASSUME NEW d \in Data, Refused(d)
      PROVE  Cache!Refuse
  <2>1. entries # <<>>
    <3> SUFFICES ASSUME entries = <<>>
                 PROVE  FALSE
      OBVIOUS
    <3>1. memory_pos = 0 /\ Len(entries) = 0
      BY EmptySeq DEF IInv
    <3>2. length_of[d] \in Nat /\ MemSize \in Nat /\ length_of[d] <= MemSize /\ HashSize \in Nat
      BY HashCacheAssumption
    <3> QED
      BY <1>1, <3>1, <3>2 DEF Refused, Full
  <2>2. Contents # {}
    <3>1. Len(entries) \in Nat \ {0} /\ DOMAIN entries = 1 .. Len(entries)
      BY <2>1, EmptySeq, LenProperties DEF IInv, TypeOK
    <3>2. 1 \in DOMAIN entries
      BY <3>1
    <3>3. entries[1].data \in Contents
      BY <3>2 DEF Contents
    <3> QED
      BY <3>3
  <2>3. /\ Contents' = Contents /\ Seen' = Seen /\ (result = 0)' = TRUE
    BY <1>1 DEF Refused, Contents, Seen
  <2> QED
    BY <2>2, <2>3 DEF Cache!Refuse, Seen
<1>2. ASSUME NEW d \in Data, AddedNew(d)
      PROVE  Cache!Take(d)
  <2>1. PICK p \in Rows : entries' = Append(entries, Entry(d, p))
    BY <1>2 DEF AddedNew
  <2>2. Len(entries) \in Nat /\ DOMAIN entries = 1 .. Len(entries)
    BY EntryFacts DEF IInv
  <2>3. /\ DOMAIN entries' = 1 .. Len(entries) + 1
        /\ entries'[Len(entries) + 1].data = d
        /\ \A k \in 1 .. Len(entries) : entries'[k] = entries[k]
    <3>1. IInv'
      BY <1>2, NewEntry
    <3>2. entries' \in Seq([data : Data, memory_pos : Nat, hash_pos : Rows, count : 0 .. CountLimit - 1])
      BY <3>1 DEF IInv, TypeOK
    <3> QED
      BY <2>1, <2>2, <3>2, LenProperties DEF Entry
  <2>4. Contents' = Contents \cup {d}
    <3>1. ASSUME NEW x \in Contents'
          PROVE  x \in Contents \cup {d}
      <4>1. PICK k \in 1 .. Len(entries) + 1 : x = entries'[k].data
        BY <2>3, <3>1 DEF Contents
      <4> QED
        BY <2>2, <2>3, <4>1 DEF Contents
    <3>2. ASSUME NEW x \in Contents
          PROVE  x \in Contents'
      <4>1. PICK k \in 1 .. Len(entries) : x = entries[k].data
        BY <2>2, <3>2 DEF Contents
      <4>2. k \in DOMAIN entries' /\ x = entries'[k].data
        BY <2>2, <2>3, <4>1
      <4> QED
        BY <4>2 DEF Contents
    <3>3. d \in Contents'
      <4>1. Len(entries) + 1 \in DOMAIN entries'
        BY <2>2, <2>3
      <4> QED
        BY <2>3, <4>1 DEF Contents
    <3> QED
      BY <3>1, <3>2, <3>3
  <2>5. Seen' = Seen /\ (result = 0)' = FALSE
    BY <1>2 DEF AddedNew, Seen
  <2> QED
    BY <2>4, <2>5 DEF Cache!Take, Seen
<1>3. ASSUME NEW d \in Data, AddedAgain(d)
      PROVE  Cache!Take(d) \/ Cache!Refuse
  <2>1. d \in Contents /\ Contents' = Contents /\ Seen' = Seen
    BY <1>3, OldEntry DEF Seen
  <2>2. CASE result' = 0
    <3>1. (result = 0)' = TRUE
      BY <2>2
    <3> QED
      BY <2>1, <3>1 DEF Cache!Refuse, Seen
  <2>3. CASE result' # 0
    <3>1. (result = 0)' = FALSE
      BY <2>3
    <3> QED
      BY <2>1, <3>1 DEF Cache!Take, Seen
  <2> QED
    BY <2>2, <2>3
<1>4. CASE Flush
  <2>1. Contents' = {} /\ Seen' = Contents /\ (result = 0)' = (result = 0)
    BY <1>4 DEF Flush, Contents, Seen
  <2> QED
    BY <2>1 DEF Cache!Next, Cache!Flush, Seen
<1>5. CASE UNCHANGED vars
  BY <1>5 DEF vars, Contents, Seen
<1> QED
  BY <1>1, <1>2, <1>3, <1>4, <1>5 DEF Next, hash_cache_add, Cache!Next

\* To its callers the table is a set: a path that is added is in it until the
\* next flush, which sees every path, and a cache that refuses is not empty.
THEOREM ImplementsPathCache == Spec => CacheSpec
<1>1. Init => Cache!Init
  BY DEF Init, Cache!Init, Contents
<1>2. IInv /\ [Next]_vars => [Cache!Next]_<<Contents, {flushed[k] : k \in DOMAIN flushed}, result = 0>>
  BY StepImplements DEF Seen
<1> QED
  BY <1>1, <1>2, Invariant, PTL DEF Spec, CacheSpec, Cache!Spec
=============================================================================
