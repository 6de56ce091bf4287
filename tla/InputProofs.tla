----------------------------- MODULE InputProofs -----------------------------
(***************************************************************************)
(* Theorems about what the program reads (MCInputs).  Of the two files     *)
(* (ConfigLoad), for every file and every size of the buffer and of the    *)
(* array of excludes: which lines are used.  Of the event iterator         *)
(* (EventBuffer), for every size of the buffer and every set of events     *)
(* that fit in it: the offsets always lead from one whole event to the     *)
(* next, and the iterator implements EventBatch.                           *)
(***************************************************************************)
EXTENDS MCInputs, SequenceTheorems, FiniteSetTheorems, NumberLemmas, TLAPS

-----------------------------------------------------------------------------
(***************************************************************************)
(* Lines of a file.                                                        *)
(***************************************************************************)

\* Counting newlines: nothing at the beginning, one more at each newline, and
\* no more in between.
LEMMA CountType ==
  ASSUME NEW file \in Seq(Char), NEW n \in Nat
  PROVE  /\ IsFiniteSet({m \in NewLines(file) : m <= n})
         /\ Count(file, n) \in Nat
<1> DEFINE S == {m \in NewLines(file) : m <= n}
<1>1. S \in SUBSET Nat /\ \A m \in S : m <= n
  <2>1. Len(file) \in Nat
    BY LenProperties
  <2> QED
    BY <2>1 DEF NewLines
<1>2. IsFiniteSet(S)
  <2> HIDE DEF S
  <2> QED
    BY <1>1, FS_BoundedSetOfNaturals
<1>3. Cardinality(S) \in Nat
  BY <1>2, FS_CardinalityType
<1> QED
  BY <1>2, <1>3 DEF Count

\* No line ends before the first character.
LEMMA CountZero ==
  ASSUME NEW file \in Seq(Char)
  PROVE  Count(file, 0) = 0
<1>1. {m \in NewLines(file) : m <= 0} = {}
  <2>1. Len(file) \in Nat
    BY LenProperties
  <2> QED
    BY <2>1 DEF NewLines
<1> QED
  BY <1>1, FS_EmptySet DEF Count

\* Characters that are not newlines end no line.
LEMMA CountSame ==
  ASSUME NEW file \in Seq(Char), NEW s \in 0 .. Len(file), NEW p \in s .. Len(file),
         \A n \in s + 1 .. p : file[n] # NewLine
  PROVE  Count(file, p) = Count(file, s)
<1>1. Len(file) \in Nat
  BY LenProperties
<1>2. ASSUME NEW m \in NewLines(file)
      PROVE  m <= p <=> m <= s
  <2>1. m \in 1 .. Len(file) /\ file[m] = NewLine
    BY DEF NewLines
  <2>2. m \notin s + 1 .. p
    BY <2>1
  <2> QED
    BY <1>1, <2>1, <2>2
<1>3. {m \in NewLines(file) : m <= p} = {m \in NewLines(file) : m <= s}
  BY <1>2
<1> QED
  BY <1>3 DEF Count

\* A newline behind such characters ends one line more.
LEMMA CountNext ==
  ASSUME NEW file \in Seq(Char), NEW s \in 0 .. Len(file), NEW q \in s + 1 .. Len(file),
         \A n \in s + 1 .. q - 1 : file[n] # NewLine, file[q] = NewLine
  PROVE  Count(file, q) = Count(file, s) + 1
<1>1. Len(file) \in Nat
  BY LenProperties
<1>2. ASSUME NEW m \in NewLines(file)
      PROVE  m <= q <=> m <= s \/ m = q
  <2>1. m \in 1 .. Len(file) /\ file[m] = NewLine
    BY DEF NewLines
  <2>2. m \notin s + 1 .. q - 1
    BY <2>1
  <2> QED
    BY <1>1, <2>1, <2>2
<1>3. q \in NewLines(file)
  BY <1>1 DEF NewLines
<1> DEFINE S == {m \in NewLines(file) : m <= s}
<1>4. {m \in NewLines(file) : m <= q} = S \cup {q}
  BY <1>2, <1>3
<1>5. q \notin S
  BY <1>1
<1>6. IsFiniteSet(S)
  BY <1>1, CountType
<1> HIDE DEF S
<1>7. Cardinality(S \cup {q}) = Cardinality(S) + 1
  BY <1>5, <1>6, FS_AddElement
<1> QED
  BY <1>4, <1>7 DEF Count, S

\* More characters have more newlines in them.
LEMMA CountGrows ==
  ASSUME NEW file \in Seq(Char), NEW m \in 0 .. Len(file), NEW q \in m + 1 .. Len(file),
         file[q] = NewLine
  PROVE  Count(file, m) < Count(file, q)
<1>1. Len(file) \in Nat
  BY LenProperties
<1> DEFINE S == {n \in NewLines(file) : n <= m}
           T == {n \in NewLines(file) : n <= q}
<1>2. S \in SUBSET T
  <2>1. \A n \in NewLines(file) : n \in Nat
    BY <1>1 DEF NewLines
  <2> QED
    BY <1>1, <2>1
<1>3. q \in T /\ q \notin S
  BY <1>1 DEF NewLines
<1>4. IsFiniteSet(T) /\ Cardinality(T) \in Nat /\ Cardinality(S) \in Nat
  <2>1. q \in Nat /\ m \in Nat
    BY <1>1
  <2> QED
    BY <2>1, CountType DEF Count
<1> HIDE DEF S, T
<1>5. Cardinality(S) <= Cardinality(T) /\ Cardinality(S) # Cardinality(T)
  BY <1>2, <1>3, <1>4, FS_Subset
<1> QED
  BY <1>4, <1>5 DEF Count, S, T

\* The count of a newline tells which line it ends.
LEMMA LineEndOfCount ==
  ASSUME NEW file \in Seq(Char), NEW q \in 1 .. Len(file), file[q] = NewLine
  PROVE  LineEnd(file, Count(file, q)) = q
<1>1. Len(file) \in Nat
  BY LenProperties
<1>2. q \in NewLines(file)
  BY DEF NewLines
<1>3. ASSUME NEW n \in NewLines(file), Count(file, n) = Count(file, q)
      PROVE  n = q
  <2>1. n \in 1 .. Len(file) /\ file[n] = NewLine /\ n \in Nat /\ q \in Nat
    BY <1>1 DEF NewLines
  <2>2. Count(file, n) \in Nat /\ Count(file, q) \in Nat
    BY <2>1, CountType
  <2>3. ~ (n < q)
    <3>1. SUFFICES ASSUME n < q PROVE FALSE
      OBVIOUS
    <3>2. n \in 0 .. Len(file) /\ q \in n + 1 .. Len(file)
      BY <1>1, <2>1, <3>1
    <3>3. Count(file, n) < Count(file, q)
      BY <3>2, CountGrows
    <3> QED
      BY <1>3, <2>2, <3>3
  <2>4. ~ (q < n)
    <3>1. SUFFICES ASSUME q < n PROVE FALSE
      OBVIOUS
    <3>2. q \in 0 .. Len(file) /\ n \in q + 1 .. Len(file)
      BY <1>1, <2>1, <3>1
    <3>3. Count(file, q) < Count(file, n)
      BY <2>1, <3>2, CountGrows
    <3> QED
      BY <1>3, <2>2, <3>3
  <2> QED
    BY <2>1, <2>3, <2>4
<1> QED
  BY <1>2, <1>3 DEF LineEnd

\* From the end of a line, or the beginning of the file, to the next newline
\* is a line.
LEMMA LineBetween ==
  ASSUME NEW file \in Seq(Char), NEW s \in 0 .. Len(file), NEW q \in s + 1 .. Len(file),
         s = 0 \/ file[s] = NewLine,
         \A n \in s + 1 .. q - 1 : file[n] # NewLine, file[q] = NewLine
  PROVE  /\ Count(file, q) = Count(file, s) + 1
         /\ Count(file, q) \in 1 .. Count(file, Len(file))
         /\ Lines(file)[Count(file, q)] = SubSeq(file, s + 1, q - 1)
<1>1. PICK L \in Nat : L = Len(file)
  BY LenProperties
<1>2. Count(file, q) = Count(file, s) + 1
  BY CountNext
<1>3. Count(file, s) \in Nat /\ Count(file, q) \in Nat /\ Count(file, L) \in Nat
  <2>1. s \in Nat /\ q \in Nat
    BY <1>1
  <2> QED
    BY <1>1, <2>1, CountType
<1>4. Count(file, q) <= Count(file, L)
  <2> DEFINE S == {n \in NewLines(file) : n <= q}
             T == {n \in NewLines(file) : n <= L}
  <2>1. S \in SUBSET T
    BY <1>1 DEF NewLines
  <2>2. IsFiniteSet(T)
    BY <1>1, CountType
  <2> HIDE DEF S, T
  <2>3. Cardinality(S) <= Cardinality(T)
    BY <2>1, <2>2, FS_Subset
  <2> QED
    BY <2>3 DEF Count, S, T
<1>5. Count(file, q) \in 1 .. Count(file, Len(file))
  BY <1>1, <1>2, <1>3, <1>4
<1>6. LineEnd(file, Count(file, q)) = q
  <2>1. q \in 1 .. Len(file)
    BY <1>1
  <2> QED
    BY <2>1, LineEndOfCount
<1>7. (IF Count(file, q) = 1 THEN 1 ELSE LineEnd(file, Count(file, q) - 1) + 1) = s + 1
  <2>1. CASE s = 0
    <3>1. Count(file, q) = 1
      BY <1>2, <2>1, CountZero
    <3> QED
      BY <2>1, <3>1
  <2>2. CASE s # 0
    <3>1. s \in 1 .. Len(file) /\ file[s] = NewLine /\ 0 \in 0 .. Len(file) /\ s \in 0 + 1 .. Len(file)
      BY <1>1, <2>2
    <3>2. Count(file, 0) < Count(file, s)
      BY <3>1, CountGrows
    <3>3. Count(file, s) # 0
      BY <3>2, CountZero
    <3>4. LineEnd(file, Count(file, s)) = s
      BY <3>1, LineEndOfCount
    <3>5. Count(file, q) # 1 /\ Count(file, q) - 1 = Count(file, s)
      BY <1>2, <1>3, <3>3
    <3> QED
      BY <3>4, <3>5
  <2> QED
    BY <2>1, <2>2
<1> QED
  BY <1>2, <1>5, <1>6, <1>7 DEF Lines

-----------------------------------------------------------------------------
(***************************************************************************)
(* What fgets reads.                                                       *)
(***************************************************************************)

\* The part of a file behind its first p characters.
LEMMA Behind ==
  ASSUME NEW file \in Seq(Char), NEW p \in 0 .. Len(file), NEW left,
         left = SubSeq(file, p + 1, Len(file))
  PROVE  /\ left \in Seq(Char) /\ Len(left) = Len(file) - p
         /\ \A n \in 1 .. Len(left) : left[n] = file[p + n]
<1>1. PICK L \in Nat : L = Len(file)
  BY LenProperties
<1>2. \A i \in p + 1 .. L : file[i] \in Char
  <2>1. \A i \in 1 .. L : file[i] \in Char
    BY <1>1, ElementOfSeq
  <2> QED
    BY <1>1, <2>1
<1>3. p + 1 \in Int /\ L \in Int
  BY <1>1
<1>4. /\ SubSeq(file, p + 1, L) \in Seq(Char)
      /\ Len(SubSeq(file, p + 1, L)) = IF p + 1 <= L THEN L - (p + 1) + 1 ELSE 0
      /\ \A i \in 1 .. L - (p + 1) + 1 : SubSeq(file, p + 1, L)[i] = file[p + 1 + i - 1]
  BY <1>2, <1>3, SubSeqProperties
<1>5. Len(left) = L - p
  BY <1>1, <1>4
<1>6. ASSUME NEW n \in 1 .. L - p
      PROVE  left[n] = file[p + n]
  <2>1. n \in 1 .. L - (p + 1) + 1 /\ p + 1 + n - 1 = p + n
    BY <1>1
  <2> QED
    BY <1>1, <1>4, <2>1
<1> QED
  BY <1>1, <1>4, <1>5, <1>6

\* A part of that part.
LEMMA PartBehind ==
  ASSUME NEW file \in Seq(Char), NEW p \in 0 .. Len(file), NEW left,
         left = SubSeq(file, p + 1, Len(file)),
         NEW a \in 1 .. Len(left) + 1, NEW b \in a - 1 .. Len(left)
  PROVE  SubSeq(left, a, b) = SubSeq(file, p + a, p + b)
<1>1. PICK L \in Nat : L = Len(file)
  BY LenProperties
<1>2. /\ left \in Seq(Char) /\ Len(left) = L - p
      /\ \A n \in 1 .. L - p : left[n] = file[p + n]
  BY <1>1, Behind
<1>3. \A i \in 1 .. L : file[i] \in Char
  BY <1>1, ElementOfSeq
<1>4. a \in Nat /\ a >= 1 /\ b \in Int /\ b >= a - 1 /\ b <= L - p /\ p \in Nat
  BY <1>1, <1>2
<1>5. /\ SubSeq(left, a, b) \in Seq(Char)
      /\ Len(SubSeq(left, a, b)) = IF a <= b THEN b - a + 1 ELSE 0
      /\ \A i \in 1 .. b - a + 1 : SubSeq(left, a, b)[i] = left[a + i - 1]
  <2>1. \A i \in a .. b : left[i] \in Char
    BY <1>1, <1>2, <1>3, <1>4
  <2> QED
    BY <1>4, <2>1, SubSeqProperties
<1>6. /\ SubSeq(file, p + a, p + b) \in Seq(Char)
      /\ Len(SubSeq(file, p + a, p + b)) =
           IF p + a <= p + b THEN p + b - (p + a) + 1 ELSE 0
      /\ \A i \in 1 .. p + b - (p + a) + 1 :
           SubSeq(file, p + a, p + b)[i] = file[p + a + i - 1]
  <2>1. \A i \in p + a .. p + b : file[i] \in Char
    BY <1>1, <1>3, <1>4
  <2>2. p + a \in Int /\ p + b \in Int
    BY <1>4
  <2> QED
    BY <2>1, <2>2, SubSeqProperties
<1> DEFINE u == SubSeq(left, a, b)
           v == SubSeq(file, p + a, p + b)
<1>7. Len(u) = Len(v) /\ Len(u) = b - a + 1
  <2>1. a <= b \/ b = a - 1
    BY <1>4
  <2>2. (IF a <= b THEN b - a + 1 ELSE 0) = b - a + 1
    BY <1>4, <2>1
  <2>3. (IF p + a <= p + b THEN p + b - (p + a) + 1 ELSE 0) = b - a + 1
    BY <1>4, <2>1
  <2> QED
    BY <1>5, <1>6, <2>2, <2>3
<1>8. ASSUME NEW i \in 1 .. Len(u)
      PROVE  u[i] = v[i]
  <2>1. i \in 1 .. b - a + 1 /\ i \in 1 .. p + b - (p + a) + 1
    BY <1>4, <1>7
  <2>2. u[i] = left[a + i - 1] /\ v[i] = file[p + a + i - 1]
    BY <1>5, <1>6, <2>1
  <2>3. a + i - 1 \in 1 .. L - p /\ p + a + i - 1 = p + (a + i - 1)
    BY <1>4, <2>1
  <2> QED
    BY <1>2, <2>2, <2>3
<1> QED
  BY <1>5, <1>6, <1>7, <1>8, SeqEqual

\* The first elements of a sequence.
LEMMA Prefix ==
  ASSUME NEW S, NEW t \in Seq(S), NEW n \in 0 .. Len(t)
  PROVE  /\ SubSeq(t, 1, n) \in Seq(S) /\ Len(SubSeq(t, 1, n)) = n
         /\ \A i \in 1 .. n : SubSeq(t, 1, n)[i] = t[i]
<1>1. PICK L \in Nat : L = Len(t)
  BY LenProperties
<1>2. \A i \in 1 .. n : t[i] \in S
  <2>1. \A i \in 1 .. L : t[i] \in S
    BY <1>1, ElementOfSeq
  <2> QED
    BY <1>1, <2>1
<1>3. n \in Int /\ 1 \in Int
  BY <1>1
<1>4. /\ SubSeq(t, 1, n) \in Seq(S)
      /\ Len(SubSeq(t, 1, n)) = IF 1 <= n THEN n - 1 + 1 ELSE 0
      /\ \A i \in 1 .. n - 1 + 1 : SubSeq(t, 1, n)[i] = t[1 + i - 1]
  BY <1>2, <1>3, SubSeqProperties
<1>5. n = 0 \/ 1 <= n
  BY <1>1
<1>6. (IF 1 <= n THEN n - 1 + 1 ELSE 0) = n
  BY <1>3, <1>5
<1>7. n - 1 + 1 = n /\ \A i \in 1 .. n : 1 + i - 1 = i
  BY <1>3
<1> QED
  BY <1>4, <1>6, <1>7

\* fgets reads from p up to q: to the first newline, or a full buffer.
FgetsTo(file, left, p, q) ==
  /\ Len(fgets(left)) = q - p
  /\ SubSeq(left, Len(fgets(left)) + 1, Len(left)) = SubSeq(file, q + 1, Len(file))
  /\ \A n \in p + 1 .. q - 1 : file[n] # NewLine
  /\ file[q] = NewLine \/ q = p + (BufferSize - 1)
  /\ LinesFit(file) => file[q] = NewLine
  /\ file[q] = NewLine => Stripped(fgets(left)) = SubSeq(file, p + 1, q - 1)
  /\ file[q] # NewLine => Stripped(fgets(left)) = SubSeq(file, p + 1, q)

\* It does, before the end of the file.
LEMMA FgetsFacts ==
  ASSUME NEW file \in Seq(Char), NEW p \in 0 .. Len(file), NEW left,
         left = SubSeq(file, p + 1, Len(file)), ~ feof(left)
  PROVE  \E q \in p + 1 .. Len(file) : FgetsTo(file, left, p, q)
<1>1. PICK L \in Nat : L = Len(file)
  BY LenProperties
<1>2. BufferSize \in Nat /\ BufferSize >= 2
  BY ConfigLoadAssumption
<1>3. /\ left \in Seq(Char) /\ Len(left) = L - p
      /\ \A n \in 1 .. L - p : left[n] = file[p + n]
  BY <1>1, Behind
<1>4. /\ ReadEnds(left) \in SUBSET Nat /\ ReadEnds(left) \in SUBSET (1 .. L - p)
      /\ ReadEnds(left) # {}
  BY <1>1, <1>3 DEF ReadEnds, feof
<1>5. PICK d \in 1 .. L - p :
        d \in ReadEnds(left) /\ d = Min(ReadEnds(left)) /\ \A n \in ReadEnds(left) : d <= n
  <2>1. PICK m \in ReadEnds(left) : \A n \in ReadEnds(left) : m <= n
    BY <1>4, Least
  <2> QED
    BY <1>4, <2>1 DEF Min
<1>6. d \in Nat /\ d >= 1 /\ d <= L - p /\ (left[d] = NewLine \/ d = BufferSize - 1)
  <2>1. d \in Nat /\ d >= 1 /\ d <= L - p
    BY <1>1
  <2>2. left[d] = NewLine \/ d = BufferSize - 1
    BY <1>5 DEF ReadEnds
  <2> QED
    BY <2>1, <2>2
<1>7. ASSUME NEW n \in 1 .. d - 1
      PROVE  left[n] # NewLine /\ n # BufferSize - 1
  <2>1. n \in 1 .. L - p /\ ~ (d <= n) /\ n \notin ReadEnds(left)
    BY <1>1, <1>5, <1>6
  <2> QED
    BY <1>3, <2>1 DEF ReadEnds
<1>8. PICK q \in p + 1 .. L : q = p + d
  BY <1>1, <1>6
<1>9. file[q] = left[d]
  BY <1>3, <1>6, <1>8
<1>10. ASSUME NEW n \in p + 1 .. q - 1
       PROVE  file[n] # NewLine
  <2>1. n - p \in 1 .. d - 1 /\ n - p \in 1 .. L - p /\ n = p + (n - p)
    BY <1>1, <1>6, <1>8
  <2> QED
    BY <1>3, <1>7, <2>1
<1>11. fgets(left) = SubSeq(file, p + 1, q)
  <2>1. 1 \in 1 .. Len(left) + 1 /\ d \in 1 - 1 .. Len(left)
    BY <1>1, <1>3, <1>6
  <2>2. SubSeq(left, 1, d) = SubSeq(file, p + 1, p + d)
    BY <2>1, PartBehind
  <2> QED
    BY <1>5, <1>8, <2>2 DEF fgets
<1>12. /\ fgets(left) \in Seq(Char) /\ Len(fgets(left)) = d
       /\ \A i \in 1 .. d : fgets(left)[i] = left[i]
  <2>1. d \in 0 .. Len(left)
    BY <1>1, <1>3, <1>6
  <2>2. fgets(left) = SubSeq(left, 1, d)
    BY <1>5 DEF fgets
  <2> QED
    BY <1>3, <2>1, <2>2, Prefix
<1>13. SubSeq(left, Len(fgets(left)) + 1, Len(left)) = SubSeq(file, q + 1, L)
  <2>1. d + 1 \in 1 .. Len(left) + 1 /\ Len(left) \in d + 1 - 1 .. Len(left)
    BY <1>1, <1>3, <1>6
  <2>2. SubSeq(left, d + 1, Len(left)) = SubSeq(file, p + (d + 1), p + Len(left))
    BY <2>1, PartBehind
  <2>3. p + (d + 1) = q + 1 /\ p + Len(left) = L
    BY <1>1, <1>3, <1>6, <1>8
  <2> QED
    BY <1>12, <2>2, <2>3
<1>14. ASSUME LinesFit(file)
       PROVE  file[q] = NewLine
  <2>1. SUFFICES ASSUME d = BufferSize - 1 PROVE file[q] = NewLine
    BY <1>6, <1>9
  <2>2. p \in 0 .. Len(file) - BufferSize + 1
    BY <1>1, <1>2, <1>6, <2>1
  <2>3. PICK m \in p + 1 .. p + BufferSize - 1 : file[m] = NewLine
    BY <1>14, <2>2 DEF LinesFit
  <2>4. m \notin p + 1 .. q - 1
    BY <1>10, <2>3
  <2>5. m = q
    BY <1>1, <1>2, <1>8, <2>1, <2>3, <2>4
  <2> QED
    BY <2>3, <2>5
<1>15. Last(fgets(left)) = file[q]
  <2>1. d \in 1 .. d
    BY <1>6
  <2>2. fgets(left)[d] = left[d]
    BY <1>12, <2>1
  <2> QED
    BY <1>9, <1>12, <2>2 DEF Last
<1>16. /\ file[q] = NewLine => Stripped(fgets(left)) = SubSeq(file, p + 1, q - 1)
       /\ file[q] # NewLine => Stripped(fgets(left)) = SubSeq(file, p + 1, q)
  <2>1. CASE file[q] = NewLine
    <3>1. Stripped(fgets(left)) = SubSeq(fgets(left), 1, d - 1)
      BY <1>12, <1>15, <2>1 DEF Stripped, Front
    <3>2. SubSeq(fgets(left), 1, d - 1) = SubSeq(left, 1, d - 1)
      <4>1. d - 1 \in 0 .. Len(left) /\ d - 1 \in 0 .. Len(fgets(left))
        BY <1>1, <1>3, <1>6, <1>12
      <4>2. PICK u \in Seq(Char) : u = SubSeq(fgets(left), 1, d - 1)
        BY <1>12, <4>1, Prefix
      <4>3. PICK v \in Seq(Char) : v = SubSeq(left, 1, d - 1)
        BY <1>3, <4>1, Prefix
      <4>4. Len(u) = d - 1 /\ \A i \in 1 .. d - 1 : u[i] = fgets(left)[i]
        BY <1>12, <4>1, <4>2, Prefix
      <4>5. Len(v) = d - 1 /\ \A i \in 1 .. d - 1 : v[i] = left[i]
        BY <1>3, <4>1, <4>3, Prefix
      <4>6. ASSUME NEW i \in 1 .. d - 1
            PROVE  u[i] = v[i]
        <5>1. i \in 1 .. d
          BY <1>6
        <5> QED
          BY <1>12, <4>4, <4>5, <5>1
      <4>7. u = v
        BY <4>4, <4>5, <4>6, SeqEqual
      <4> QED
        BY <4>2, <4>3, <4>7
    <3>3. SubSeq(left, 1, d - 1) = SubSeq(file, p + 1, p + (d - 1))
      <4>1. 1 \in 1 .. Len(left) + 1 /\ d - 1 \in 1 - 1 .. Len(left)
        BY <1>1, <1>3, <1>6
      <4> QED
        BY <4>1, PartBehind
    <3>4. p + (d - 1) = q - 1
      BY <1>1, <1>6, <1>8
    <3> QED
      BY <2>1, <3>1, <3>2, <3>3, <3>4
  <2>2. CASE file[q] # NewLine
    BY <1>11, <1>15, <2>2 DEF Stripped
  <2> QED
    BY <2>1, <2>2
<1>17. d = q - p /\ (file[q] = NewLine \/ q = p + (BufferSize - 1))
  BY <1>1, <1>2, <1>6, <1>8, <1>9
<1> QED
  BY <1>1, <1>8, <1>10, <1>12, <1>13, <1>14, <1>16, <1>17 DEF FgetsTo

-----------------------------------------------------------------------------
(***************************************************************************)
(* How far a file is read.                                                 *)
(***************************************************************************)

\* A part of a file.
LEMMA Part ==
  ASSUME NEW file \in Seq(Char), NEW a \in 1 .. Len(file) + 1, NEW b \in a - 1 .. Len(file)
  PROVE  SubSeq(file, a, b) \in Seq(Char) /\ Len(SubSeq(file, a, b)) = b - a + 1
<1>1. PICK L \in Nat : L = Len(file)
  BY LenProperties
<1>2. a \in Int /\ b \in Int /\ (a <= b \/ b = a - 1)
  BY <1>1
<1>3. \A i \in a .. b : file[i] \in Char
  <2>1. \A i \in 1 .. L : file[i] \in Char
    BY <1>1, ElementOfSeq
  <2> QED
    BY <1>1, <2>1
<1>4. /\ SubSeq(file, a, b) \in Seq(Char)
      /\ Len(SubSeq(file, a, b)) = IF a <= b THEN b - a + 1 ELSE 0
  BY <1>2, <1>3, SubSeqProperties
<1>5. (IF a <= b THEN b - a + 1 ELSE 0) = b - a + 1
  BY <1>2
<1> QED
  BY <1>4, <1>5

\* Nothing of a file is read before the first fgets.
LEMMA ReadBegins ==
  ASSUME NEW file \in Seq(Char)
  PROVE  Reading(file, file, <<>>)
<1>1. PICK L \in Nat : L = Len(file)
  BY LenProperties
<1>2. 0 \in 0 .. L /\ BufferSize - 1 \in Nat \ {0} /\ 0 \in 0 .. BufferSize - 1 - 1
  BY <1>1, ConfigLoadAssumption
<1>3. (0 - 0) % (BufferSize - 1) = 0
  BY <1>2, ModUnique
<1>4. SubSeq(file, 0 + 1, L) = file
  <2>1. PICK t \in Seq(Char) : t = SubSeq(file, 1, L)
    BY <1>1, Prefix
  <2>2. Len(t) = L /\ \A i \in 1 .. L : t[i] = file[i]
    BY <1>1, <2>1, Prefix
  <2> QED
    BY <1>1, <2>1, <2>2, SeqEqual
<1>5. Len(<<>>) = 0 /\ Count(file, 0) = 0
  BY CountZero
<1>6. ReadUpTo(file, file, <<>>, 0, 0)
  BY <1>1, <1>3, <1>4, <1>5 DEF ReadUpTo
<1> QED
  BY <1>1, <1>2, <1>6 DEF Reading

\* A line that is read and used is the next one, if lines fit; if it is blank,
\* it is a blank line, or what is left of one that filled the buffer.
LEMMA ReadsOn ==
  ASSUME NEW file \in Seq(Char), NEW left, NEW used \in Seq(Seq(Char)),
         Reading(file, left, used), ~ feof(left)
  PROVE  LET line == Stripped(fgets(left))
         IN  /\ line \in Seq(Char)
             /\ Reading(file, SubSeq(left, Len(fgets(left)) + 1, Len(left)),
                        Append(used, line))
             /\ LinesFit(file) => Len(used) < Len(Lines(file))
             /\ line = <<>> => \E k \in DOMAIN Lines(file) :
                                 Len(Lines(file)[k]) % (BufferSize - 1) = 0
<1>1. PICK L \in Nat : L = Len(file)
  BY LenProperties
<1>2. PICK p, s \in 0 .. L : ReadUpTo(file, left, used, p, s)
  BY <1>1 DEF Reading
<1>3. /\ left = SubSeq(file, p + 1, L)
      /\ s <= p /\ (p - s) % (BufferSize - 1) = 0
      /\ s = 0 \/ file[s] = NewLine
      /\ \A n \in s + 1 .. p : file[n] # NewLine
      /\ LinesFit(file) =>
           /\ s = p /\ Len(used) = Count(file, p)
           /\ \A k \in 1 .. Len(used) : used[k] = Lines(file)[k]
  BY <1>1, <1>2 DEF ReadUpTo
<1>4. PICK q \in p + 1 .. L :
        /\ SubSeq(left, Len(fgets(left)) + 1, Len(left)) = SubSeq(file, q + 1, L)
        /\ \A n \in p + 1 .. q - 1 : file[n] # NewLine
        /\ file[q] = NewLine \/ q = p + (BufferSize - 1)
        /\ LinesFit(file) => file[q] = NewLine
        /\ file[q] = NewLine => Stripped(fgets(left)) = SubSeq(file, p + 1, q - 1)
        /\ file[q] # NewLine => Stripped(fgets(left)) = SubSeq(file, p + 1, q)
  <2>1. left = SubSeq(file, p + 1, Len(file)) /\ p \in 0 .. Len(file)
    BY <1>1, <1>3
  <2>2. PICK q \in p + 1 .. Len(file) : FgetsTo(file, left, p, q)
    BY <2>1, FgetsFacts
  <2> QED
    BY <1>1, <2>2 DEF FgetsTo
<1>5. PICK line : line = Stripped(fgets(left))
  OBVIOUS
<1>6. line \in Seq(Char) /\ Len(line) = IF file[q] = NewLine THEN q - 1 - p ELSE q - p
  <2>1. CASE file[q] = NewLine
    <3>1. p + 1 \in 1 .. Len(file) + 1 /\ q - 1 \in p + 1 - 1 .. Len(file)
      BY <1>1
    <3>2. line = SubSeq(file, p + 1, q - 1)
      BY <1>4, <1>5, <2>1
    <3>3. line \in Seq(Char) /\ Len(line) = q - 1 - (p + 1) + 1
      BY <3>1, <3>2, Part
    <3> QED
      BY <1>1, <2>1, <3>3
  <2>2. CASE file[q] # NewLine
    <3>1. p + 1 \in 1 .. Len(file) + 1 /\ q \in p + 1 - 1 .. Len(file)
      BY <1>1
    <3>2. line = SubSeq(file, p + 1, q)
      BY <1>4, <1>5, <2>2
    <3>3. line \in Seq(Char) /\ Len(line) = q - (p + 1) + 1
      BY <3>1, <3>2, Part
    <3> QED
      BY <1>1, <2>2, <3>3
  <2> QED
    BY <2>1, <2>2
<1>7. BufferSize - 1 \in Nat \ {0}
  BY ConfigLoadAssumption
<1>8. ASSUME NEW n \in s + 1 .. q - 1
      PROVE  file[n] # NewLine
  <2>1. n \in s + 1 .. p \/ n \in p + 1 .. q - 1
    BY <1>1
  <2> QED
    BY <1>3, <1>4, <2>1
<1>9. ASSUME file[q] = NewLine
      PROVE  /\ Count(file, q) = Count(file, s) + 1
             /\ Count(file, q) \in 1 .. Count(file, L)
             /\ Lines(file)[Count(file, q)] = SubSeq(file, s + 1, q - 1)
  <2>1. s \in 0 .. Len(file) /\ q \in s + 1 .. Len(file)
    BY <1>1, <1>3
  <2> QED
    BY <1>1, <1>3, <1>8, <1>9, <2>1, LineBetween
<1>10. DOMAIN Lines(file) = 1 .. Count(file, L) /\ Len(Lines(file)) = Count(file, L)
  <2>1. Count(file, L) \in Nat
    BY CountType
  <2> QED
    BY <1>1, <2>1 DEF Lines
<1>11. Count(file, L) \in Nat /\ Count(file, s) \in Nat
  <2>1. s \in Nat
    BY <1>1
  <2> QED
    BY <1>1, <2>1, CountType
<1>12. Reading(file, SubSeq(file, q + 1, L), Append(used, line))
  <2>1. CASE file[q] = NewLine
    <3>1. (q - q) % (BufferSize - 1) = 0
      <4>1. q - q = 0 /\ p - s \in Nat
        BY <1>1, <1>3
      <4> QED
        BY <1>3, <1>7, <4>1, ModAdd
    <3>2. ASSUME LinesFit(file)
          PROVE  /\ Len(Append(used, line)) = Count(file, q)
                 /\ \A k \in 1 .. Len(Append(used, line)) :
                      Append(used, line)[k] = Lines(file)[k]
      <4>1. PICK n \in Nat : n = Len(used)
        BY LenProperties
      <4>2. s = p /\ n = Count(file, s) /\ \A k \in 1 .. n : used[k] = Lines(file)[k]
        BY <1>3, <3>2, <4>1
      <4>3. PICK more : more = Append(used, line)
        OBVIOUS
      <4>4. Len(more) = n + 1 /\ more[n + 1] = line /\ \A k \in 1 .. n : more[k] = used[k]
        BY <1>6, <4>1, <4>3, AppendProperties
      <4>5. Count(file, q) = n + 1
        BY <1>9, <2>1, <4>2
      <4>6. line = Lines(file)[n + 1]
        BY <1>4, <1>5, <1>9, <2>1, <4>2, <4>5
      <4>7. ASSUME NEW k \in 1 .. n + 1
            PROVE  more[k] = Lines(file)[k]
        <5>1. k \in 1 .. n \/ k = n + 1
          OBVIOUS
        <5> QED
          BY <4>2, <4>4, <4>6, <5>1
      <4> QED
        BY <4>3, <4>4, <4>5, <4>7
    <3>3. q \in 0 .. L /\ q <= q /\ \A n \in q + 1 .. q : file[n] # NewLine
      BY <1>1
    <3>4. ReadUpTo(file, SubSeq(file, q + 1, L), Append(used, line), q, q)
      BY <1>1, <2>1, <3>1, <3>2, <3>3 DEF ReadUpTo
    <3> QED
      BY <1>1, <3>3, <3>4 DEF Reading
  <2>2. CASE file[q] # NewLine
    <3>1. q = p + (BufferSize - 1) /\ ~ LinesFit(file)
      BY <1>4, <2>2
    <3>2. (q - s) % (BufferSize - 1) = 0
      <4>1. PICK n \in Nat : n = p - s
        BY <1>1, <1>3
      <4>2. PICK B \in Nat \ {0} : B = BufferSize - 1
        BY <1>7
      <4>3. (n + B) % B = 0
        BY <1>3, <4>1, <4>2, ModAdd
      <4>4. q - s = n + B
        BY <1>1, <3>1, <4>1, <4>2
      <4> QED
        BY <4>2, <4>3, <4>4
    <3>3. q \in 0 .. L /\ s <= q
      BY <1>1, <1>3
    <3>4. ASSUME NEW n \in s + 1 .. q
          PROVE  file[n] # NewLine
      <4>1. n \in s + 1 .. q - 1 \/ n = q
        BY <1>1
      <4> QED
        BY <1>8, <2>2, <4>1
    <3>5. ReadUpTo(file, SubSeq(file, q + 1, L), Append(used, line), q, s)
      BY <1>1, <1>3, <3>1, <3>2, <3>3, <3>4 DEF ReadUpTo
    <3> QED
      BY <1>1, <3>3, <3>5 DEF Reading
  <2> QED
    BY <2>1, <2>2
<1>13. ASSUME LinesFit(file)
       PROVE  Len(used) < Len(Lines(file))
  BY <1>3, <1>4, <1>9, <1>10, <1>11, <1>13
<1>14. ASSUME line = <<>>
       PROVE  \E k \in DOMAIN Lines(file) : Len(Lines(file)[k]) % (BufferSize - 1) = 0
  <2>1. Len(line) = 0
    BY <1>14
  <2>2. file[q] = NewLine /\ q - 1 = p
    BY <1>1, <1>6, <2>1
  <2>3. Len(SubSeq(file, s + 1, p)) = p - s
    <3>1. s + 1 \in 1 .. Len(file) + 1 /\ p \in s + 1 - 1 .. Len(file)
      BY <1>1, <1>3
    <3>2. Len(SubSeq(file, s + 1, p)) = p - (s + 1) + 1
      BY <3>1, Part
    <3> QED
      BY <1>1, <3>2
  <2> QED
    BY <1>3, <1>9, <1>10, <2>2, <2>3
<1> QED
  BY <1>1, <1>4, <1>5, <1>6, <1>12, <1>13, <1>14

\* At the end of a file all its lines have been used, if lines fit.
LEMMA ReadEnded ==
  ASSUME NEW file \in Seq(Char), NEW left, NEW used \in Seq(Seq(Char)),
         Reading(file, left, used), feof(left), LinesFit(file)
  PROVE  used = Lines(file)
<1>1. PICK L \in Nat : L = Len(file)
  BY LenProperties
<1>2. PICK p, s \in 0 .. L : ReadUpTo(file, left, used, p, s)
  BY <1>1 DEF Reading
<1>3. /\ left = SubSeq(file, p + 1, L)
      /\ Len(used) = Count(file, p)
      /\ \A k \in 1 .. Len(used) : used[k] = Lines(file)[k]
  BY <1>1, <1>2 DEF ReadUpTo
<1>4. ASSUME NEW n \in p + 1 .. L
      PROVE  file[n] # NewLine
  <2>1. Len(left) = L - p /\ \A m \in 1 .. Len(left) : left[m] = file[p + m]
    BY <1>1, <1>3, Behind
  <2>2. n - p \in 1 .. Len(left) /\ n = p + (n - p)
    BY <1>1, <2>1
  <2>3. left[n - p] # NewLine
    BY <2>2 DEF feof, ReadEnds
  <2> QED
    BY <2>1, <2>2, <2>3
<1>5. Count(file, L) = Count(file, p)
  <2>1. p \in 0 .. Len(file) /\ L \in p .. Len(file)
    BY <1>1
  <2> QED
    BY <1>4, <2>1, CountSame
<1>6. Count(file, L) \in Nat
  BY CountType
<1>7. used \in [1 .. Count(file, L) -> Seq(Char)]
  BY <1>3, <1>5, LenProperties
<1>8. Lines(file) = [k \in 1 .. Count(file, L) |-> Lines(file)[k]]
  BY <1>1 DEF Lines
<1> QED
  BY <1>3, <1>5, <1>7, <1>8

-----------------------------------------------------------------------------
(***************************************************************************)
(* The steps of load_excludes and load_top_level_paths.                    *)
(***************************************************************************)

\* Before the first fgets.
LEMMA ConfigBegins ==
  ASSUME Init
  PROVE  ConfigInv
<1>1. exclude_file \in Seq(Char) /\ config_file \in Seq(Char)
  BY ConfigLoadAssumption DEF Init
<1>2. /\ phase = "excludes" /\ rest = exclude_file /\ excludes = <<>> /\ calls = <<>>
      /\ MaxExcludes \in Nat
  BY ConfigLoadAssumption DEF Init
<1>3. Reading(exclude_file, rest, excludes)
  BY <1>1, <1>2, ReadBegins
<1>4. excludes \in Seq(Seq(Char)) /\ calls \in Seq(Seq(Char)) /\ Len(excludes) = 0
  BY <1>2
<1>5. DOMAIN excludes = {}
  BY <1>2
<1>6. LinesUsed /\ LimitExact /\ BlankExplained
  BY <1>2, <1>4, <1>5 DEF LinesUsed, LimitExact, BlankExplained
<1> QED
  BY <1>1, <1>2, <1>3, <1>4, <1>6 DEF ConfigInv

\* An exit because of an error, or of one line too many.
LEMMA ExitKeeps ==
  ASSUME ConfigInv, ReadFails \/ TooManyExcludes
  PROVE  ConfigInv'
<1>1. /\ phase' \in {"read_error", "too_many"}
      /\ exclude_file' = exclude_file /\ config_file' = config_file
      /\ excludes' = excludes /\ calls' = calls
  BY DEF ReadFails, TooManyExcludes
<1>2. ASSUME phase' = "too_many", LinesFit(exclude_file)
      PROVE  Len(Lines(exclude_file)) > MaxExcludes
  <2>1. phase = "excludes" /\ ~ feof(rest) /\ Len(excludes) >= MaxExcludes
    BY <1>2 DEF ReadFails, TooManyExcludes
  <2>2. /\ exclude_file \in Seq(Char) /\ excludes \in Seq(Seq(Char))
        /\ Reading(exclude_file, rest, excludes)
    BY <2>1 DEF ConfigInv
  <2>3. Len(excludes) < Len(Lines(exclude_file))
    BY <1>2, <2>1, <2>2, ReadsOn
  <2>4. Len(excludes) \in Nat /\ Len(Lines(exclude_file)) \in Nat /\ MaxExcludes \in Nat
    <3>1. Count(exclude_file, Len(exclude_file)) \in Nat
      BY <2>2, LenProperties, CountType
    <3>2. Len(Lines(exclude_file)) = Count(exclude_file, Len(exclude_file))
      BY <3>1 DEF Lines
    <3> QED
      BY <2>2, <3>1, <3>2, LenProperties, ConfigLoadAssumption
  <2> QED
    BY <2>1, <2>3, <2>4
<1> QED
  BY <1>1, <1>2 DEF ConfigInv, LinesUsed, LimitExact, BlankExplained

\* A line of the exclude file.
LEMMA StoreKeeps ==
  ASSUME ConfigInv, StoreExclude
  PROVE  ConfigInv'
<1>1. PICK line : line = Stripped(fgets(rest))
  OBVIOUS
<1>2. /\ phase = "excludes" /\ ~ feof(rest) /\ Len(excludes) < MaxExcludes
      /\ excludes' = Append(excludes, line)
      /\ rest' = SubSeq(rest, Len(fgets(rest)) + 1, Len(rest))
      /\ UNCHANGED <<phase, exclude_file, config_file, calls>>
  BY <1>1 DEF StoreExclude, Advance
<1>3. /\ exclude_file \in Seq(Char) /\ config_file \in Seq(Char)
      /\ excludes \in Seq(Seq(Char)) /\ calls = <<>> /\ calls \in Seq(Seq(Char))
      /\ Reading(exclude_file, rest, excludes)
  BY <1>2 DEF ConfigInv
<1>4. /\ line \in Seq(Char)
      /\ Reading(exclude_file, rest', excludes')
      /\ line = <<>> => \E k \in DOMAIN Lines(exclude_file) :
                          Len(Lines(exclude_file)[k]) % (BufferSize - 1) = 0
  BY <1>1, <1>2, <1>3, ReadsOn
<1>5. PICK n \in Nat : n = Len(excludes)
  BY <1>3, LenProperties
<1>6. /\ excludes' \in Seq(Seq(Char)) /\ Len(excludes') = n + 1 /\ excludes'[n + 1] = line
      /\ \A k \in 1 .. n : excludes'[k] = excludes[k]
  BY <1>2, <1>3, <1>4, <1>5, AppendProperties
<1>7. Len(excludes') <= MaxExcludes
  BY <1>2, <1>5, <1>6, ConfigLoadAssumption
<1>8. BlankExplained'
  <2>1. SUFFICES ASSUME NEW k \in DOMAIN excludes', excludes'[k] = <<>>
                 PROVE  \E j \in DOMAIN Lines(exclude_file) :
                          Len(Lines(exclude_file)[j]) % (BufferSize - 1) = 0
    BY <1>2 DEF BlankExplained
  <2>2. k \in 1 .. n \/ k = n + 1
    BY <1>6, LenProperties
  <2>3. DOMAIN excludes = 1 .. n
    BY <1>3, <1>5, LenProperties
  <2>4. CASE k \in 1 .. n
    <3>1. excludes[k] = <<>> /\ k \in DOMAIN excludes
      BY <1>6, <2>1, <2>3, <2>4
    <3>2. BlankExplained
      BY DEF ConfigInv
    <3> QED
      BY <3>1, <3>2 DEF BlankExplained
  <2> QED
    BY <1>4, <1>6, <2>1, <2>2, <2>4
<1>9. LinesUsed'
  BY <1>2, <1>3 DEF LinesUsed
<1>10. LimitExact'
  BY <1>2, <1>7 DEF LimitExact
<1> QED
  BY <1>2, <1>3, <1>4, <1>6, <1>8, <1>9, <1>10 DEF ConfigInv

\* The end of the exclude file: its lines are known.
LEMMA ExcludesDoneKeeps ==
  ASSUME ConfigInv, ExcludesDone
  PROVE  ConfigInv'
<1>1. /\ phase = "excludes" /\ feof(rest) /\ phase' = "top_level" /\ rest' = config_file
      /\ UNCHANGED <<exclude_file, config_file, excludes, calls>>
  BY DEF ExcludesDone
<1>2. /\ exclude_file \in Seq(Char) /\ config_file \in Seq(Char)
      /\ excludes \in Seq(Seq(Char)) /\ calls = <<>> /\ calls \in Seq(Seq(Char))
      /\ Reading(exclude_file, rest, excludes)
  BY <1>1 DEF ConfigInv
<1>3. LinesFit(exclude_file) => excludes = Lines(exclude_file)
  BY <1>1, <1>2, ReadEnded
<1>4. Reading(config_file, rest', calls')
  BY <1>1, <1>2, ReadBegins
<1>5. LinesUsed' /\ LimitExact' /\ BlankExplained'
  BY <1>1, <1>2 DEF ConfigInv, LinesUsed, LimitExact, BlankExplained
<1> QED
  BY <1>1, <1>2, <1>3, <1>4, <1>5 DEF ConfigInv

\* A line of the configuration file.
LEMMA TopLevelKeeps ==
  ASSUME ConfigInv, AddTopLevel
  PROVE  ConfigInv'
<1>1. PICK line : line = Stripped(fgets(rest))
  OBVIOUS
<1>2. /\ phase = "top_level" /\ ~ feof(rest) /\ calls' = Append(calls, line)
      /\ rest' = SubSeq(rest, Len(fgets(rest)) + 1, Len(rest))
      /\ UNCHANGED <<phase, exclude_file, config_file, excludes>>
  BY <1>1 DEF AddTopLevel, Advance
<1>3. /\ exclude_file \in Seq(Char) /\ config_file \in Seq(Char)
      /\ excludes \in Seq(Seq(Char)) /\ calls \in Seq(Seq(Char))
      /\ Reading(config_file, rest, calls)
      /\ LinesFit(exclude_file) => excludes = Lines(exclude_file)
  BY <1>2 DEF ConfigInv
<1>4. line \in Seq(Char) /\ Reading(config_file, rest', calls')
  BY <1>1, <1>2, <1>3, ReadsOn
<1>5. calls' \in Seq(Seq(Char))
  BY <1>2, <1>3, <1>4, AppendProperties
<1>6. LinesUsed' /\ LimitExact' /\ BlankExplained'
  BY <1>2, <1>3 DEF ConfigInv, LinesUsed, LimitExact, BlankExplained
<1> QED
  BY <1>2, <1>3, <1>4, <1>5, <1>6 DEF ConfigInv

\* The end of the configuration file.
LEMMA TopLevelDoneKeeps ==
  ASSUME ConfigInv, TopLevelDone
  PROVE  ConfigInv'
<1>1. /\ phase = "top_level" /\ feof(rest) /\ phase' = "loaded"
      /\ UNCHANGED <<exclude_file, config_file, rest, excludes, calls>>
  BY DEF TopLevelDone
<1>2. /\ config_file \in Seq(Char) /\ calls \in Seq(Seq(Char))
      /\ Reading(config_file, rest, calls)
      /\ LinesFit(exclude_file) => excludes = Lines(exclude_file)
  BY <1>1 DEF ConfigInv
<1>3. LinesFit(config_file) => calls = Lines(config_file)
  BY <1>1, <1>2, ReadEnded
<1>4. LinesUsed' /\ LimitExact' /\ BlankExplained'
  BY <1>1, <1>2, <1>3 DEF ConfigInv, LinesUsed, LimitExact, BlankExplained
<1> QED
  BY <1>1, <1>2, <1>4 DEF ConfigInv

\* Every step of the inputs keeps the invariant of the files.
LEMMA ConfigStep ==
  ASSUME ConfigInv, [InputsNext]_<<configVars, bufferVars>>
  PROVE  ConfigInv'
<1>1. CASE Next
  BY <1>1, ExitKeeps, StoreKeeps, ExcludesDoneKeeps, TopLevelKeeps, TopLevelDoneKeeps
  DEF Next
<1>2. CASE UNCHANGED configVars
  BY <1>2 DEF configVars, ConfigInv, LinesUsed, LimitExact, BlankExplained
<1> QED
  BY <1>1, <1>2 DEF InputsNext

-----------------------------------------------------------------------------
(***************************************************************************)
(* Where events end.                                                       *)
(***************************************************************************)

\* The size of an event.
LEMMA SizeType ==
  ASSUME NEW e \in Event
  PROVE  /\ Buffer!Size(e) \in Nat /\ Buffer!Size(e) >= 2
         /\ Buffer!Size(e) <= BufferLen
BY BufferAssumption DEF Buffer!BufferConstants, Buffer!Size, Buffer!HeaderLen

\* The recursion that defines Ends, up to n, has a solution: no n is the least
\* one for which it has none.
LEMMA EndsExist ==
  ASSUME NEW events \in Seq(Event)
  PROVE  \E f : f = [k \in 0 .. Len(events) |->
                       IF k = 0 THEN 0 ELSE f[k - 1] + Buffer!Size(events[k])]
<1> DEFINE Sol(n, f) == f = [k \in 0 .. n |->
                       IF k = 0 THEN 0 ELSE f[k - 1] + Buffer!Size(events[k])]
<1> DEFINE T == {n \in Nat : ~ \E f : Sol(n, f)}
<1>1. ASSUME T # {}
      PROVE  FALSE
  <2>1. T \in SUBSET Nat
    OBVIOUS
  <2>2. PICK n \in T : \A m \in T : n <= m
    <3> HIDE DEF T
    <3> QED
      BY <1>1, <2>1, Least
  <2>3. CASE n = 0
    <3>1. Sol(0, [k \in 0 .. 0 |-> 0])
      OBVIOUS
    <3> QED
      BY <2>3, <3>1
  <2>4. CASE n # 0
    <3>1. n - 1 \in Nat /\ n \in Nat /\ ~ (n <= n - 1)
      BY <2>4
    <3>2. \E f : Sol(n - 1, f)
      BY <2>2, <3>1
    <3>3. PICK f : Sol(n - 1, f)
      BY <3>2
    <3> DEFINE g == [k \in 0 .. n |->
                       IF k = n THEN f[n - 1] + Buffer!Size(events[n]) ELSE f[k]]
    <3>4. ASSUME NEW k \in 0 .. n
          PROVE  g[k] = IF k = 0 THEN 0 ELSE g[k - 1] + Buffer!Size(events[k])
      BY <3>1, <3>3
    <3>5. Sol(n, g)
      BY <3>4
    <3> QED
      BY <3>5
  <2> QED
    BY <2>3, <2>4
<1>2. Len(events) \in Nat
  BY LenProperties
<1>3. \E f : Sol(Len(events), f)
  BY <1>1, <1>2
<1> QED
  BY <1>3

\* What Ends says: the first event begins at 0, each ends its size behind
\* where it begins.
LEMMA EndsFacts ==
  ASSUME NEW events \in Seq(Event)
  PROVE  /\ Buffer!Ends(events) \in [0 .. Len(events) -> Nat]
         /\ Buffer!Ends(events)[0] = 0
         /\ \A k \in 1 .. Len(events) :
              Buffer!Ends(events)[k]
                = Buffer!Ends(events)[k - 1] + Buffer!Size(events[k])
<1>1. PICK L \in Nat : L = Len(events)
  BY LenProperties
<1>2. PICK g : g = Buffer!Ends(events)
  OBVIOUS
<1>3. g = [k \in 0 .. L |->
             IF k = 0 THEN 0 ELSE g[k - 1] + Buffer!Size(events[k])]
  BY EndsExist, <1>1, <1>2 DEF Buffer!Ends
<1>4. g[0] = 0 /\ \A k \in 1 .. L : g[k] = g[k - 1] + Buffer!Size(events[k])
  BY <1>3
<1>5. \A k \in 1 .. L : Buffer!Size(events[k]) \in Nat
  <2>1. \A k \in 1 .. L : events[k] \in Event
    BY <1>1, ElementOfSeq
  <2> QED
    BY <2>1, SizeType
<1>6. \A k \in 0 .. L : g[k] \in Nat
  <2> DEFINE T == {k \in 0 .. L : g[k] \notin Nat}
  <2>1. ASSUME T # {}
        PROVE  FALSE
    <3>1. T \in SUBSET Nat
      OBVIOUS
    <3>2. PICK k \in T : \A m \in T : k <= m
      <4> HIDE DEF T
      <4> QED
        BY <2>1, <3>1, Least
    <3>3. k # 0
      BY <1>4, <3>2
    <3>4. k - 1 \in 0 .. L /\ k - 1 \notin T /\ k \in 1 .. L
      BY <3>2, <3>3
    <3> QED
      BY <1>4, <1>5, <3>2, <3>4
  <2> QED
    BY <2>1
<1>7. g \in [0 .. L -> Nat]
  BY <1>3, <1>6
<1> QED
  BY <1>1, <1>2, <1>4, <1>7

\* Events that lie one behind the other do not begin in the same cell.
LEMMA Increasing ==
  ASSUME NEW L \in Nat, NEW end \in [0 .. L -> Nat],
         \A k \in 1 .. L : end[k] >= end[k - 1] + 2
  PROVE  \A j, k \in 0 .. L : j < k => end[j] < end[k]
<1> SUFFICES ASSUME NEW j \in 0 .. L
             PROVE  \A k \in 0 .. L : j < k => end[j] < end[k]
  OBVIOUS
<1> DEFINE T == {k \in 0 .. L : j < k /\ ~ (end[j] < end[k])}
<1>1. ASSUME T # {}
      PROVE  FALSE
  <2>1. T \in SUBSET Nat
    OBVIOUS
  <2>2. PICK k \in T : \A m \in T : k <= m
    <3> HIDE DEF T
    <3> QED
      BY <1>1, <2>1, Least
  <2>3. k \in 1 .. L /\ k - 1 \in 0 .. L /\ k - 1 \notin T /\ j <= k - 1
    BY <2>2
  <2>4. end[k] >= end[k - 1] + 2 /\ end[k] \in Nat /\ end[k - 1] \in Nat /\ end[j] \in Nat
    BY <2>3
  <2>5. end[j] <= end[k - 1]
    BY <2>3, <2>4
  <2>6. end[j] < end[k]
    BY <2>4, <2>5
  <2> QED
    BY <2>2, <2>6
<1> QED
  BY <1>1

\* Events that lie one behind the other begin in different cells, and within
\* the bytes they take.
LEMMA EndsIncrease ==
  ASSUME NEW events \in Seq(Event)
  PROVE  /\ \A j, k \in 0 .. Len(events) :
              j < k => Buffer!Ends(events)[j] < Buffer!Ends(events)[k]
         /\ \A k \in 0 .. Len(events) :
              Buffer!Ends(events)[k] <= Buffer!BytesOf(events)
<1>1. PICK L \in Nat : L = Len(events)
  BY LenProperties
<1>2. PICK end \in [0 .. L -> Nat] : end = Buffer!Ends(events)
  BY <1>1, EndsFacts
<1>3. \A k \in 1 .. L : end[k] >= end[k - 1] + 2
  <2>1. ASSUME NEW k \in 1 .. L
        PROVE  end[k] >= end[k - 1] + 2
    <3>1. end[k] = end[k - 1] + Buffer!Size(events[k])
      BY <1>1, <1>2, EndsFacts
    <3>2. events[k] \in Event
      BY <1>1, ElementOfSeq
    <3>3. Buffer!Size(events[k]) \in Nat /\ Buffer!Size(events[k]) >= 2
      BY <3>2, SizeType
    <3>4. end[k - 1] \in Nat
      BY <1>2
    <3> QED
      BY <3>1, <3>3, <3>4
  <2> QED
    BY <2>1
<1>4. \A j, k \in 0 .. L : j < k => end[j] < end[k]
  BY <1>3, Increasing
<1>5. \A k \in 0 .. L : end[k] <= end[L]
  <2>1. ASSUME NEW k \in 0 .. L
        PROVE  end[k] <= end[L]
    <3>1. k = L \/ k < L
      OBVIOUS
    <3>2. L \in 0 .. L /\ end[L] \in Nat
      BY <1>2
    <3> QED
      BY <1>4, <3>1, <3>2
  <2> QED
    BY <2>1
<1> QED
  BY <1>1, <1>2, <1>4, <1>5 DEF Buffer!BytesOf

\* What lies where an event begins is the event.
LEMMA CellOfEvent ==
  ASSUME NEW events \in Seq(Event), NEW k \in 1 .. Len(events)
  PROVE  Buffer!CellOf(events, Buffer!Ends(events)[k - 1]) = events[k]
<1>1. PICK L \in Nat : L = Len(events)
  BY LenProperties
<1>2. PICK end \in [0 .. L -> Nat] : end = Buffer!Ends(events)
  BY <1>1, EndsFacts
<1> DEFINE starts == {j \in DOMAIN events : end[j - 1] = end[k - 1]}
<1>3. DOMAIN events = 1 .. L
  BY <1>1
<1>4. ASSUME NEW j \in starts
      PROVE  j = k
  <2>1. j - 1 \in 0 .. L /\ k - 1 \in 0 .. L /\ j \in 1 .. L /\ k \in 1 .. L
    BY <1>1, <1>3
  <2>2. \A m, n \in 0 .. L : m < n => end[m] < end[n]
    BY <1>1, <1>2, EndsIncrease
  <2>3. end[j - 1] \in Nat /\ end[j - 1] = end[k - 1]
    BY <1>2, <2>1
  <2>4. ~ (j - 1 < k - 1) /\ ~ (k - 1 < j - 1)
    BY <2>1, <2>2, <2>3
  <2> QED
    BY <2>1, <2>4
<1>5. k \in starts
  BY <1>1, <1>3
<1>6. (CHOOSE j \in starts : TRUE) = k
  <2> HIDE DEF starts
  <2> QED
    BY <1>4, <1>5
<1>7. starts # {}
  BY <1>5
<1> QED
  BY <1>2, <1>6, <1>7 DEF Buffer!CellOf

-----------------------------------------------------------------------------
(***************************************************************************)
(* What a read does.                                                       *)
(***************************************************************************)

\* A read of a queue that is not empty gives its first events, at least one,
\* and no more than fit.
LEMMA BatchFacts ==
  ASSUME queue \in Seq(Event), queue # <<>>
  PROVE  \E n \in 1 .. Len(queue) :
           /\ Buffer!Batch = SubSeq(queue, 1, n)
           /\ Buffer!Batch \in Seq(Event) /\ Len(Buffer!Batch) = n
           /\ Buffer!BytesOf(Buffer!Batch) <= BufferLen
           /\ \A k \in 1 .. n : Buffer!Batch[k] = queue[k]
<1>1. PICK L \in Nat : L = Len(queue)
  BY LenProperties
<1>2. L # 0
  BY <1>1, EmptySeq
<1>3. \A i \in 1 .. L : queue[i] \in Event
  BY <1>1, ElementOfSeq
<1>4. ASSUME NEW n \in 1 .. L
      PROVE  /\ SubSeq(queue, 1, n) \in Seq(Event) /\ Len(SubSeq(queue, 1, n)) = n
             /\ \A k \in 1 .. n : SubSeq(queue, 1, n)[k] = queue[k]
  <2>1. \A i \in 1 .. n : queue[i] \in Event
    BY <1>3
  <2>2. 1 \in Int /\ n \in Int /\ 1 <= n
    OBVIOUS
  <2>3. /\ SubSeq(queue, 1, n) \in Seq(Event)
        /\ Len(SubSeq(queue, 1, n)) = IF 1 <= n THEN n - 1 + 1 ELSE 0
        /\ \A i \in 1 .. n - 1 + 1 : SubSeq(queue, 1, n)[i] = queue[1 + i - 1]
    BY <2>1, <2>2, SubSeqProperties
  <2> QED
    BY <2>2, <2>3
<1>5. Buffer!Fits(1)
  <2> 1 \in 1 .. L
    BY <1>2
  <2>1. PICK s \in Seq(Event) : s = SubSeq(queue, 1, 1)
    BY <1>4
  <2>2. Len(s) = 1 /\ s[1] \in Event
    BY <1>2, <1>3, <1>4, <2>1
  <2>3. Buffer!Ends(s)[1] = Buffer!Ends(s)[0] + Buffer!Size(s[1]) /\ Buffer!Ends(s)[0] = 0
    <3>1. 1 \in 1 .. Len(s) /\ 1 - 1 = 0
      BY <2>2
    <3> QED
      BY <3>1, EndsFacts
  <2>4. Buffer!Size(s[1]) \in Nat /\ Buffer!Size(s[1]) <= BufferLen
    BY <2>2, SizeType
  <2> QED
    BY <2>1, <2>2, <2>3, <2>4 DEF Buffer!Fits, Buffer!BytesOf
<1> DEFINE T == {n \in 0 .. L : Buffer!Fits(n)}
<1>6. T \in SUBSET (0 .. L) /\ 1 \in T
  BY <1>2, <1>5
<1>7. PICK m \in T : \A n \in T : n <= m
  <2> HIDE DEF T
  <2> QED
    BY <1>6, Greatest
<1>8. \A n \in T : m >= n
  BY <1>6, <1>7
<1>9. PICK n \in T : n = Buffer!Max(T) /\ \A k \in T : n >= k
  <2> HIDE DEF T
  <2> QED
    BY <1>8 DEF Buffer!Max
<1>10. n \in 1 .. L /\ Buffer!Fits(n)
  BY <1>6, <1>9
<1>11. Buffer!Batch = SubSeq(queue, 1, n)
  BY <1>1, <1>9 DEF Buffer!Batch
<1> QED
  BY <1>1, <1>4, <1>10, <1>11 DEF Buffer!Fits

\* The state behind a read: the events of the batch lie one behind the other,
\* each where Ends says.
LEMMA ReadFacts ==
  ASSUME Buffer!TypeOK, queue # <<>>, Buffer!Read
  PROVE  \E n \in 1 .. Len(queue), b \in Seq(Event) :
           /\ b = SubSeq(queue, 1, n) /\ Len(b) = n /\ b # <<>>
           /\ Buffer!BytesRead = Buffer!Ends(b)[n]
           /\ Buffer!Ends(b)[n] \in 0 .. BufferLen
           /\ queue' = SubSeq(queue, n + 1, Len(queue))
           /\ later' = Tail(b)
           /\ DOMAIN cells' = 0 .. BufferLen - 1
           /\ \A k \in 1 .. n : cells'[Buffer!Ends(b)[k - 1]] = b[k]
<1>1. queue \in Seq(Event) /\ DOMAIN cells = 0 .. BufferLen - 1
  BY DEF Buffer!TypeOK
<1>2. PICK b \in Seq(Event) : b = Buffer!Batch
  BY <1>1, BatchFacts
<1>3. PICK n \in 1 .. Len(queue) :
           /\ b = SubSeq(queue, 1, n) /\ Len(b) = n /\ Buffer!BytesOf(b) <= BufferLen
  BY <1>1, <1>2, BatchFacts
<1>4. n \in Nat /\ n # 0 /\ BufferLen \in Nat
  BY <1>1, <1>3, LenProperties, BufferAssumption DEF Buffer!BufferConstants
<1>5. b # <<>>
  BY <1>3, <1>4
<1>6. PICK end \in [0 .. n -> Nat] : end = Buffer!Ends(b)
  BY <1>3, EndsFacts
<1>7. Buffer!BytesOf(b) = end[n] /\ end[n] \in 0 .. BufferLen
  BY <1>3, <1>4, <1>6 DEF Buffer!BytesOf
<1>8. \A j, k \in 0 .. n : j < k => end[j] < end[k]
  BY <1>3, <1>6, EndsIncrease
<1>9. ASSUME NEW k \in 1 .. n
      PROVE  cells'[end[k - 1]] = b[k]
  <2>1. k - 1 \in 0 .. n /\ n \in 0 .. n /\ k - 1 < n
    BY <1>4
  <2>2. end[k - 1] \in Nat /\ end[k - 1] < end[n] /\ end[n] <= BufferLen /\ end[n] \in Nat
    BY <1>7, <1>8, <2>1
  <2>3. end[k - 1] \in DOMAIN cells
    BY <1>1, <1>4, <2>2
  <2>4. cells'[end[k - 1]] = Buffer!CellOf(b, end[k - 1])
    BY <1>2, <1>7, <2>2, <2>3 DEF Buffer!Read, Buffer!BytesRead
  <2> QED
    BY <1>3, <1>6, <2>4, CellOfEvent
<1>10. queue' = SubSeq(queue, n + 1, Len(queue)) /\ later' = Tail(b)
  BY <1>2, <1>3 DEF Buffer!Read
<1>11. DOMAIN cells' = 0 .. BufferLen - 1
  BY <1>1 DEF Buffer!Read
<1> QED
  BY <1>2, <1>3, <1>5, <1>6, <1>7, <1>9, <1>10, <1>11 DEF Buffer!BytesRead

-----------------------------------------------------------------------------
(***************************************************************************)
(* The invariant.                                                          *)
(***************************************************************************)

\* The n events b of a read lie in the buffer, the k-th up to end[k], and the
\* first one is handed out.
Started(n, b, end) ==
  /\ b = SubSeq(queue, 1, n) /\ Len(b) = n /\ b # <<>>
  /\ queue' = SubSeq(queue, n + 1, Len(queue)) /\ later' = Tail(b)
  /\ DOMAIN cells' = 0 .. BufferLen - 1
  /\ end \in [0 .. n -> Nat] /\ end[0] = 0 /\ end[n] \in 0 .. BufferLen
  /\ \A k \in 0 .. n : end[k] <= end[n]
  /\ \A k \in 1 .. n : end[k] = end[k - 1] + Buffer!Size(b[k])
  /\ \A k \in 1 .. n : cells'[end[k - 1]] = b[k]
  /\ start_unused_buffer' = end[n]
  /\ event_start_index' = 0 /\ event_p' = 0
  /\ event_size' = Buffer!Size(b[1]) /\ event_size' = end[1]
  /\ b[1] \in Event /\ invalid' = invalid

\* start_iter_inotify does that: its two short reads do not happen.
LEMMA StartFacts ==
  ASSUME Buffer!IInv, Buffer!start_iter_inotify
  PROVE  /\ event_p = BufferLen /\ queue # <<>>
         /\ \E n \in 1 .. Len(queue), b \in Seq(Event) : \E end : Started(n, b, end)
<1>1. Buffer!TypeOK /\ queue # <<>> /\ Buffer!Read /\ event_p = BufferLen
  BY DEF Buffer!IInv, Buffer!start_iter_inotify, Buffer!NoEvent
<1>2. PICK n \in 1 .. Len(queue), b \in Seq(Event) :
           /\ b = SubSeq(queue, 1, n) /\ Len(b) = n /\ b # <<>>
           /\ Buffer!BytesRead = Buffer!Ends(b)[n]
           /\ Buffer!Ends(b)[n] \in 0 .. BufferLen
           /\ queue' = SubSeq(queue, n + 1, Len(queue))
           /\ later' = Tail(b)
           /\ DOMAIN cells' = 0 .. BufferLen - 1
           /\ \A k \in 1 .. n : cells'[Buffer!Ends(b)[k - 1]] = b[k]
  BY <1>1, ReadFacts
<1>3. n \in Nat /\ n # 0
  BY <1>1, LenProperties DEF Buffer!TypeOK
<1>4. PICK end \in [0 .. n -> Nat] : end = Buffer!Ends(b)
  BY <1>2, EndsFacts
<1>5. /\ end[0] = 0
      /\ \A k \in 1 .. n : end[k] = end[k - 1] + Buffer!Size(b[k])
      /\ \A k \in 0 .. n : end[k] <= end[n]
  BY <1>2, <1>4, EndsFacts, EndsIncrease DEF Buffer!BytesOf
<1>6. 1 \in 1 .. n /\ 1 \in 0 .. n /\ 1 - 1 = 0
  BY <1>3
<1>7. b[1] \in Event
  BY <1>2, <1>6, ElementOfSeq
<1>8. end[1] = Buffer!Size(b[1]) /\ cells'[0] = b[1]
  <2>1. end[1] = end[0] + Buffer!Size(b[1])
    BY <1>5, <1>6
  <2>2. cells'[end[0]] = b[1]
    BY <1>2, <1>4, <1>6
  <2> QED
    BY <1>5, <1>7, <2>1, <2>2, SizeType
<1>9. /\ Buffer!BytesRead = end[n] /\ end[n] \in Nat
      /\ end[n] >= 2 /\ end[n] >= Buffer!Size(b[1])
  <2>1. end[1] <= end[n] /\ end[n] \in Nat
    BY <1>2, <1>4, <1>5, <1>6
  <2>2. Buffer!Size(b[1]) \in Nat /\ Buffer!Size(b[1]) >= 2
    BY <1>7, SizeType
  <2> QED
    BY <1>2, <1>4, <1>8, <2>1, <2>2
<1>10. ~ (Buffer!BytesRead < 2 \/ Buffer!BytesRead < Buffer!Size(cells'[0]))
  BY <1>7, <1>8, <1>9, SizeType
<1>11. /\ start_unused_buffer' = end[n] /\ event_start_index' = 0 /\ event_p' = 0
       /\ event_size' = Buffer!Size(b[1]) /\ invalid' = invalid
  BY <1>8, <1>9, <1>10 DEF Buffer!start_iter_inotify, Buffer!HeaderLen
<1> QED
  BY <1>1, <1>2, <1>4, <1>5, <1>7, <1>8, <1>11 DEF Started

\* start_iter_inotify keeps the invariant.
LEMMA StartKeeps ==
  ASSUME Buffer!IInv, Buffer!start_iter_inotify
  PROVE  Buffer!IInv'
<1>0. PICK n \in 1 .. Len(queue), b \in Seq(Event) : \E end : Started(n, b, end)
  BY StartFacts
<1>1. PICK end : Started(n, b, end)
  BY <1>0
<1> USE DEF Started
<1>2. queue \in Seq(Event) /\ invalid \in BOOLEAN /\ ~ invalid
  BY DEF Buffer!IInv, Buffer!TypeOK, Buffer!NoInvalidStructure
<1>3. PICK L \in Nat : L = Len(queue) /\ n \in 1 .. L
  BY <1>1, <1>2, LenProperties
<1>4. BufferLen \in Nat \ {0}
  BY BufferAssumption DEF Buffer!BufferConstants
<1>5. queue' \in Seq(Event)
  <2>1. \A i \in n + 1 .. L : queue[i] \in Event
    BY <1>2, <1>3, ElementOfSeq
  <2> QED
    BY <1>1, <1>3, <2>1, SubSeqProperties
<1>6. /\ later' \in Seq(Event) /\ Len(later') = n - 1
      /\ \A i \in 1 .. n - 1 : later'[i] = b[i + 1]
  <2>1. /\ Tail(b) \in Seq(Event) /\ Len(Tail(b)) = Len(b) - 1
        /\ \A i \in 1 .. Len(Tail(b)) : Tail(b)[i] = b[i + 1]
    BY <1>1, HeadTailProperties
  <2> QED
    BY <1>1, <2>1
<1>7. Buffer!Size(b[1]) \in Nat /\ end[1] <= end[n] /\ 1 \in 1 .. n
  BY <1>1, <1>3, SizeType
<1>8. Buffer!TypeOK'
  <2>1. /\ start_unused_buffer' \in 0 .. BufferLen
        /\ event_start_index' \in DOMAIN cells'
        /\ event_size' \in 0 .. BufferLen
        /\ event_p' = event_start_index'
        /\ event_start_index' + event_size' <= start_unused_buffer'
    BY <1>1, <1>4, <1>7
  <2> QED
    BY <1>1, <1>2, <1>5, <1>6, <2>1 DEF Buffer!TypeOK
<1>9. Buffer!LayoutInv'
  <2> DEFINE later_end == [k \in 0 .. n - 1 |-> end[k + 1]]
  <2>1. \A k \in 0 .. n : end[k] \in 0 .. BufferLen
    <3>1. ASSUME NEW k \in 0 .. n
          PROVE  end[k] \in 0 .. BufferLen
      <4>1. end[k] \in Nat /\ end[k] <= end[n] /\ end[n] \in Nat /\ end[n] <= BufferLen
        BY <1>1, <1>4
      <4> QED
        BY <1>4, <4>1
    <3> QED
      BY <3>1
  <2>2. later_end \in [0 .. n - 1 -> 0 .. BufferLen]
    BY <1>3, <2>1
  <2>3. later_end[0] = event_start_index' + event_size'
    BY <1>1, <1>3, <1>7
  <2>4. later_end[n - 1] = start_unused_buffer'
    BY <1>1, <1>3
  <2>5. ASSUME NEW k \in 1 .. n - 1
        PROVE  /\ later_end[k] = later_end[k - 1] + Buffer!Size(later'[k])
               /\ cells'[later_end[k - 1]] = later'[k]
    <3>1. /\ k \in 0 .. n - 1 /\ k - 1 \in 0 .. n - 1 /\ k + 1 \in 1 .. n
          /\ k + 1 - 1 = k /\ k - 1 + 1 = k
      BY <1>3
    <3>2. later_end[k] = end[k + 1] /\ later_end[k - 1] = end[k]
      BY <3>1
    <3>3. later'[k] = b[k + 1]
      BY <1>6
    <3>4. end[k + 1] = end[k] + Buffer!Size(b[k + 1]) /\ cells'[end[k]] = b[k + 1]
      BY <1>1, <3>1
    <3> HIDE DEF later_end
    <3> QED
      BY <3>2, <3>3, <3>4
  <2>6. cells'[event_p'] \in Event /\ event_size' = Buffer!Size(cells'[event_p'])
    <3>1. cells'[end[1 - 1]] = b[1]
      BY <1>1, <1>7
    <3> QED
      BY <1>1, <3>1
  <2> HIDE DEF later_end
  <2>7. \E e \in [0 .. Len(later') -> 0 .. BufferLen] :
          /\ e[0] = event_start_index' + event_size'
          /\ e[Len(later')] = start_unused_buffer'
          /\ \A k \in 1 .. Len(later') :
               e[k] = e[k - 1] + Buffer!Size(later'[k]) /\ cells'[e[k - 1]] = later'[k]
    BY <1>6, <2>2, <2>3, <2>4, <2>5
  <2> QED
    BY <2>6, <2>7 DEF Buffer!LayoutInv, Buffer!Size
<1> QED
  BY <1>1, <1>2, <1>8, <1>9 DEF Buffer!IInv, Buffer!NoInvalidStructure

\* next_iter_inotify finds the end of the batch behind its last event and the
\* next event behind every other; it never exits.
LEMMA NextFacts ==
  ASSUME Buffer!IInv, Buffer!next_iter_inotify
  PROVE  /\ event_p # BufferLen /\ queue' = queue /\ cells' = cells
         /\ start_unused_buffer' = start_unused_buffer /\ invalid' = invalid
         /\ later = <<>> =>
              /\ event_p' = BufferLen /\ later' = <<>>
              /\ event_start_index' = event_start_index /\ event_size' = event_size
         /\ later # <<>> =>
              /\ event_p' = event_start_index' /\ later' = Tail(later)
              /\ event_start_index' = event_start_index + event_size
              /\ event_start_index' \in 0 .. BufferLen - 1
              /\ cells[event_start_index'] = later[1] /\ later[1] \in Event
              /\ event_size' = Buffer!Size(later[1])
              /\ event_start_index' + event_size' <= start_unused_buffer
<1>1. /\ event_p # BufferLen /\ queue' = queue /\ cells' = cells
      /\ start_unused_buffer' = start_unused_buffer
  BY DEF Buffer!next_iter_inotify, Buffer!NoEvent
<1>2. /\ later \in Seq(Event) /\ BufferLen \in Nat \ {0}
      /\ event_start_index \in Nat /\ event_size \in Nat
      /\ start_unused_buffer \in 0 .. BufferLen
  BY BufferAssumption DEF Buffer!IInv, Buffer!TypeOK, Buffer!BufferConstants
<1>3. PICK L \in Nat : L = Len(later)
  BY <1>2, LenProperties
<1>4. PICK end \in [0 .. L -> 0 .. BufferLen] :
         /\ end[0] = event_start_index + event_size
         /\ end[L] = start_unused_buffer
         /\ \A k \in 1 .. L :
              end[k] = end[k - 1] + Buffer!Size(later[k]) /\ cells[end[k - 1]] = later[k]
  BY <1>1, <1>3 DEF Buffer!IInv, Buffer!LayoutInv, Buffer!NoEvent
<1>5. CASE later = <<>>
  <2>1. L = 0
    BY <1>2, <1>3, <1>5, EmptySeq
  <2>2. event_start_index + event_size = start_unused_buffer
    BY <1>4, <2>1
  <2>3. /\ event_p' = BufferLen /\ UNCHANGED <<event_start_index, event_size, invalid, later>>
    BY <2>2 DEF Buffer!next_iter_inotify, Buffer!NoEvent
  <2> QED
    BY <1>1, <1>5, <2>3
<1>6. CASE later # <<>>
  <2>1. L # 0 /\ 1 \in 1 .. L /\ 1 - 1 = 0 /\ L \in 0 .. L /\ 1 \in 0 .. L /\ 0 \in 0 .. L
    BY <1>2, <1>3, <1>6, EmptySeq
  <2>2. later[1] \in Event
    BY <1>2, <1>3, <2>1, ElementOfSeq
  <2>3. /\ end[1] = end[0] + Buffer!Size(later[1]) /\ cells[end[0]] = later[1]
        /\ end[0] \in Nat /\ end[1] \in Nat /\ end[L] \in Nat
    <3>1. end[1] = end[1 - 1] + Buffer!Size(later[1]) /\ cells[end[1 - 1]] = later[1]
      BY <1>4, <2>1
    <3>2. end[0] \in 0 .. BufferLen /\ end[1] \in 0 .. BufferLen /\ end[L] \in 0 .. BufferLen
      BY <1>4, <2>1
    <3> QED
      BY <2>1, <3>1, <3>2
  <2>4. Buffer!Size(later[1]) \in Nat /\ Buffer!Size(later[1]) >= 2
    BY <2>2, SizeType
  <2>5. end[1] <= end[L]
    <3>1. end \in [0 .. L -> Nat]
      BY <1>4
    <3>2. ASSUME NEW k \in 1 .. L
          PROVE  end[k] >= end[k - 1] + 2
      <4>1. later[k] \in Event
        BY <1>2, <1>3, ElementOfSeq
      <4>2. Buffer!Size(later[k]) \in Nat /\ Buffer!Size(later[k]) >= 2
        BY <4>1, SizeType
      <4>3. end[k - 1] \in Nat
        BY <3>1
      <4> QED
        BY <1>4, <4>2, <4>3
    <3>3. \A j, k \in 0 .. L : j < k => end[j] < end[k]
      BY <3>1, <3>2, Increasing
    <3>4. 1 = L \/ 1 < L
      BY <1>3, <2>1
    <3> QED
      BY <2>1, <2>3, <3>3, <3>4
  <2> DEFINE next == event_start_index + event_size
  <2>6. /\ next = end[0] /\ cells[next] = later[1]
        /\ next + Buffer!Size(later[1]) <= start_unused_buffer
        /\ next \in Nat /\ next + 2 <= start_unused_buffer
    BY <1>4, <2>3, <2>4, <2>5
  <2>7. /\ next # start_unused_buffer
        /\ ~ (next + 2 > start_unused_buffer)
        /\ ~ (next + Buffer!Size(cells[next]) > start_unused_buffer)
        /\ next \in 0 .. BufferLen - 1
    <3> HIDE DEF next
    <3> QED
      BY <1>2, <2>4, <2>6
  <2>8. /\ event_start_index' = next /\ event_size' = Buffer!Size(cells[next])
        /\ event_p' = next /\ later' = Tail(later) /\ invalid' = invalid
    BY <2>7 DEF Buffer!next_iter_inotify, Buffer!HeaderLen
  <2> QED
    BY <1>1, <1>6, <2>2, <2>6, <2>7, <2>8
<1> QED
  BY <1>5, <1>6

\* next_iter_inotify keeps the invariant.
LEMMA NextKeeps ==
  ASSUME Buffer!IInv, Buffer!next_iter_inotify
  PROVE  Buffer!IInv'
<1>1. Buffer!TypeOK /\ Buffer!LayoutInv /\ ~ invalid /\ BufferLen \in Nat \ {0}
  BY BufferAssumption DEF Buffer!IInv, Buffer!NoInvalidStructure, Buffer!BufferConstants
<1>2. CASE later = <<>>
  <2>1. /\ event_p' = BufferLen
        /\ UNCHANGED <<queue, cells, start_unused_buffer, event_start_index,
                       event_size, invalid, later>>
    BY <1>2, NextFacts
  <2> QED
    BY <1>1, <2>1
    DEF Buffer!IInv, Buffer!TypeOK, Buffer!LayoutInv, Buffer!NoInvalidStructure, Buffer!NoEvent
<1>3. CASE later # <<>>
  <2>1. /\ event_p # BufferLen /\ queue' = queue /\ cells' = cells
        /\ start_unused_buffer' = start_unused_buffer /\ invalid' = invalid
        /\ event_p' = event_start_index' /\ later' = Tail(later)
        /\ event_start_index' = event_start_index + event_size
        /\ event_start_index' \in 0 .. BufferLen - 1
        /\ cells[event_start_index'] = later[1] /\ later[1] \in Event
        /\ event_size' = Buffer!Size(later[1])
        /\ event_start_index' + event_size' <= start_unused_buffer
    BY <1>3, NextFacts
  <2>2. later \in Seq(Event)
    BY <1>1 DEF Buffer!TypeOK
  <2>3. PICK L \in Nat : L = Len(later) /\ L # 0
    BY <1>3, <2>2, LenProperties, EmptySeq
  <2>4. /\ later' \in Seq(Event) /\ Len(later') = L - 1
        /\ \A i \in 1 .. L - 1 : later'[i] = later[i + 1]
    <3>1. /\ Tail(later) \in Seq(Event) /\ Len(Tail(later)) = Len(later) - 1
          /\ \A i \in 1 .. Len(Tail(later)) : Tail(later)[i] = later[i + 1]
      BY <1>3, <2>2, HeadTailProperties
    <3> QED
      BY <2>1, <2>3, <3>1
  <2>5. Buffer!TypeOK'
    <3>1. event_size' \in 0 .. BufferLen
      BY <2>1, SizeType
    <3> QED
      BY <1>1, <2>1, <2>4, <3>1 DEF Buffer!TypeOK
  <2>6. PICK end \in [0 .. L -> 0 .. BufferLen] :
           /\ end[0] = event_start_index + event_size
           /\ end[L] = start_unused_buffer
           /\ \A k \in 1 .. L :
                end[k] = end[k - 1] + Buffer!Size(later[k]) /\ cells[end[k - 1]] = later[k]
    BY <1>1, <2>1, <2>3 DEF Buffer!LayoutInv, Buffer!NoEvent
  <2>7. Buffer!LayoutInv'
    <3> DEFINE later_end == [k \in 0 .. L - 1 |-> end[k + 1]]
    <3>1. later_end \in [0 .. L - 1 -> 0 .. BufferLen]
      BY <2>3
    <3>2. later_end[0] = event_start_index' + event_size'
      <4>1. 1 \in 1 .. L /\ 0 \in 0 .. L - 1
        BY <2>3
      <4>2. end[1] = end[1 - 1] + Buffer!Size(later[1])
        BY <2>6, <4>1
      <4>3. end[0 + 1] = end[0] + Buffer!Size(later[1])
        BY <4>2
      <4> QED
        BY <2>1, <2>6, <4>1, <4>3
    <3>3. later_end[L - 1] = start_unused_buffer'
      BY <2>1, <2>3, <2>6
    <3>4. ASSUME NEW k \in 1 .. L - 1
          PROVE  /\ later_end[k] = later_end[k - 1] + Buffer!Size(later'[k])
                 /\ cells'[later_end[k - 1]] = later'[k]
      <4>1. /\ k \in 0 .. L - 1 /\ k - 1 \in 0 .. L - 1 /\ k + 1 \in 1 .. L
            /\ k + 1 - 1 = k /\ k - 1 + 1 = k
        BY <2>3
      <4>2. later_end[k] = end[k + 1] /\ later_end[k - 1] = end[k]
        BY <4>1
      <4>3. later'[k] = later[k + 1]
        BY <2>4
      <4>4. end[k + 1] = end[k] + Buffer!Size(later[k + 1]) /\ cells[end[k]] = later[k + 1]
        BY <2>6, <4>1
      <4> HIDE DEF later_end
      <4> QED
        BY <2>1, <4>2, <4>3, <4>4
    <3>5. cells'[event_p'] \in Event /\ event_size' = Buffer!Size(cells'[event_p'])
      BY <2>1
    <3> HIDE DEF later_end
    <3>6. \E e \in [0 .. Len(later') -> 0 .. BufferLen] :
            /\ e[0] = event_start_index' + event_size'
            /\ e[Len(later')] = start_unused_buffer'
            /\ \A k \in 1 .. Len(later') :
                 e[k] = e[k - 1] + Buffer!Size(later'[k]) /\ cells'[e[k - 1]] = later'[k]
      BY <2>4, <3>1, <3>2, <3>3, <3>4
    <3> QED
      BY <3>5, <3>6 DEF Buffer!LayoutInv, Buffer!Size
  <2> QED
    BY <1>1, <2>1, <2>5, <2>7 DEF Buffer!IInv, Buffer!NoInvalidStructure
<1> QED
  BY <1>2, <1>3

\* The buffer's invariant holds before the first read.
LEMMA InitKeeps ==
  ASSUME Buffer!Init
  PROVE  Buffer!IInv
<1>1. BufferLen \in Nat \ {0}
  BY BufferAssumption DEF Buffer!BufferConstants
<1>2. 0 \in 0 .. BufferLen - 1 /\ 0 \in 0 .. BufferLen
  BY <1>1
<1>3. <<>> \in Seq(Event)
  BY EmptySeq
<1> QED
  BY <1>2, <1>3 DEF Buffer!Init, Buffer!IInv, Buffer!TypeOK, Buffer!LayoutInv,
                    Buffer!NoInvalidStructure, Buffer!NoEvent

\* An event that arrives waits; it leaves the buffer as it is.
LEMMA ArriveKeeps ==
  ASSUME Buffer!IInv, NEW e \in Event, Buffer!Arrive(e)
  PROVE  Buffer!IInv'
<1>1. queue \in Seq(Event) /\ queue' = Append(queue, e)
  BY DEF Buffer!IInv, Buffer!TypeOK, Buffer!Arrive
<1>2. queue' \in Seq(Event)
  BY <1>1, AppendProperties
<1>3. UNCHANGED <<cells, start_unused_buffer, event_start_index, event_size,
                  event_p, invalid, later>>
  BY DEF Buffer!Arrive
<1> QED
  BY <1>2, <1>3 DEF Buffer!IInv, Buffer!TypeOK, Buffer!LayoutInv,
                    Buffer!NoInvalidStructure, Buffer!NoEvent

\* What the loading of the two files leaves alone.
LEMMA Stutter ==
  ASSUME Buffer!IInv, UNCHANGED bufferVars
  PROVE  Buffer!IInv'
BY DEF bufferVars, Buffer!IInv, Buffer!TypeOK, Buffer!LayoutInv,
       Buffer!NoInvalidStructure, Buffer!NoEvent

\* Every step of the inputs keeps the invariant of the buffer.
LEMMA Step ==
  ASSUME Buffer!IInv, [InputsNext]_<<configVars, bufferVars>>
  PROVE  Buffer!IInv'
<1>1. CASE Buffer!Next
  <2>1. CASE \E e \in Event : Buffer!Arrive(e)
    BY <2>1, ArriveKeeps
  <2>2. CASE Buffer!start_iter_inotify
    BY <2>2, StartKeeps
  <2>3. CASE Buffer!next_iter_inotify
    BY <2>3, NextKeeps
  <2> QED
    BY <1>1, <2>1, <2>2, <2>3 DEF Buffer!Next
<1>2. CASE UNCHANGED bufferVars
  BY <1>2, Stutter
<1> QED
  BY <1>1, <1>2 DEF InputsNext

-----------------------------------------------------------------------------
(***************************************************************************)
(* The theorems.                                                           *)
(***************************************************************************)

\* Both inductive invariants always hold: what was used of a file is what has
\* been read of it, line by line, and what the iterator has not handed out yet
\* lies in the buffer, event behind event, up to the last byte read.
THEOREM InputsInvariant == InputsSpec => []InputsIInv
<1>1. InputsInit => InputsIInv
  BY ConfigBegins, InitKeeps DEF InputsInit, InputsIInv
<1>2. InputsIInv /\ [InputsNext]_<<configVars, bufferVars>> => InputsIInv'
  BY ConfigStep, Step DEF InputsIInv
<1> QED
  BY <1>1, <1>2, PTL DEF InputsSpec

\* load_excludes and load_top_level_paths use every line that fits once and in
\* order, and no path is added before the excludes are known, for all files.
THEOREM LinesAllUsed == InputsSpec => []LinesUsed
<1>1. InputsIInv => LinesUsed
  BY DEF InputsIInv, ConfigInv
<1> QED
  BY <1>1, InputsInvariant, PTL

\* The array of excludes is never overrun, and exit(7) only ends a program
\* whose exclude file has more lines than MAX_EXCLUDES.
THEOREM LimitsExact == InputsSpec => []LimitExact
<1>1. InputsIInv => LimitExact
  BY DEF InputsIInv, ConfigInv
<1> QED
  BY <1>1, InputsInvariant, PTL

\* An exclude that would exclude everything comes of a blank line or of a line
\* whose length is a multiple of what fgets reads at once.
THEOREM BlanksExplained == InputsSpec => []BlankExplained
<1>1. InputsIInv => BlankExplained
  BY DEF InputsIInv, ConfigInv
<1> QED
  BY <1>1, InputsInvariant, PTL

\* The offsets of iterate_inotify_events.c stay within what was read, and that
\* within the buffer, for buffers and events of any size.
THEOREM BufferTypeCorrect == InputsSpec => []BufferTypeOK
<1>1. InputsIInv => BufferTypeOK
  BY DEF InputsIInv, BufferTypeOK, Buffer!IInv
<1> QED
  BY <1>1, InputsInvariant, PTL

\* next_iter_inotify never exits with "invalid event structure": whatever the
\* kernel puts in the buffer, and whatever an earlier read left there.
THEOREM StructureValid == InputsSpec => []NoInvalidStructure
<1>1. InputsIInv => NoInvalidStructure
  BY DEF InputsIInv, NoInvalidStructure, Buffer!IInv
<1> QED
  BY <1>1, InputsInvariant, PTL

-----------------------------------------------------------------------------
(***************************************************************************)
(* The iterator implements EventBatch.                                     *)
(***************************************************************************)

\* EventBatch's buf: the current event and those behind it.
Buf == IF event_p = BufferLen THEN <<>> ELSE <<cells[event_p]>> \o later

\* A sequence is its first element and the rest.
LEMMA FirstAndRest ==
  ASSUME NEW S, NEW s \in Seq(S), s # <<>>
  PROVE  <<s[1]>> \o Tail(s) = s
<1>1. PICK L \in Nat : L = Len(s)
  BY LenProperties
<1>2. L # 0
  BY <1>1, EmptySeq
<1>3. SubSeq(s, 1, L) = <<s[1]>> \o SubSeq(s, 2, L)
  <2>1. 1 \in 1 .. Len(s) /\ Len(s) \in 1 .. Len(s) /\ 1 + 1 = 2
    BY <1>1, <1>2
  <2>2. SubSeq(s, 1, Len(s)) = <<s[1]>> \o SubSeq(s, 1 + 1, Len(s))
    BY <2>1, SubSeqRecursiveFirst
  <2> QED
    BY <1>1, <2>1, <2>2
<1>4. SubSeq(s, 1, L) = s /\ Tail(s) = SubSeq(s, 2, L)
  BY <1>1, SubSeqFull, TailIsSubSeq
<1> QED
  BY <1>3, <1>4

\* An event and a batch behind it, of which the event is handed out.
LEMMA FirstHandedOut ==
  ASSUME NEW S, NEW e \in S, NEW s \in Seq(S)
  PROVE  <<e>> \o s # <<>> /\ Tail(<<e>> \o s) = s
<1>0. <<e>> \in Seq(S) /\ Len(<<e>>) = 1
  OBVIOUS
<1>1. PICK t \in Seq(S) : t = <<e>> \o s
  BY <1>0, ConcatProperties
<1>2. PICK L \in Nat : L = Len(s)
  BY LenProperties
<1>3. Len(t) = 1 + L /\ \A i \in 1 .. L : t[i + 1] = s[i]
  BY <1>1, <1>2
<1>4. t # <<>>
  BY <1>2, <1>3, EmptySeq
<1>5. /\ Tail(t) \in Seq(S) /\ Len(Tail(t)) = L
      /\ \A i \in 1 .. L : Tail(t)[i] = t[i + 1]
  <2>1. /\ Tail(t) \in Seq(S) /\ Len(Tail(t)) = Len(t) - 1
        /\ \A i \in 1 .. Len(Tail(t)) : Tail(t)[i] = t[i + 1]
    BY <1>4, HeadTailProperties
  <2> QED
    BY <1>2, <1>3, <2>1
<1>6. Tail(t) = s
  BY <1>2, <1>3, <1>5, SeqEqual
<1> QED
  BY <1>1, <1>4, <1>6

\* What a step of the iterator or of the kernel is to a reader of EventBatch.
LEMMA BufferStep ==
  ASSUME Buffer!IInv, Buffer!Next
  PROVE  \/ Buf' = Buf /\ \E e \in Event : queue' = Append(queue, e)
         \/ /\ Buf = <<>>
            /\ \E n \in 1 .. Len(queue) :
                 Buf' = SubSeq(queue, 1, n) /\ queue' = SubSeq(queue, n + 1, Len(queue))
         \/ Buf # <<>> /\ Buf' = Tail(Buf) /\ queue' = queue
<1>1. /\ queue \in Seq(Event) /\ later \in Seq(Event)
      /\ event_p # BufferLen => cells[event_p] \in Event
  BY DEF Buffer!IInv, Buffer!TypeOK, Buffer!LayoutInv, Buffer!NoEvent
<1>2. ASSUME NEW e \in Event, Buffer!Arrive(e)
      PROVE  Buf' = Buf /\ queue' = Append(queue, e)
  <2>1. queue' = Append(queue, e) /\ UNCHANGED <<cells, event_p, later>>
    BY <1>2 DEF Buffer!Arrive
  <2> QED
    BY <2>1 DEF Buf
<1>3. ASSUME Buffer!start_iter_inotify
      PROVE  /\ Buf = <<>>
             /\ \E n \in 1 .. Len(queue) :
                  Buf' = SubSeq(queue, 1, n) /\ queue' = SubSeq(queue, n + 1, Len(queue))
  <2>1. event_p = BufferLen
    BY <1>3, StartFacts
  <2>2. PICK n \in 1 .. Len(queue), b \in Seq(Event) : \E end : Started(n, b, end)
    BY <1>3, StartFacts
  <2>3. PICK end : Started(n, b, end)
    BY <2>2
  <2>4. /\ b = SubSeq(queue, 1, n) /\ b # <<>> /\ later' = Tail(b)
        /\ queue' = SubSeq(queue, n + 1, Len(queue)) /\ event_p' = 0
    BY <2>3 DEF Started
  <2>5. cells'[0] = b[1]
    <3>1. 1 \in 1 .. n
      BY <1>1, LenProperties
    <3>2. cells'[end[1 - 1]] = b[1] /\ end[0] = 0
      BY <2>3, <3>1 DEF Started
    <3> QED
      BY <3>2
  <2>6. <<b[1]>> \o Tail(b) = b
    BY <2>4, FirstAndRest
  <2>7. BufferLen # 0
    BY BufferAssumption DEF Buffer!BufferConstants
  <2> QED
    BY <2>1, <2>4, <2>5, <2>6, <2>7 DEF Buf
<1>4. ASSUME Buffer!next_iter_inotify
      PROVE  Buf # <<>> /\ Buf' = Tail(Buf) /\ queue' = queue
  <2>1. event_p # BufferLen /\ queue' = queue /\ cells' = cells
    BY <1>4, NextFacts
  <2>2. Buf = <<cells[event_p]>> \o later
    BY <2>1 DEF Buf
  <2>3. Buf # <<>> /\ Tail(Buf) = later
    BY <1>1, <2>1, <2>2, FirstHandedOut
  <2>4. CASE later = <<>>
    <3>1. event_p' = BufferLen
      BY <1>4, <2>4, NextFacts
    <3> QED
      BY <2>1, <2>3, <2>4, <3>1 DEF Buf
  <2>5. CASE later # <<>>
    <3>1. /\ event_p' \in 0 .. BufferLen - 1 /\ cells[event_p'] = later[1]
          /\ later' = Tail(later)
      BY <1>4, <2>5, NextFacts
    <3>2. event_p' # BufferLen
      BY <3>1, BufferAssumption DEF Buffer!BufferConstants
    <3>3. <<later[1]>> \o Tail(later) = later
      BY <1>1, <2>5, FirstAndRest
    <3> QED
      BY <2>1, <2>3, <3>1, <3>2, <3>3 DEF Buf
  <2> QED
    BY <2>4, <2>5
<1> QED
  BY <1>2, <1>3, <1>4 DEF Buffer!Next

\* The kernel's append, seen from the longer queue.
LEMMA FrontOfAppend ==
  ASSUME NEW S, NEW s \in Seq(S), NEW e \in S
  PROVE  Append(s, e) # <<>> /\ SubSeq(Append(s, e), 1, Len(Append(s, e)) - 1) = s
<1>1. PICK t \in Seq(S) : t = Append(s, e)
  BY AppendProperties
<1>2. PICK L \in Nat : L = Len(s)
  BY LenProperties
<1>3. Len(t) = L + 1 /\ \A i \in 1 .. L : t[i] = s[i]
  BY <1>1, <1>2, AppendProperties
<1>4. \A i \in 1 .. L : t[i] \in S
  BY <1>2, <1>3, ElementOfSeq
<1>5. PICK u : u = SubSeq(t, 1, L)
  OBVIOUS
<1>6. u \in Seq(S) /\ Len(u) = L /\ \A i \in 1 .. L : u[i] = t[i]
  <2>1. /\ SubSeq(t, 1, L) \in Seq(S)
        /\ Len(SubSeq(t, 1, L)) = IF 1 <= L THEN L - 1 + 1 ELSE 0
        /\ \A i \in 1 .. L - 1 + 1 : SubSeq(t, 1, L)[i] = t[1 + i - 1]
    BY <1>2, <1>4, SubSeqProperties
  <2>2. L - 1 + 1 = L /\ \A i \in 1 .. L : 1 + i - 1 = i
    BY <1>2
  <2> QED
    BY <1>2, <1>5, <2>1, <2>2
<1>7. u = s
  BY <1>2, <1>3, <1>6, SeqEqual
<1>8. t # <<>>
  BY <1>2, <1>3, EmptySeq
<1> QED
  BY <1>1, <1>2, <1>3, <1>5, <1>7, <1>8

\* Every step of the iterator and of the kernel is one of EventBatch.
LEMMA BatchStep ==
  ASSUME Buffer!IInv, [InputsNext]_<<configVars, bufferVars>>
  PROVE  [Buffer!Iteration!Next]_<<queue, Buf>>
<1>1. CASE UNCHANGED bufferVars
  BY <1>1 DEF bufferVars, Buf
<1>2. CASE Buffer!Next
  <2>1. ASSUME Buf' = Buf, \E e \in Event : queue' = Append(queue, e)
        PROVE  Buffer!Iteration!Arrive
    <3>1. PICK e \in Event : queue' = Append(queue, e)
      BY <2>1
    <3>2. queue \in Seq(Event)
      BY DEF Buffer!IInv, Buffer!TypeOK
    <3> QED
      BY <2>1, <3>1, <3>2, FrontOfAppend
      DEF Buffer!Iteration!Arrive, Buffer!Iteration!Front, Buf, Buffer!NoEvent
  <2>2. ASSUME Buf = <<>>,
               NEW n \in 1 .. Len(queue),
               Buf' = SubSeq(queue, 1, n), queue' = SubSeq(queue, n + 1, Len(queue))
        PROVE  Buffer!Iteration!Start(n)
    BY <2>2 DEF Buffer!Iteration!Start, Buf, Buffer!NoEvent
  <2>3. ASSUME Buf # <<>>, Buf' = Tail(Buf), queue' = queue
        PROVE  Buffer!Iteration!Step
    BY <2>3 DEF Buffer!Iteration!Step, Buf, Buffer!NoEvent
  <2> QED
    BY <1>2, <2>1, <2>2, <2>3, BufferStep DEF Buffer!Iteration!Next
<1> QED
  BY <1>1, <1>2 DEF InputsNext

\* iterate_inotify_events hands out the events of each read once, whole and in
\* order, with nothing of an earlier read: DirWatcher may take a batch for a
\* sequence of events.
THEOREM ImplementsBatch == InputsSpec => BatchSpec
<1>1. InputsInit => Buffer!Iteration!Init
  BY DEF InputsInit, Buffer!Init, Buffer!Iteration!Init
<1>2. Buffer!IInv /\ [InputsNext]_<<configVars, bufferVars>>
        => [Buffer!Iteration!Next]_<<queue, Buf>>
  BY BatchStep
<1>3. InputsIInv => Buffer!IInv
  BY DEF InputsIInv
<1> QED
  BY <1>1, <1>2, <1>3, InputsInvariant, PTL
  DEF InputsSpec, BatchSpec, Buffer!BatchSpec, Buffer!Iteration!Spec, Buf, Buffer!NoEvent
=============================================================================
