---------------------------- MODULE NumberLemmas ----------------------------
(***************************************************************************)
(* Facts about numbers the proofs of several modules rest on.  Induction   *)
(* over the natural numbers is used in the form of Least: a set of numbers *)
(* that is not empty has a least one.                                      *)
(***************************************************************************)
EXTENDS Naturals, WellFoundedInduction, TLAPS

\* The order of the natural numbers is well-founded.
LEMMA NatOrder ==
  \E R : IsWellFoundedOn(R, Nat) /\ \A x, y \in Nat : y < x => <<y, x>> \in R
<1> DEFINE R == OpToRel(<, Nat)
<1>1. IsWellFoundedOn(R, Nat)
  BY NatLessThanWellFounded
<1>2. \A x, y \in Nat : y < x => <<y, x>> \in R
  BY DEF OpToRel
<1> HIDE DEF R
<1> QED
  BY <1>1, <1>2, Zenon

\* A set of numbers has a least one.
LEMMA Least ==
  ASSUME NEW T \in SUBSET Nat, T # {}
  PROVE  \E x \in T : \A y \in T : x <= y
<1>1. PICK R : IsWellFoundedOn(R, Nat) /\ \A x, y \in Nat : y < x => <<y, x>> \in R
  BY NatOrder
<1>2. PICK x \in T : \A y \in T : ~ (<<y, x>> \in R)
  BY <1>1, WFMin
<1>3. ASSUME NEW y \in T
      PROVE  x <= y
  <2>1. x \in Nat /\ y \in Nat /\ ~ (y < x)
    BY <1>1, <1>2, Zenon
  <2> QED
    BY <2>1
<1> QED
  BY <1>3

\* A bounded set of numbers has a greatest one.
LEMMA Greatest ==
  ASSUME NEW n \in Nat, NEW T \in SUBSET (0 .. n), T # {}
  PROVE  \E x \in T : \A y \in T : y <= x
<1> DEFINE U == {n - x : x \in T}
<1>1. U \in SUBSET Nat /\ U # {}
  <2>1. \A x \in T : x \in 0 .. n
    OBVIOUS
  <2>2. \A x \in T : n - x \in Nat
    BY <2>1
  <2>3. PICK x \in T : TRUE
    OBVIOUS
  <2>4. n - x \in U
    BY <2>3
  <2>5. \A u \in U : u \in Nat
    BY <2>2
  <2> QED
    BY <2>4, <2>5
<1>2. PICK u \in U : \A v \in U : u <= v
  <2> HIDE DEF U
  <2> QED
    BY <1>1, Least
<1>3. PICK x \in T : u = n - x
  BY <1>2
<1>4. \A y \in T : n - x <= n - y
  BY <1>2, <1>3
<1>5. \A y \in T : y <= x
  BY <1>3, <1>4
<1> QED
  BY <1>5

\* Division with remainder.
LEMMA DivMod ==
  ASSUME NEW n \in Nat \ {0}, NEW a \in Nat
  PROVE  a = n * (a \div n) + (a % n) /\ a % n \in 0 .. n - 1 /\ a \div n \in Nat
OBVIOUS

\* Division with remainder has one result.
LEMMA ModUnique ==
  ASSUME NEW n \in Nat \ {0}, NEW q \in Nat, NEW r \in 0 .. n - 1, NEW a \in Nat,
         a = q * n + r
  PROVE  a % n = r
<1>1. a = n * (a \div n) + (a % n) /\ a % n \in 0 .. n - 1 /\ a \div n \in Nat
  BY DivMod
<1> QED
  BY <1>1, Z3

\* One more time the divisor leaves the same remainder.
LEMMA ModAdd ==
  ASSUME NEW n \in Nat \ {0}, NEW a \in Nat, a % n = 0
  PROVE  (a + n) % n = 0 /\ 0 % n = 0
<1>1. PICK c \in Nat : a = n * c
  <2>1. a = n * (a \div n) + (a % n) /\ a \div n \in Nat
    BY DivMod
  <2> QED
    BY <2>1
<1>2. a + n = (c + 1) * n + 0
  BY <1>1, Z3
<1>3. 0 \in 0 .. n - 1 /\ a + n \in Nat /\ c + 1 \in Nat
  OBVIOUS
<1>4. (a + n) % n = 0
  <2>1. PICK b \in Nat : b = a + n
    BY <1>3
  <2>2. PICK d \in Nat : d = c + 1
    BY <1>3
  <2>3. b = d * n + 0
    BY <1>2, <2>1, <2>2
  <2>4. b % n = 0
    BY <1>3, <2>3, ModUnique
  <2> QED
    BY <2>1, <2>4
<1>5. 0 % n = 0
  OBVIOUS
<1> QED
  BY <1>4, <1>5
=============================================================================
