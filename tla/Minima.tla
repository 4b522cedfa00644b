------------------------------- MODULE Minima -------------------------------
(***************************************************************************)
(* A nonempty set of naturals has a least element, and a nonempty finite   *)
(* one a greatest.  The order on naturals is reduced to strict inclusion   *)
(* between intervals, whose well-foundedness the library states without an *)
(* operator as parameter.                                                  *)
(***************************************************************************)
EXTENDS Integers, FiniteSets, FiniteSetTheorems, TLAPS

\* The first index with a property, the least place in a list: cited wherever
\* the code walks a list for the best of something.
LEMMA LeastNatural ==
  ASSUME NEW T \in SUBSET Nat, T # {}
  PROVE  \E m \in T : \A n \in T : m <= n
<1> DEFINE U == {1 .. n : n \in T}
<1> DEFINE R == StrictSubsetOrdering(Nat)
<1>1. IsWellFoundedOn(R, FiniteSubsetsOf(Nat))
  BY FS_StrictSubsetOrderingWellFounded
<1>2. \A n \in Nat : 1 .. n \in FiniteSubsetsOf(Nat)
  <2>1. \A n \in Nat : IsFiniteSet(1 .. n) /\ 1 .. n \subseteq Nat
    BY FS_Interval
  <2> QED  BY <2>1 DEF FiniteSubsetsOf
<1>3. U \subseteq FiniteSubsetsOf(Nat) /\ U # {}
  BY <1>2
<1>4. PICK x \in U : \A y \in U : ~ (<<y, x>> \in R)
  <2> HIDE DEF U, R
  <2> QED  BY <1>1, <1>3, WFMin
<1>5. PICK m \in T : x = 1 .. m
  BY <1>4
<1>6. ASSUME NEW n \in T, n < m PROVE FALSE
  <2>1. 1 .. n \in U
    OBVIOUS
  <2>2. 1 .. n \subseteq 1 .. m /\ m \in 1 .. m /\ m \notin 1 .. n
    BY <1>6
  <2>3. <<1 .. n, 1 .. m>> \in R
    BY <2>2, <1>2 DEF StrictSubsetOrdering, FiniteSubsetsOf
  <2> QED  BY <2>1, <2>3, <1>4, <1>5
<1>7. \A n \in T : m <= n
  BY <1>6
<1> QED  BY <1>7

\* The same from above, for a set that has a bound.
LEMMA GreatestNatural ==
  ASSUME NEW T \in SUBSET Nat, T # {}, NEW b \in Nat, \A n \in T : n <= b
  PROVE  \E m \in T : \A n \in T : n <= m
<1> DEFINE S == {b - n : n \in T}
<1>1. S \subseteq Nat /\ S # {}
  <2>1. \A n \in T : n \in Nat /\ n <= b
    OBVIOUS
  <2>2. \A n \in T : b - n \in Nat
    <3>1. \A n, c \in Nat : n <= c => c - n \in Nat
      OBVIOUS
    <3> QED  BY <2>1, <3>1
  <2> QED  BY <2>2
<1>2. PICK s \in S : \A t \in S : s <= t
  <2> HIDE DEF S
  <2> QED  BY <1>1, LeastNatural
<1>3. PICK m \in T : s = b - m
  BY <1>2
<1>4. ASSUME NEW n \in T PROVE n <= m
  <2>1. b - n \in S
    OBVIOUS
  <2>2. b - m <= b - n
    BY <2>1, <1>2, <1>3
  <2> QED  BY <2>2
<1> QED  BY <1>4
=============================================================================
