---------------------------- MODULE SetInduction ----------------------------
(***************************************************************************)
(* Induction over the natural numbers, stated with a set in the place of a *)
(* predicate: a proof that needs it defines the set of the numbers the     *)
(* predicate holds of.  It follows from the well-foundedness of strict     *)
(* inclusion among finite sets, of which initial segments are some.        *)
(***************************************************************************)
EXTENDS Integers, FiniteSetTheorems, WellFoundedInduction, TLAPS

LEMMA SegmentFinite ==
  ASSUME NEW n \in Nat
  PROVE  0 .. n \in FiniteSubsetsOf(Nat)
<1>1. IsFiniteSet(0 .. n)
  BY FS_Interval
<1>2. 0 .. n \in SUBSET Nat
  OBVIOUS
<1>3. QED
  BY <1>1, <1>2 DEF FiniteSubsetsOf

\* A set that holds 0, and with a number the next, holds every natural number.
THEOREM NatSetInduction ==
  ASSUME NEW S, 0 \in S, \A n \in Nat : n \in S => n + 1 \in S
  PROVE  Nat \subseteq S
<1> DEFINE Missing  == {n \in Nat : n \notin S}
           Segments == {0 .. n : n \in Missing}
           R        == StrictSubsetOrdering(Nat)
<1>1. SUFFICES ASSUME Missing # {} PROVE FALSE
  OBVIOUS
<1>2. Segments \subseteq FiniteSubsetsOf(Nat) /\ Segments # {}
  BY <1>1, SegmentFinite
<1>3. PICK m \in Segments : \A t \in Segments : ~ (<<t, m>> \in R)
  <2>1. IsWellFoundedOn(R, FiniteSubsetsOf(Nat))
    BY FS_StrictSubsetOrderingWellFounded
  <2> HIDE DEF Segments, R
  <2>2. QED
    BY <1>2, <2>1, WFMin
<1>4. PICK n \in Missing : m = 0 .. n
  OBVIOUS
<1>5. n # 0 /\ n - 1 \in Nat
  OBVIOUS
<1>6. n - 1 \notin Missing
  <2>1. SUFFICES ASSUME n - 1 \in Missing PROVE FALSE
    OBVIOUS
  <2>2. /\ 0 .. n - 1 \in Segments
        /\ 0 .. n - 1 \subseteq 0 .. n /\ 0 .. n - 1 # 0 .. n
    BY <1>5, <2>1
  <2>3. <<0 .. n - 1, 0 .. n>> \in R
    BY <1>5, <2>2 DEF StrictSubsetOrdering
  <2>4. QED
    BY <1>3, <1>4, <2>2, <2>3
<1>7. QED
  BY <1>5, <1>6

\* A set of numbers that is not empty has a least one.
LEMMA LeastNumber ==
  ASSUME NEW T \in SUBSET Nat, T # {}
  PROVE  \E i \in T : \A j \in T : i <= j
<1> DEFINE S == {n \in Nat : \A m \in T : m <= n => \E i \in T : \A j \in T : i <= j}
<1>1. 0 \in S
  OBVIOUS
<1>2. ASSUME NEW n \in Nat, n \in S PROVE n + 1 \in S
  <2>1. SUFFICES ASSUME NEW m \in T, m <= n + 1, \A i \in T : \E j \in T : j < i
                 PROVE  FALSE
    OBVIOUS
  <2>2. PICK j \in T : j < m
    BY <2>1
  <2>3. \E i \in T : \A l \in T : i <= l
    BY <1>2, <2>1, <2>2
  <2>4. QED
    BY <2>1, <2>3
<1>3. Nat \subseteq S
  <2> HIDE DEF S
  <2>1. QED
    BY <1>1, <1>2, NatSetInduction
<1>4. PICK m \in T : m \in S
  BY <1>3
<1>5. QED
  BY <1>4
=============================================================================
