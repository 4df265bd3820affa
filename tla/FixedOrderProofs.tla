-------------------------- MODULE FixedOrderProofs --------------------------
(***************************************************************************)
(* Facts that the proofs share: about naturals, and about verification in  *)
(* a fixed order.                                                          *)
(***************************************************************************)
EXTENDS FixedOrder, WellFoundedInduction, TLAPS

-----------------------------------------------------------------------------
(* Numbers *)

\* A set of naturals that is not empty has a least element.
LEMMA LeastNumber ==
  ASSUME NEW S \in SUBSET Nat, S # {}
  PROVE  \E m \in S : \A k \in S : m <= k
<1>. DEFINE R == {ss \in Nat \X Nat : ss[1] < ss[2]}
<1>1. IsWellFoundedOn(R, Nat)
  BY NatLessThanWellFounded DEF OpToRel
<1>2. \A k, m \in Nat : k < m => <<k, m>> \in R
  OBVIOUS
<1>. HIDE DEF R
<1>3. PICK m \in S : \A k \in S : <<k, m>> \notin R
  BY <1>1, WFMin
<1>4. ASSUME NEW k \in S PROVE m <= k
  <2>1. k \in Nat /\ m \in Nat /\ ~(k < m)
    BY <1>2, <1>3
  <2>. QED
    BY <2>1
<1>. QED
  BY <1>4

\* Induction up to a bound.
LEMMA UpToAll ==
  ASSUME NEW k \in Nat, NEW S, 0 \in S, \A n \in 1..k : n - 1 \in S => n \in S
  PROVE  0..k \subseteq S
<1>. DEFINE missing == (0..k) \ S
<1>1. SUFFICES ASSUME missing # {} PROVE FALSE
  OBVIOUS
<1>2. missing \in SUBSET Nat
  OBVIOUS
<1>3. PICK m \in missing : \A n \in missing : m <= n
  <2>. HIDE DEF missing
  <2>. QED
    BY <1>1, <1>2, LeastNumber
<1>4. m \in 1..k /\ m - 1 \in 0..k /\ ~(m <= m - 1)
  OBVIOUS
<1>. QED
  BY <1>3, <1>4

-----------------------------------------------------------------------------
(* Verification in a fixed order *)

\* What is passed holds at every step.
LEMMA PassedMeansAll ==
  ASSUME NEW steps, DOMAIN steps \subseteq Nat, \A i \in DOMAIN steps : steps[i].reason # Passed,
         FirstFailure(steps) = Passed
  PROVE  \A i \in DOMAIN steps : steps[i].holds
<1>. DEFINE failing == {i \in DOMAIN steps : ~steps[i].holds}
<1>1. CASE failing = {}
  BY <1>1
<1>2. CASE failing # {}
  <2>1. \E m \in failing : \A k \in failing : m <= k
    <3>1. failing \in SUBSET Nat
      OBVIOUS
    <3>. HIDE DEF failing
    <3>. QED
      BY <1>2, <3>1, LeastNumber
  <2>2. (CHOOSE i \in failing : \A j \in failing : i <= j) \in failing
    <3>. HIDE DEF failing
    <3>. QED
      BY <2>1
  <2>3. FirstFailure(steps) = steps[CHOOSE i \in failing : \A j \in failing : i <= j].reason
    BY <1>2 DEF FirstFailure
  <2>4. (CHOOSE i \in failing : \A j \in failing : i <= j) \in DOMAIN steps
    BY <2>2
  <2>. QED
    BY <2>3, <2>4
<1>. QED
  BY <1>1, <1>2

\* What holds at every step is passed.
LEMMA AllMeansPassed ==
  ASSUME NEW steps, \A i \in DOMAIN steps : steps[i].holds
  PROVE  FirstFailure(steps) = Passed
  BY DEF FirstFailure

\* The reason is that of the first step that fails.
LEMMA FirstToFail ==
  ASSUME NEW steps, DOMAIN steps \subseteq Nat,
         NEW m \in DOMAIN steps, ~steps[m].holds,
         \A i \in DOMAIN steps : i < m => steps[i].holds
  PROVE  FirstFailure(steps) = steps[m].reason
<1>. DEFINE failing == {i \in DOMAIN steps : ~steps[i].holds}
            first == CHOOSE i \in failing : \A j \in failing : i <= j
<1>1. m \in failing /\ \A j \in failing : j \in Nat /\ m \in Nat /\ ~(j < m)
  OBVIOUS
<1>2. \A j \in failing : m <= j
  <2>. HIDE DEF failing
  <2>. QED
    BY <1>1
<1>3. FirstFailure(steps) = steps[first].reason
  BY <1>1 DEF FirstFailure
<1>4. first \in failing /\ \A j \in failing : first <= j
  <2>. HIDE DEF failing
  <2>. QED
    BY <1>1, <1>2
<1>5. first = m
  <2>. HIDE DEF failing, first
  <2>. QED
    BY <1>1, <1>2, <1>4
<1>. QED
  BY <1>3, <1>5

\* A reason that is given is the reason of a step that fails.
LEMMA ReasonIsOfAStep ==
  ASSUME NEW steps, DOMAIN steps \in SUBSET Nat, FirstFailure(steps) # Passed
  PROVE  \E i \in DOMAIN steps : ~steps[i].holds /\ FirstFailure(steps) = steps[i].reason
<1>. DEFINE failing == {i \in DOMAIN steps : ~steps[i].holds}
<1>1. failing # {} /\ failing \in SUBSET Nat
  BY AllMeansPassed
<1>2. PICK m \in failing : \A k \in failing : m <= k
  <2>. HIDE DEF failing
  <2>. QED
    BY <1>1, LeastNumber
<1>3. m \in DOMAIN steps /\ ~steps[m].holds
  OBVIOUS
<1>4. ASSUME NEW i \in DOMAIN steps, i < m PROVE steps[i].holds
  <2>1. i \in Nat /\ m \in Nat
    OBVIOUS
  <2>. QED
    BY <1>2, <1>4, <2>1
<1>. QED
  BY <1>3, <1>4, FirstToFail
=============================================================================
