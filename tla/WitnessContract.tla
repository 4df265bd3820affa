-------------------------- MODULE WitnessContract --------------------------
(***************************************************************************)
(* What a quorum of witnesses promises (the N-witnessed policy of          *)
(* cosignature.py): an honest witness puts its name only to a history that *)
(* continues those it named before, so if any two quorums share an honest  *)
(* witness, all that reaches a quorum is one history.                      *)
(***************************************************************************)
EXTENDS WitnessPolicy, Sequences

CONSTANT Histories   \* the logs that may be shown

VARIABLE named   \* the histories that each witness put its name to

Continues(longer, shorter) ==
  /\ Len(shorter) <= Len(longer)
  /\ \A i \in 1..Len(shorter) : longer[i] = shorter[i]

WitnessTypeOK == named \in [Trusted -> SUBSET Histories]

NameIt(w, history) ==
  /\ w \in Honest => \A earlier \in named[w] : Continues(history, earlier)
  /\ named' = [named EXCEPT ![w] = @ \cup {history}]

WitnessInit == named = [w \in Trusted |-> {}]
WitnessNext == \E w \in Trusted, history \in Histories : NameIt(w, history)
WitnessSpec == WitnessInit /\ [][WitnessNext]_named

NamedBy(history) == {w \in Trusted : history \in named[w]}
Witnessed(history) == Cardinality(NamedBy(history)) >= Quorum

\* Whatever reaches a quorum is one history, seen earlier or later: there is no
\* moment at which two consumers could be shown different logs.
OneHistory ==
  \A one, other \in Histories :
    Witnessed(one) /\ Witnessed(other) => Continues(one, other) \/ Continues(other, one)
=============================================================================
