--------------------------- MODULE WitnessPolicy ---------------------------
(***************************************************************************)
(* Whom a consumer trusts to witness a log, and how many of them it takes  *)
(* (the N-witnessed policy of cosignature.py evaluate_quorum).             *)
(***************************************************************************)
EXTENDS Naturals, FiniteSets

CONSTANTS
  Trusted,   \* the witnesses the consumer trusts
  Honest,    \* those of them that keep their word
  Quorum     \* min_witnesses

ASSUME TrustedAssumption == IsFiniteSet(Trusted) /\ Honest \subseteq Trusted
\* Two quorums have more in common than there are dishonest witnesses.
ASSUME QuorumAssumption ==
  Quorum \in Nat /\ Cardinality(Trusted) + Cardinality(Trusted \ Honest) < 2 * Quorum
=============================================================================
