----------------------------- MODULE KeylessNode -----------------------------
(***************************************************************************)
(* The same body as the chain verifier reads it (chain.py keyless_key,     *)
(* keyless_placed, withdrawal and what they feed, RFC 21 section 10), in   *)
(* the latest pass over a bundle that holds the same evidence: one snapshot *)
(* of each document, a complete search for revocations that found none, and *)
(* the attester pinned if it is accepted.                                  *)
(***************************************************************************)
EXTENDS KeylessIdentity

\* keyless_key: steps 1 to 3, and step 9 but for the signer of a revocation.
NodeKeyResolved(claim, signerOnly, ev) ==
  /\ AttestationValid(claim.key, ev) /\ ev.accepts /\ claim.form # "misbound"
  /\ signerOnly \/ ev.controller # Unseen

\* What another attester, or other evidence, might have resolved.
NodeKeyUnevaluable(claim, ev) ==
  Unavailable(claim.key, ev) \/ (AttestationValid(claim.key, ev) /\ ~ev.accepts)

\* keyless_placed: steps 4 and 5.
NodePlaced(claim, ev) == PlacedBy(claim, ev) /\ InWindow(claim)

\* retraction_stage of the attestation: what follows an event that is not admitted
\* is not read.
NodeRetracted(ev) ==
  \E i \in DOMAIN ev.events :
    /\ \A j \in 1..i : EventAdmitted(ev.events[j], ev)
    /\ ev.events[i].type = "retracted"
    /\ \A j \in (i + 1)..Len(ev.events) :
         (\A h \in 1..j : EventAdmitted(ev.events[h], ev)) => ev.events[j].type # "republished"

\* _revocation: verified, and in force.
NodeCounts(rev, ev) ==
  LET claim == Claim(rev.who, "proper", rev.receipt, FALSE)
      under(doc) ==
        rev.key \in doc.methods /\ (rev.key = doc.current \/ ReceiptVerified(rev.receipt, ev))
  IN  CASE KeylessVoice(rev) ->
             /\ rev.who # SignedWithKey /\ Attested[rev.who].wide
             /\ NodeKeyResolved(claim, TRUE, ev) /\ NodePlaced(claim, ev)
        [] rev.who = "document" -> under(ev.controller)
        [] rev.who = "registry" -> under(ev.registry)
        [] rev.who = "mirror" -> "mirror" \in Origins(ev)
        [] OTHER -> FALSE

NodeUnevaluable(rev, ev) ==
  KeylessVoice(rev) /\ NodeKeyUnevaluable(Claim(rev.who, "proper", rev.receipt, FALSE), ev)

\* revocation_stage: only a receipt under a current key places the body.
ReceiptIsCurrent(receipt, ev) ==
  receipt.key \in IF receipt.by = "mirror" THEN MirrorKeys ELSE {ev.registry.current}
NodeRevocation(claim, ev) ==
  LET boundaries == Boundaries({rev \in ev.revocations : NodeCounts(rev, ev)})
        \cup IF NodeRetracted(ev) THEN {Attested[claim.key].from} ELSE {}
      unevaluable == \E rev \in ev.revocations : NodeUnevaluable(rev, ev)
  IN  IF boundaries # {}
         /\ ~(ReceiptVerified(claim.receipt, ev) /\ ReceiptIsCurrent(claim.receipt, ev))
      THEN "unplaceable"
      ELSE IF ~BeforeAll(claim.receipt.at, boundaries) THEN "revoked"
      ELSE IF unevaluable THEN "unknown"
      ELSE IF boundaries # {} THEN "pre-compromise" ELSE "not-revoked"

\* node and _verdict, as far as they read the key.
ReadKeylessNode(ev) ==
  LET claim == Claim(SignedWithKey, ev.body.form, ev.body.receipt, FALSE)
      class == NodeRevocation(claim, ev)
      refused == \/ ~NodeKeyResolved(claim, FALSE, ev) \/ ~NodePlaced(claim, ev)
                 \/ claim.form = "forged" \/ class \in {"revoked", "unplaceable"}
  IN  CASE refused -> "refused"
        [] ~refused /\ class = "unknown" -> "unknown"
        [] ~refused /\ class = "pre-compromise" -> "pre_compromise"
        [] OTHER -> IF Attested[claim.key].identity \in Listed(ev.controller)
                    THEN "current" ELSE "historical"

-----------------------------------------------------------------------------
(* Properties *)

\* What a consumer may make of a result: the key class goes before the status.
Reading(result) ==
  IF result.status # "refused" /\ result.class = "unknown" THEN "unknown" ELSE result.status

Present == [registry |-> registry, controller |-> controller]
Evidence(accepts) == EvidenceOf(DOMAIN Attested, Present, accepts, revokers)

\* Where the two readers are meant to agree: every signature of the evidence is
\* under a key that is still current, and every event is admitted.
AllCurrent(ev) ==
  /\ ReceiptIsCurrent(ev.body.receipt, ev) \/ ev.body.receipt = NotReceipted
  /\ \A rev \in ev.revocations : CASE rev.who = "document" -> rev.key = ev.controller.current
                                   [] rev.who = "registry" -> rev.key = ev.registry.current
                                   [] OTHER -> TRUE
  /\ \A i \in DOMAIN ev.events : EventAdmitted(ev.events[i], ev)

\* verify_keyless and a node of the chain verifier say the same of one body from the
\* same evidence: what is refused, unknown, pre-compromise, current or historical.
ReadersAgree ==
  signed # NotSigned =>
    \A accepts \in BOOLEAN :
      AllCurrent(Evidence(accepts)) =>
        Reading(VerifyKeyless(Evidence(accepts))) = ReadKeylessNode(Evidence(accepts))

\* A body that is accepted where one of three parts of the evidence is lost is accepted on
\* all of it: without the controller's document, the attestations of those who revoke, or
\* the receipts of revocations that the document signs, the answer may be unknown, never
\* better.  The receipt of a revocation with a keyless signer is no such part: without it
\* the revocation may be ignored.
Accepted(ev) == Reading(VerifyKeyless(ev)) \notin {"refused", "unknown"}
Poorer ==
  {EvidenceOf(DOMAIN Attested \ {rev.who : rev \in revokers}, Present, TRUE, revokers),
   EvidenceOf(DOMAIN Attested, [Present EXCEPT !.controller = Unseen], TRUE, revokers),
   EvidenceOf(DOMAIN Attested, Present, TRUE,
     {[rev EXCEPT !.receipt = IF rev.who = "document" THEN NotReceipted ELSE @] :
        rev \in revokers})}
LessEvidenceNeverClears ==
  signed # NotSigned =>
    (Accepted(Evidence(TRUE)) \/ \A poorer \in Poorer : ~Accepted(poorer))

\* What was refused for a revocation or a withdrawal stays refused, for all that is
\* published, found or listed since, as long as neither the registry nor the controller
\* rotates its keys; a refusal for a withdrawal ends when the attestation is restored.
Restored ==
  LET theirs(e) == e.actor = "registry" /\ e.proven
  IN  \E i \in DOMAIN withdrawals :
        /\ theirs(withdrawals[i]) /\ withdrawals[i].type = "republished"
        /\ \A j \in DOMAIN withdrawals : j > i => ~theirs(withdrawals[j])
RefusalLasts ==
  told # NotAsked /\ told.registry = registry.methods /\ told.controller = controller.methods =>
    \/ VerifyKeyless(Evidence(TRUE)).status = "refused"
    \/ told.reason = "attestation_withdrawn" /\ Restored

\* Only a receipt under a current registry key places a body before a boundary.
HistoricalReceiptPlacesNothing ==
  signed # NotSigned /\ VerifyKeyless(Evidence(TRUE)).status = "pre_compromise"
    => ReceiptIsCurrent(signed.receipt, Evidence(TRUE))
=============================================================================
