-------------------------- MODULE KeylessIdentity --------------------------
(***************************************************************************)
(* One keyless-signed body under verify_keyless (keyless.py, section 8.1), *)
(* and the world that goes on around it: a registry that attests ephemeral *)
(* keys and rotates its own, withdraws an attestation and restores it; a   *)
(* controller that rotates its keys and lists its workloads; revocations   *)
(* of the attested key, by whoever cares to publish one.                   *)
(* The body was signed with the first ephemeral key.  All attestations     *)
(* were made at time 1, under the registry's first key.                    *)
(***************************************************************************)
EXTENDS FixedOrder, FiniteSets

CONSTANTS
  Attested,       \* for each ephemeral key what its attestation says of it
  ServiceLists,   \* what the controller's document may list
  Bodies,         \* what the body may be: its form, origin and receipt
  Events,         \* what lifecycle events the first attestation may have
  Voices,         \* who revokes the first key, from when, with a receipt or not
  LastKey, MaxWords, KeylessEnd   \* bounds of the model

SignedWithKey == "first"

\* A key that is attested is not named as one of the other voices.
ASSUME AttestedAssumption ==
  /\ SignedWithKey \in DOMAIN Attested
  /\ DOMAIN Attested \cap {"registry", "mirror", "bystander", "document"} = {}
  /\ \A k \in DOMAIN Attested :
       /\ k \in STRING /\ Attested[k].wide \in BOOLEAN
       /\ Attested[k].from \in Nat /\ Attested[k].to \in Nat /\ Attested[k].from < Attested[k].to
ASSUME BodiesAssumption ==
  Bodies \subseteq [form : {"proper", "misbound", "forged"}, origin : {"registry", "mirror"},
                    of : DOMAIN Attested \cup {""}]
ASSUME EventsAssumption ==
  Events \subseteq [type : {"retracted", "republished"}, actor : {"registry", "other"},
                    proven : BOOLEAN]
ASSUME VoicesAssumption ==
  Voices \subseteq [who : {"registry", "mirror", "bystander", "document"} \cup DOMAIN Attested,
                    since : Nat, receipted : BOOLEAN]

VARIABLES
  clock,
  registry, controller,   \* their DID documents as published now
  signed,        \* the body with its receipt, or NotSigned
  withdrawals,   \* the lifecycle events on the first attestation
  revokers,      \* the revocations of the first key
  told           \* what the first consumer to verify the body was told, under which keys

keylessVars == <<clock, registry, controller, signed, withdrawals, revokers, told>>

AttestingKey == 1
Unseen == [current |-> 0, methods |-> {}, services |-> <<>>]   \* a document that cannot be had
NotSigned == [form |-> "none"]
NotAsked == [reason |-> "not asked"]
NotReceipted == [at |-> 0, by |-> "", key |-> 0, of |-> ""]
MirrorKeys == {1}   \* the keys of the other registry, which never change

\* What a consumer has in hand.
EvidenceOf(attestations, docs, accepts, revs) ==
  [attestations |-> attestations, registry |-> docs.registry, controller |-> docs.controller,
   accepts |-> accepts, body |-> signed, events |-> withdrawals, revocations |-> revs]

-----------------------------------------------------------------------------
(* Steps 1 to 7 (_check) *)

\* A receipt under a key that the issuer's document still has in verificationMethod.
KeyKnown(by, key, ev) == key \in IF by = "mirror" THEN MirrorKeys ELSE ev.registry.methods
ReceiptVerified(receipt, ev) ==
  receipt # NotReceipted /\ KeyKnown(receipt.by, receipt.key, ev)

\* Evidence that cannot be obtained; it is not a definite failure.
Unavailable(key, ev) == key \notin ev.attestations \/ ev.registry = Unseen

AttestationValid(key, ev) == ~Unavailable(key, ev) /\ AttestingKey \in ev.registry.methods

\* _registry_event_admitted: signed by the registry, or unsigned with its receipt.
EventAdmitted(e, ev) ==
  e.actor = "registry" /\ e.proven /\ e.key \in ev.registry.methods

\* _retracted: events that are not admitted are skipped.
\* Faulty variant: a republication is not read.
EverRetracted(ev) ==
  \E i \in DOMAIN ev.events : EventAdmitted(ev.events[i], ev) /\ ev.events[i].type = "retracted"
Retracted(ev) ==
  \E i \in DOMAIN ev.events :
    /\ EventAdmitted(ev.events[i], ev) /\ ev.events[i].type = "retracted"
    /\ \A j \in DOMAIN ev.events :
         j > i /\ EventAdmitted(ev.events[j], ev) => ev.events[j].type # "republished"

\* A signature by an ephemeral key: the body's, or that of a keyless revocation.
Claim(key, form, receipt, withdrawn) ==
  [key |-> key, form |-> form, receipt |-> receipt, withdrawn |-> withdrawn]

PlacedBy(claim, ev) ==
  /\ ReceiptVerified(claim.receipt, ev)
  /\ claim.receipt.by = "registry" /\ claim.receipt.of = claim.key
InWindow(claim) ==
  LET says == Attested[claim.key]
  IN  says.from <= claim.receipt.at /\ claim.receipt.at < says.to

ChecksOf(claim, ev) ==
  << Step("attestation_invalid", AttestationValid(claim.key, ev)),
     Step("untrusted_attester", ev.accepts),
     Step("attestation_mismatch", claim.form # "misbound"),
     Step("unplaceable", PlacedBy(claim, ev)),
     Step("outside_attestation_window", InWindow(claim)),
     Step("invalid_signature", claim.form # "forged"),
     Step("attestation_withdrawn", ~claim.withdrawn) >>

-----------------------------------------------------------------------------
(* Step 8: the revocations of the attested key (_classify_candidate) *)

KeylessVoice(rev) == rev.who \in DOMAIN Attested

\* No recursion into revocations of the signer of a revocation, and no step 9.
Signer(rev, ev) ==
  FirstFailure(ChecksOf(Claim(rev.who, "proper", rev.receipt, FALSE), ev))

\* A registry speaks for those whose bodies it attests or serves.
Origins(ev) == {"registry", ev.body.origin}

ClassifyKeyless(rev, ev) ==
  CASE rev.who = SignedWithKey -> "ignored"   \* self-signed
    [] rev.who # SignedWithKey /\ Signer(rev, ev) # Passed ->
         IF Unavailable(rev.who, ev) \/ Signer(rev, ev) = "untrusted_attester"
         THEN "unknown" ELSE "ignored"
    [] OTHER -> IF Attested[rev.who].wide THEN "applied" ELSE "hint"

\* Signed by a key of the controller's document; one that was rotated out needs the
\* receipt of the revocation.
ClassifyDocument(rev, ev) ==
  IF ev.controller = Unseen THEN "unknown"
  ELSE IF rev.key \notin ev.controller.methods THEN "ignored"
  ELSE IF rev.key = ev.controller.current \/ ReceiptVerified(rev.receipt, ev)
  THEN "applied" ELSE "unknown"

Classify(rev, ev) ==
  CASE KeylessVoice(rev) -> ClassifyKeyless(rev, ev)
    [] rev.who = "document" -> ClassifyDocument(rev, ev)
    [] rev.who = "registry" -> IF rev.key = ev.registry.current THEN "applied" ELSE "ignored"
    [] rev.who = "mirror" -> IF "mirror" \in Origins(ev) THEN "applied" ELSE "hint"
    [] OTHER -> "hint"

-----------------------------------------------------------------------------
(* decide and verify_keyless *)

\* The identities of the one keyless service; of none, or of several, nothing.
Listed(doc) == IF Len(doc.services) = 1 THEN doc.services[1] ELSE {}

Boundaries(revs) == {rev.since : rev \in revs}
\* Faulty variant: the last revocation replaces those before it.
BeforeLast(at, boundaries) == boundaries = {} \/ \E since \in boundaries : at < since
BeforeAll(at, boundaries) == \A since \in boundaries : at < since

Decide(claim, boundaries, ev) ==
  LET reason == FirstFailure(ChecksOf(claim, ev) \o
        << Step("revoked", BeforeAll(claim.receipt.at, boundaries)),
           Step("controller_unreachable", boundaries # {} \/ ev.controller # Unseen) >>)
      status == CASE reason # Passed -> "refused"
                  [] reason = Passed /\ boundaries # {} -> "pre_compromise"
                  [] OTHER -> IF Attested[claim.key].identity \in Listed(ev.controller)
                              THEN "current" ELSE "historical"
  IN  [status |-> status, reason |-> reason]

\* _key_revocation_class: refusal, then unknown, then pre-compromise.
\* Faulty variant: what is known outweighs what is not.
KnownFirst(claim, boundaries, unknown, ev) ==
  IF boundaries # {}
  THEN IF ~PlacedBy(claim, ev) THEN "unplaceable"
       ELSE IF BeforeAll(claim.receipt.at, boundaries) THEN "pre-compromise" ELSE "revoked"
  ELSE IF unknown # {} THEN "unknown" ELSE "not-revoked"
RevocationClass(claim, boundaries, unknown, ev) ==
  IF boundaries # {} /\ ~PlacedBy(claim, ev) THEN "unplaceable"
  ELSE IF ~BeforeAll(claim.receipt.at, boundaries) THEN "revoked"
  ELSE IF unknown # {} THEN "unknown"
  ELSE IF boundaries # {} THEN "pre-compromise" ELSE "not-revoked"

\* A withdrawn attestation counts as a revocation from its not_before.
VerifyKeyless(ev) ==
  LET claim == Claim(SignedWithKey, ev.body.form, ev.body.receipt, Retracted(ev))
      classes == {<<Classify(rev, ev), rev>> : rev \in ev.revocations}
      of(kind) == {c[2] : c \in {d \in classes : d[1] = kind}}
      applied == Boundaries(of("applied"))
      withdrawn == IF claim.withdrawn THEN {Attested[SignedWithKey].from} ELSE {}
      decision == Decide(claim, applied, ev)
  IN  [status |-> decision.status, reason |-> decision.reason,
       class |-> IF AttestationValid(SignedWithKey, ev)
                 THEN RevocationClass(claim, applied \cup withdrawn, of("unknown"), ev)
                 ELSE "not-revoked"]

-----------------------------------------------------------------------------
(* The world (external) *)

ClockTicks ==
  /\ clock < KeylessEnd /\ clock' = clock + 1
  /\ UNCHANGED <<registry, controller, signed, withdrawals, revokers, told>>

NewKey(doc, keeps) ==
  [current |-> doc.current + 1,
   methods |-> {doc.current + 1} \cup IF keeps THEN doc.methods ELSE {},
   services |-> doc.services]

RegistryRotates(keeps) ==
  /\ registry.current < LastKey /\ registry' = NewKey(registry, keeps)
  /\ UNCHANGED <<clock, controller, signed, withdrawals, revokers, told>>

ControllerRotates(keeps) ==
  /\ controller.current < LastKey /\ controller' = NewKey(controller, keeps)
  /\ UNCHANGED <<clock, registry, signed, withdrawals, revokers, told>>

ControllerLists(services) ==
  /\ services # controller.services
  /\ controller' = [controller EXCEPT !.services = services]
  /\ UNCHANGED <<clock, registry, signed, withdrawals, revokers, told>>

ReceiptOf(key, by) ==
  [at |-> clock, by |-> by, of |-> key, key |-> IF by = "mirror" THEN 1 ELSE registry.current]

\* A registry publishes the body, with a receipt for one of the keys, or without.
PublishKeyless(body) ==
  /\ signed = NotSigned
  /\ signed' = [form |-> body.form, origin |-> body.origin,
                receipt |-> IF body.of = "" THEN NotReceipted ELSE ReceiptOf(body.of, body.origin)]
  /\ UNCHANGED <<clock, registry, controller, withdrawals, revokers, told>>

\* What is said counts once there is a body to say it of, and for as long as the
\* attestation verifies.
WordsLeft ==
  /\ signed # NotSigned /\ AttestingKey \in registry.methods
  /\ Len(withdrawals) + Cardinality(revokers) < MaxWords

\* An event on the attestation, by the registry or another: signed or, if unsigned,
\* with its receipt, or not.
Withdraw(event) ==
  /\ WordsLeft
  /\ withdrawals' = Append(withdrawals,
       [type |-> event.type, actor |-> event.actor, proven |-> event.proven,
        key |-> registry.current])
  /\ UNCHANGED <<clock, registry, controller, signed, revokers, told>>

SpeakUp(voice) ==
  /\ WordsLeft
  /\ revokers' = revokers \cup {
       [who |-> voice.who, since |-> voice.since,
        key |-> IF voice.who = "document" THEN controller.current ELSE registry.current,
        receipt |-> IF ~voice.receipted THEN NotReceipted
                    ELSE ReceiptOf(IF voice.who \in DOMAIN Attested THEN voice.who ELSE "",
                                   "registry")]}
  /\ UNCHANGED <<clock, registry, controller, signed, withdrawals, told>>

\* A consumer verifies the body on all there is, and remembers a refusal for a
\* revocation or a withdrawal.
Consult ==
  LET result == VerifyKeyless(EvidenceOf(DOMAIN Attested,
                  [registry |-> registry, controller |-> controller], TRUE, revokers))
  IN  /\ signed # NotSigned /\ told = NotAsked
      /\ result.reason \in {"revoked", "attestation_withdrawn"}
      /\ told' = [reason |-> result.reason, registry |-> registry.methods,
                  controller |-> controller.methods]
      /\ UNCHANGED <<clock, registry, controller, signed, withdrawals, revokers>>

KeylessInit ==
  /\ told = NotAsked
  /\ clock = 1 /\ signed = NotSigned /\ withdrawals = <<>> /\ revokers = {}
  /\ registry = [current |-> AttestingKey, methods |-> {AttestingKey}, services |-> <<>>]
  /\ controller \in {[current |-> 1, methods |-> {1}, services |-> s] : s \in ServiceLists}

KeylessNext ==
  \/ ClockTicks
  \/ \E keeps \in BOOLEAN : RegistryRotates(keeps) \/ ControllerRotates(keeps)
  \/ \E services \in ServiceLists : ControllerLists(services)
  \/ \E body \in Bodies : PublishKeyless(body)
  \/ \E event \in Events : Withdraw(event)
  \/ \E voice \in Voices : SpeakUp(voice)
  \/ Consult

KeylessSpec == KeylessInit /\ [][KeylessNext]_keylessVars
=============================================================================
