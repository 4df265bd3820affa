----------------------------- MODULE ChainDrift -----------------------------
(***************************************************************************)
(* The horizon of a bundle and the drift of one context between an as-of   *)
(* pass and the latest (chain.py _horizon and _drift_kinds, sections 5.4   *)
(* and 8.4), over the world of NodePass with its lifecycle events.         *)
(***************************************************************************)
EXTENDS NodePass, FiniteSetsExt, Functions

LatestPass == [asOf |-> Latest, required |-> TRUE]

\* The receipts that verify under the registry's latest document.
DatedReceipts(b) ==
  {r \in {b.receipt} \cup {rev.receipt : rev \in b.revocations} :
     ReceiptStage(r, Docs(b, LatestPass)["registry"]).value = "ok"}

AcceptanceTimes(b) ==
  {check.acceptedAt : check \in {EventChecks(b, LatestPass)[i] : i \in DOMAIN b.events}}

\* What was observed of the documents; the pinned ones are no part of the bundle.
ObservationTimes(b) ==
  UNION {{s.at : s \in {t \in Range(b.archive[actor]) : ~t.pinned}} : actor \in Actors}

\* _horizon; without the checkpoints, since there is no log in this world.
\* Faulty variant: the acceptance of an event has no date.
EvidenceTimesButEvents(b) ==
  {r.at : r \in DatedReceipts(b)} \cup {s.at : s \in b.searches} \cup ObservationTimes(b)
EvidenceTimes(b) ==
  {r.at : r \in DatedReceipts(b)} \cup (AcceptanceTimes(b) \ {NoTime})
  \cup {s.at : s \in b.searches} \cup ObservationTimes(b)
Horizon(b) == IF EvidenceTimes(b) = {} THEN NoTime ELSE Max(EvidenceTimes(b))

\* A receipt whose registry was only observed after T.
ReceiptUnprovable(b, t) ==
  /\ b.receipt # NoReceipt /\ b.archive["registry"] # <<>>
  /\ \A i \in DOMAIN b.archive["registry"] : ~Admits(b.archive["registry"][i].at, t)

\* One of the events was dated by T and accepted after it.
Backdated(b, t) ==
  \E i \in DOMAIN b.events :
    LET accepted == EventChecks(b, LatestPass)[i].acceptedAt
    IN  accepted # NoTime /\ b.events[i].occurred <= t /\ t < accepted

\* The verdict with its caveats, as the drift compares it.
Full(node) == IF node.verdict = "ok" /\ node.caveats # {} THEN "ok_with_caveats" ELSE node.verdict

\* What has drifted from the stages of one node to those of another.
StageDrifts(b, t, then, last) ==
  {kind \in {"revoked_after_as_of", "retracted_after_as_of", "republished_after_as_of",
             "backdated_event", "as_of_unprovable"} :
     CASE kind = "revoked_after_as_of" ->
            last.revocation \in Refusing /\ then.revocation \notin Refusing
       [] kind = "retracted_after_as_of" ->
            last.retraction = "retracted" /\ then.retraction # "retracted"
       [] kind = "republished_after_as_of" ->
            then.retraction = "retracted" /\ last.retraction = "not_retracted"
       [] kind = "backdated_event" -> Backdated(b, t)
       [] kind = "as_of_unprovable" ->
            \/ then.key = "unknown" /\ then.revocation \notin Refusing
            \/ ReceiptUnprovable(b, t)}

OrChanged(kinds, changed) == IF kinds = {} /\ changed THEN {"verdict_changed"} ELSE kinds
DriftBetween(b, t, then, last) ==
  OrChanged(StageDrifts(b, t, then.stages, last.stages), Full(then) # Full(last))

\* _drift_kinds; a context of this world is never published after T.
DriftKinds(b, t) == DriftBetween(b, t, NodeAt(b, t), NodeAt(b, Latest))

-----------------------------------------------------------------------------
\* An event may be dated before its registry accepts it.
DriftNext ==
  \/ NodeNext
  \/ /\ \E type \in Types, actor \in Actors : Accept(type, actor, TRUE, Created, TRUE)
     /\ UNCHANGED <<receipt, revocations, searches>>
DriftSpec == NodeInit /\ [][DriftNext]_nodeVars

-----------------------------------------------------------------------------
(* Properties *)

\* All that was published is dated by its registry, and every key that signed an event
\* or a revocation is the one its owner still has in use where it was seen last.
DatedAndCurrent ==
  LET inUse(actor) == Docs(Evidence, LatestPass)[actor]
  IN  /\ lag = 0 /\ receipt # NoReceipt /\ inUse("producer").current = SignedWith
      /\ \A r \in {receipt} \cup {rev.receipt : rev \in revocations}
                  \cup {bundle.events[i].receipt : i \in DOMAIN bundle.events} :
           r # NoReceipt /\ r.key = inUse("registry").current
      /\ \A rev \in revocations :
           rev.signer # Keyless /\ (rev.says.agent \in Actors => rev.signer = inUse(rev.says.agent).current)
      /\ \A i \in DOMAIN bundle.events :
           bundle.events[i].key \in {NoKey, inUse(bundle.events[i].actor).current}

\* Where a pass lacks no evidence, what is said to have come after T did.  A context
\* that is refused for a revocation may lack its producer's document without being
\* as_of_unprovable: the revocation has replaced its key stage.
CameLater(kinds, t) ==
  LET later(type) == \E i \in DOMAIN bundle.events :
                       bundle.events[i].type = type /\ bundle.events[i].when > t
  IN  "as_of_unprovable" \notin kinds /\ NodeAt(Evidence, t).stages.key # "unknown" =>
        /\ "retracted_after_as_of" \in kinds => later("retracted")
        /\ "republished_after_as_of" \in kinds => later("republished")
        /\ "revoked_after_as_of" \in kinds => \E rev \in revocations : rev.when > t

\* Those whose documents are all dated after T.
Unseen(t) ==
  {actor \in Actors : /\ bundle.archive[actor] # <<>>
                      /\ \A i \in DOMAIN bundle.archive[actor] : bundle.archive[actor][i].at > t}
KindsAreReal(kinds, t) ==
  (Horizon(Evidence) <= t => kinds = {} \/ Unseen(t) # {}) /\ CameLater(kinds, t)

\* From the horizon on nothing drifts from an as-of pass, unless it sees no document of
\* somebody: all of them were then pinned for a later time, which the horizon does not
\* count.  And where a pass lacks no evidence, what is said to have come after T did.
DriftIsReal ==
  DatedAndCurrent => \A t \in Created..now : KindsAreReal(DriftKinds(Evidence, t), t)
=============================================================================
