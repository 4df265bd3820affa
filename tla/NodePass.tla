------------------------------ MODULE NodePass ------------------------------
(***************************************************************************)
(* One context under one pass of the chain verifier (chain.py _Pass.node   *)
(* and _verdict, sections 7 and 8.1): its key, its registry receipt, the   *)
(* revocations of its key and the searches for them, next to its           *)
(* retraction (LifecyclePass), read from a bundle that keeps growing.      *)
(* The context was signed with the producer's first key at Created.        *)
(***************************************************************************)
EXTENDS LifecyclePass

CONSTANTS
  Statements,   \* what the revocations that occur say, and in whose name
  MaxFound      \* bound of the model: how many revocations and searches come together

Agents == Actors \cup {"stranger"}   \* a stranger has a did:key

ASSUME DisjointKeysAssumption == Keys["producer"] \cap Keys["registry"] = {}
ASSUME StatementsAssumption ==
  Statements \subseteq
    [agent : Agents, controller : Agents, revoked : Keys["producer"], since : Nat]

StrangersKey == -1
Keyless == -2       \* a keyless identity whose attester is not pinned

VARIABLES
  receipt,      \* the context's registry receipt, or NoReceipt
  revocations,  \* the key-revocation contexts of the bundle
  searches      \* revocation_discovery of the producer

\* `when` is the moment a revocation was really published; the `controller` it names
\* is its revoked_key_controller, by default the agent itself.
Revocation ==
  [says : Statements, signer : Int, when : Nat, receipt : Receipt \cup {NoReceipt}]
\* A search whose outcome is unknown is passed over, and left out here.
Outcomes == {"revoked", "not-revoked-complete"}
Search == [outcome : Outcomes, at : Nat]

SignedWith == First("producer")

Evidence ==
  [events |-> bundle.events, archive |-> bundle.archive,
   receipt |-> receipt, revocations |-> revocations, searches |-> searches]

-----------------------------------------------------------------------------
(* Keys and receipts *)

Located(k, doc, pass) ==
  [status |-> IF k \in doc.methods THEN "resolved"
              ELSE IF IsLatest(pass) THEN "unresolvable" ELSE "unknown",
   current |-> k \in doc.methods /\ k = doc.current]

\* A registry receipt: a key only in verificationMethod makes it historical.
ReceiptStage(r, doc) ==
  CASE r = NoReceipt -> [value |-> "absent", status |-> "", at |-> NoTime]
    [] r # NoReceipt /\ r.key \in doc.methods ->
         [value |-> "ok", status |-> IF r.key = doc.current THEN "current" ELSE "historical",
          at |-> r.at]
    [] OTHER -> [value |-> "invalid", status |-> "", at |-> NoTime]

\* _key_stage: a key that has left assertionMethod stands if a receipt attests it.
KeyStage(key, rcpt, pass) ==
  IF key.status # "resolved" THEN key.status
  ELSE IF key.current THEN "current"
  ELSE IF rcpt.value = "ok" THEN "historical_receipt_attested"
  ELSE IF IsLatest(pass) THEN "unresolvable" ELSE "unknown"

-----------------------------------------------------------------------------
(* Revocations *)

SignerKey(rev, doc, pass) ==
  IF rev.says.agent = "stranger" THEN [status |-> "resolved", current |-> TRUE]
  ELSE Located(rev.signer, doc[rev.says.agent], pass)

RegistryAttested(rev) == rev.says.agent = "registry" /\ rev.says.controller # rev.says.agent

\* Faulty variant: an undated revocation counts as of T.
DatedOrNot(r, pass) == r.at = NoTime \/ Admits(r.at, pass.asOf)
DatedIn(r, pass) == Admits(r.at, pass.asOf)

\* _revocation: verified, and counted in this pass.
Verified(rev, doc, pass) ==
  LET rcpt == ReceiptStage(rev.receipt, doc["registry"])
      key == SignerKey(rev, doc, pass)
  IN  /\ rev.signer # Keyless
      /\ key.status = "resolved" /\ rev.signer # rev.says.revoked
      /\ key.current \/ rcpt.value = "ok"
      /\ RegistryAttested(rev) \/ rev.says.controller = rev.says.agent
      /\ DatedIn(rcpt, pass)

\* keyless_key: the attestation of the keyless signer was made and receipted by the
\* registry at Created.  Without its receipt, or any document of the attester in the
\* bundle, the signer cannot be evaluated; nor can it with them, since the attester
\* is not accepted.  In between, with a document the pass does not select, it is invalid.
AttestationReceipt == [at |-> Created, key |-> First("registry")]
KeylessUnevaluable(b, doc) ==
  \/ ReceiptStage(AttestationReceipt, doc["registry"]).value = "ok"
  \/ \A i \in DOMAIN b.archive["registry"] : b.archive["registry"][i].pinned

\* _revocation: signed by a keyless identity that cannot be evaluated.
Unevaluable(rev, b, doc, pass) ==
  LET rcpt == ReceiptStage(rev.receipt, doc["registry"])
  IN  /\ rev.signer = Keyless /\ KeylessUnevaluable(b, doc)
      /\ rev.says.controller = rev.says.agent
      /\ rcpt.value # "ok" \/ DatedIn(rcpt, pass)

\* Faulty variant: whoever names the key speaks for its producer.
NamesKey(rev) == TRUE
SpeaksForProducer(rev) ==
  IF RegistryAttested(rev) THEN rev.says.controller = "producer" ELSE rev.says.agent = "producer"

Applicable(b, fingerprint, doc, pass) ==
  {rev \in b.revocations : /\ rev.says.revoked = fingerprint /\ SpeaksForProducer(rev)
                           /\ Verified(rev, doc, pass)}

Discovery(b, pass) ==
  LET outcomes == {s.outcome : s \in {t \in b.searches : Admits(t.at, pass.asOf)}}
  IN  IF "not-revoked-complete" \in outcomes /\ "revoked" \notin outcomes
      THEN "not-revoked" ELSE "unknown"

\* The earliest boundary decides, against a receipt whose key is current.
Placed(rcpt, revs) ==
  IF rcpt.status # "current" THEN "unplaceable"
  ELSE IF \A rev \in revs : rcpt.at < rev.says.since THEN "pre-compromise" ELSE "revoked"

\* Faulty variant: a key that is not located is not looked up.
LocatedFingerprint(key, rcpt) == IF key.status = "resolved" THEN SignedWith ELSE NoKey
\* A key that is not located is known by its receipt.
Fingerprint(key, rcpt) ==
  IF key.status = "resolved" \/ rcpt.value = "ok" THEN SignedWith ELSE NoKey

RevocationStage(b, doc, key, rcpt, pass) ==
  LET fingerprint == Fingerprint(key, rcpt)
      applicable == Applicable(b, fingerprint, doc, pass)
      unevaluable == \E rev \in b.revocations :
        rev.says.agent = "producer" /\ rev.says.revoked = fingerprint /\ Unevaluable(rev, b, doc, pass)
      placed == Placed(rcpt, applicable)
  IN  IF applicable # {} /\ ~(placed = "pre-compromise" /\ unevaluable) THEN placed
      ELSE IF unevaluable THEN "unevaluable"
      ELSE Discovery(b, pass)

-----------------------------------------------------------------------------
(* The node *)

Refusing == {"revoked", "unplaceable"}

\* _verdict: what refuses comes before what leaves it unknown.
Verdict(s) ==
  IF s.key = "unresolvable" \/ s.revocation \in Refusing THEN "refused"
  ELSE IF \/ s.key = "unknown" \/ s.revocation \in {"unknown", "unevaluable"}
          \/ s.retraction \in {"unknown", "invalid"} \/ s.receipt.value = "invalid"
  THEN "unknown" ELSE "ok"

Caveats(s, pass) ==
  {c \in {"undated", "identity_unbound", "historical_key", "pre_compromise",
          "historical_receipt_key", "retracted"} :
     CASE c = "undated" -> ~IsLatest(pass) /\ s.receipt.value # "ok"
       [] c = "identity_unbound" -> s.receipt.value # "ok"
       [] c = "historical_key" ->
            s.key = "historical_receipt_attested" /\ s.revocation \notin Refusing
       [] c = "pre_compromise" -> s.revocation = "pre-compromise"
       [] c = "historical_receipt_key" -> s.receipt.status = "historical"
       [] c = "retracted" -> s.retraction = "retracted"}

\* The stages of a context that is in the bundle, for a pass not dated before it.
Node(b, pass) ==
  LET doc == Docs(b, pass)
      rcpt == ReceiptStage(b.receipt, doc["registry"])
      key == Located(SignedWith, doc["producer"], pass)
      stages == [key |-> KeyStage(key, rcpt, pass), receipt |-> rcpt,
                 revocation |-> RevocationStage(b, doc, key, rcpt, pass),
                 retraction |-> Retraction(b, pass).value]
  IN  [stages |-> stages, verdict |-> Verdict(stages), caveats |-> Caveats(stages, pass)]

-----------------------------------------------------------------------------
(* Who revokes, and who searches (external) *)

MayFind == Cardinality(revocations) + Cardinality(searches) < MaxFound

\* Anyone publishes a revocation; the registry may issue its receipt, or not.
Revoke(statement, signer, receipted) ==
  /\ MayFind
  /\ signer \in CASE statement.agent = "stranger" -> {StrangersKey}
                   [] statement.agent = "registry" -> {docs["registry"].current}
                   [] OTHER -> {docs["producer"].current, Keyless}
  /\ revocations' = revocations \cup {[says |-> statement, signer |-> signer, when |-> now,
       receipt |-> IF receipted THEN [at |-> now, key |-> docs["registry"].current]
                   ELSE NoReceipt]}
  /\ UNCHANGED <<vars, receipt, searches>>

SearchFor(outcome) ==
  /\ MayFind
  /\ searches' = searches \cup {[outcome |-> outcome, at |-> now]}
  /\ UNCHANGED <<vars, receipt, revocations>>

nodeVars == <<vars, receipt, revocations, searches>>

NodeInit ==
  /\ Init
  /\ receipt \in {NoReceipt, [at |-> Created, key |-> First("registry")]}
  /\ revocations = {} /\ searches = {}

NodeNext ==
  \/ Next /\ UNCHANGED <<receipt, revocations, searches>>
  \/ \E statement \in Statements, receipted \in BOOLEAN, signer \in
        {docs[actor].current : actor \in Actors} \cup {StrangersKey, Keyless} :
       Revoke(statement, signer, receipted)
  \/ \E outcome \in Outcomes : SearchFor(outcome)

NodeSpec == NodeInit /\ [][NodeNext]_nodeVars

-----------------------------------------------------------------------------
(* Properties *)

NodeStages ==
  [key : {"current", "historical_receipt_attested", "unresolvable", "unknown"},
   receipt : [value : {"ok"}, status : {"current", "historical"}, at : {Created}]
             \cup [value : {"absent", "invalid"}, status : {""}, at : {NoTime}],
   revocation : Refusing \cup {"pre-compromise", "unevaluable", "unknown", "not-revoked"},
   retraction : {"retracted", "not_retracted", "unknown", "invalid"}]

\* The passes that require attested events; T is a time, or Latest.
NodeAt(b, t) == Node(b, [asOf |-> t, required |-> TRUE])
Past == Created..(now - 1)

\* Type correctness of the world, the bundle and what the passes say of the context:
\* a key that is unknown for want of evidence as of T is unresolvable in the latest
\* pass, and only a receipt under a current key places the context.
NodeTypeOK ==
  /\ receipt \in Receipt \cup {NoReceipt}
  /\ revocations \subseteq Revocation /\ searches \subseteq Search
  /\ \A t \in {now, Latest} :
       LET stages == NodeAt(Evidence, t).stages
       IN  /\ stages \in NodeStages
           /\ stages.key # IF t = Latest THEN "unknown" ELSE "unresolvable"
           /\ stages.revocation \in {"revoked", "pre-compromise"} =>
                stages.receipt.status = "current"

\* The evidence as it was when t had just passed.
EvidenceBy(t) ==
  [events |-> By(t).events, archive |-> By(t).archive, receipt |-> receipt,
   revocations |-> {rev \in revocations : rev.when <= t},
   searches |-> {s \in searches : s.at <= t}]

\* An as-of node is final, like the retraction in it: no evidence that comes after T
\* changes it, where the registry's clock never went back.  Keyless-signed revocations
\* are left aside, see NeverReassured.
NodeIsFinal ==
  lag = 0 /\ (\A rev \in revocations : rev.signer # Keyless) =>
    \A t \in Past : NodeAt(Evidence, t) = NodeAt(EvidenceBy(t), t)

\* The keys that signed the receipts and the revocations are still in the documents
\* of their owners; the revoked key need not be.
KeysKept ==
  /\ \A r \in {receipt} \cup {rev.receipt : rev \in revocations} :
       r # NoReceipt => r.key \in docs["registry"].methods
  /\ \A rev \in revocations :
       \/ rev.says.agent = "stranger" \/ rev.signer \in {Keyless, rev.says.revoked}
       \/ rev.signer \in docs[rev.says.agent].methods

\* A context that is refused for a revocation as of T is refused as of every later
\* time, and in the latest pass, even when the revoked key is gone from the
\* producer's document; only a context without a receipt then becomes unknown.
RefusalHolds ==
  KeysKept =>
    \A t \in Past :
      NodeAt(Evidence, t).stages.revocation \in Refusing =>
        \A later \in (t..now) \cup {Latest} :
          LET verdict == NodeAt(Evidence, later).verdict
          IN  verdict = "refused" \/ (receipt = NoReceipt /\ verdict = "unknown")

\* A revocation by someone who speaks neither for the producer nor as its registry,
\* or signed by the key it revokes, is a hint: without it the node is the same.
HintsAreOnlyHints ==
  LET heard == {rev \in revocations : /\ rev.says.agent \in Actors
                                       /\ rev.says.controller = "producer"
                                       /\ rev.signer # rev.says.revoked}
  IN  heard # revocations =>
        \A t \in {now, Latest} :
          NodeAt(Evidence, t) = NodeAt([Evidence EXCEPT !.revocations = heard], t)

\* What was not accepted as of T is never accepted later for the same T.
NeverReassured ==
  \A t \in Past : NodeAt(EvidenceBy(t), t).verdict # "ok" => NodeAt(Evidence, t).verdict # "ok"
=============================================================================
