---------------------------- MODULE SignedContext ----------------------------
(***************************************************************************)
(* A signed body with its registry receipt and its head receipt, verified  *)
(* offline (verify.py, receipts.py, headreceipt.py, revocation.py), while  *)
(* a producer publishes versions and rotates its key, a thief signs with   *)
(* the key it stole, a registry issues receipts, and a relay, a registry   *)
(* of its own, serves any recombination of what it has seen.               *)
(* A hash is what it is a hash of.  A signature is who made it, over what. *)
(***************************************************************************)
EXTENDS FixedOrder, FiniteSets

CONSTANTS
  Contents,     \* what a producer may sign: its agent_id and its version
  Statements,   \* what the revocations of the first key say, and who publishes them
  MaxPublished, MaxHeads, MaxStatements, ContextEnd   \* bounds of the model

\* The owner has a did:web with keys 1 and 2, the neighbour a did:key.
Producers == {"owner", "neighbour"}
Registries == {"registry", "relay"}

ASSUME ContentsAssumption == Contents \subseteq [agent : Producers, version : Nat, word : STRING]
ASSUME StatementsAssumption ==
  Statements \subseteq [author : {"owner", "thief", "neighbour", "registry"},
                        agent : Producers \cup {"registry"},
                        controller : Producers, since : Nat]

\* The owner and the registry speak in their own names, and of the owner's key.
ASSUME GoodFaithAssumption ==
  \A s \in Statements :
    s.author \in {"owner", "registry"} => s.agent = s.author /\ s.controller = "owner"

VARIABLES
  hour,
  owners, registrys,   \* the DID documents of the owner and of the registry
  published,           \* what the registry accepted, in order, with the fields it assigned
  heads,               \* the head receipts the registry issued
  statements           \* the revocations of the owner's first key

contextVars == <<hour, owners, registrys, published, heads, statements>>

NeighboursKey == 10
RelaysKey == 20
StolenKey == 1
Skew == 1

-----------------------------------------------------------------------------
(* Key resolution (didweb.py, didkey.py) *)

\* The keys that a DID's document has in verificationMethod, and in assertionMethod.
\* The method-specific identifier of a did:key is its key; the relay never rotates.
MethodsOf(did) ==
  CASE did = "owner" -> owners.methods [] did = "registry" -> registrys.methods
    [] did = "relay" -> {RelaysKey} [] OTHER -> {NeighboursKey}
CurrentOf(did) ==
  CASE did = "owner" -> owners.current [] did = "registry" -> registrys.current
    [] did = "relay" -> RelaysKey [] OTHER -> NeighboursKey

-----------------------------------------------------------------------------
(* The body (verify_context_body) *)

\* Faulty variant: the key may be under any DID.
UnderAnyDid(body) == TRUE
BoundToAgent(body) == body.names.did = body.content.agent

VerifyContextBody(body, allowHistorical) ==
  FirstFailure(<<
    Step("schema_violation", body.origin = body.ctx.authority),
    Step("hash_mismatch", body.claimed = body.content),
    Step("key_not_authorized", BoundToAgent(body)),
    Step("key_resolution_failed", body.names.key \in MethodsOf(body.names.did)),
    Step("key_not_authorized",
         allowHistorical \/ body.names.key = CurrentOf(body.names.did)),
    Step("invalid_signature",
         body.made.key = body.names.key /\ body.made.over = body.content)>>)

-----------------------------------------------------------------------------
(* The registry receipt (resolve_receipt_key, verify_receipt) *)

\* A receipt or a head receipt under a key of the registry it names.
EnvelopeVerified(r) ==
  /\ r.under = r.by /\ r.key \in MethodsOf(r.by) /\ r.made = r.key

OfServing(r, serving) == r.by = serving

\* Faulty variant: the fields that the registry assigned are not compared.
ContextOnly(r, body, expected) == r.ctx = expected
BindsContext(r, body, expected) ==
  /\ r.ctx = expected
  /\ r.lineage = body.lineage /\ r.origin = body.origin /\ r.at = body.at

VerifyReceipt(r, body, serving, expected) ==
  FirstFailure(<<
    Step("invalid_receipt", EnvelopeVerified(r)),
    Step("invalid_receipt", OfServing(r, serving)),
    Step("invalid_receipt", r.origin = r.ctx.authority /\ r.origin = r.by),
    Step("invalid_receipt", BindsContext(r, body, expected)),
    Step("invalid_receipt", r.content = body.content),
    Step("invalid_receipt", r.fingerprint = body.names.key)>>)

-----------------------------------------------------------------------------
(* The head receipt (verify_head_receipt) *)

\* Steps 5 and 5b, against the response that the receipt came with.
BindsHead(h, body, state) ==
  IF h.head = body.ctx THEN h.version = body.content.version /\ h.status = state
  ELSE h.version > body.content.version /\ state \in {"superseded", "retracted"}

VerifyHeadReceipt(h, body, state, serving, lineage) ==
  FirstFailure(<<
    Step("invalid_receipt", h.status \notin {"superseded", "retracted"}),
    Step("invalid_receipt", EnvelopeVerified(h)),
    Step("invalid_receipt", OfServing(h, serving) /\ h.head.authority = h.by),
    Step("invalid_receipt", h.lineage = lineage),
    Step("invalid_receipt", BindsHead(h, body, state)),
    Step("invalid_receipt", h.asOf <= hour + Skew)>>)

-----------------------------------------------------------------------------
(* Revocations (revocation.py) *)

\* check_not_self_signed
NotSelfSigned(s) == s.signer # StolenKey

\* Faulty variant: whoever names the fingerprint.
AppliesToAny(s, agent) == TRUE
AppliesTo(s, agent) == s.controller = agent

\* A statement that verifies, is not void, and speaks for the context's producer: its
\* own word (check_controller_binding), or the registry's.
Counts(s, agent) ==
  /\ s.signer = CurrentOf(s.agent) /\ NotSelfSigned(s)
  /\ s.agent = "registry" \/ s.controller = s.agent
  /\ AppliesTo(s, agent)

\* classify_against_boundary at the effective_boundary, the earliest.
ClassifyRevoked(r, counted) ==
  IF counted = {} THEN "not revoked"
  ELSE IF r.key # CurrentOf(r.by) THEN "unplaceable"
  ELSE IF \A s \in counted : r.at < s.since THEN "pre-compromise" ELSE "in window"

-----------------------------------------------------------------------------
(* The world (external) *)

HourPasses ==
  /\ hour < ContextEnd /\ hour' = hour + 1
  /\ UNCHANGED <<owners, registrys, published, heads, statements>>

NextKey(doc, keeps) ==
  [current |-> doc.current + 1,
   methods |-> {doc.current + 1} \cup IF keeps THEN doc.methods ELSE {}]

OwnerRotates ==
  /\ owners.current = StolenKey /\ owners' = NextKey(owners, TRUE)
  /\ UNCHANGED <<hour, registrys, published, heads, statements>>

RegistryRotatesTo(keeps) ==
  /\ registrys.current = 3 /\ registrys' = NextKey(registrys, keeps)
  /\ UNCHANGED <<hour, owners, published, heads, statements>>

Ctx(n) == [authority |-> "registry", id |-> n]
Versions(lineage) == {i \in DOMAIN published : published[i].lineage = lineage}
Newest(lineage) == CHOOSE i \in Versions(lineage) : \A j \in Versions(lineage) : j <= i

\* A content is signed with its agent's current key and published: a first version, or
\* the next one of a lineage of the same agent.  The first key is also the thief's.
PublishContent(content, lineage) ==
  LET n == Len(published) + 1
  IN  /\ n <= MaxPublished
      /\ \A i \in DOMAIN published : published[i].content # content
      /\ IF lineage = n THEN content.version = 1
         ELSE /\ Versions(lineage) # {}
              /\ published[Newest(lineage)].content.agent = content.agent
              /\ content.version = published[Newest(lineage)].content.version + 1
      /\ published' = Append(published,
           [content |-> content, lineage |-> lineage, at |-> hour,
            key |-> CurrentOf(content.agent), issuedWith |-> registrys.current])
      /\ UNCHANGED <<hour, owners, registrys, heads, statements>>

IssueHead(lineage) ==
  /\ Cardinality(heads) < MaxHeads /\ Versions(lineage) # {}
  /\ LET i == Newest(lineage)
     IN  heads' = heads \cup {[by |-> "registry", under |-> "registry",
           key |-> registrys.current, made |-> registrys.current, lineage |-> lineage,
           head |-> Ctx(i), version |-> published[i].content.version, status |-> "active",
           asOf |-> hour]}
  /\ UNCHANGED <<hour, owners, registrys, published, statements>>

\* The thief signs what it says with the key it has; the others with their current one.
\* A revocation says something once there is a body that the stolen key signed.
Revoke(s) ==
  /\ Cardinality(statements) < MaxStatements
  /\ \E i \in DOMAIN published : published[i].key = StolenKey
  /\ s.author = "owner" => owners.current # StolenKey
  /\ statements' = statements \cup {[author |-> s.author, agent |-> s.agent,
       controller |-> s.controller, since |-> s.since,
       signer |-> IF s.author = "thief" THEN StolenKey ELSE CurrentOf(s.author)]}
  /\ UNCHANGED <<hour, owners, registrys, published, heads>>

ContextInit ==
  /\ hour = 1
  /\ owners = [current |-> StolenKey, methods |-> {StolenKey}]
  /\ registrys = [current |-> 3, methods |-> {3}]
  /\ published = <<>> /\ heads = {} /\ statements = {}

ContextNext ==
  \/ HourPasses \/ OwnerRotates
  \/ \E keeps \in BOOLEAN : RegistryRotatesTo(keeps)
  \/ \E content \in Contents, lineage \in 1..MaxPublished : PublishContent(content, lineage)
  \/ \E lineage \in 1..MaxPublished : IssueHead(lineage)
  \/ \E s \in Statements : Revoke(s)

ContextSpec == ContextInit /\ [][ContextNext]_contextVars

-----------------------------------------------------------------------------
(* What the relay can serve *)

\* The signatures there are: those of what was published, and what the thief and the
\* neighbour sign for the relay, which is any content.
Signatures ==
  {[key |-> published[i].key, over |-> published[i].content] : i \in DOMAIN published}
    \cup [key : {StolenKey, NeighboursKey}, over : Contents]

\* The fields of a body, each from anywhere: the content and its claimed hash, the
\* signature, the key and the DID it names, and the fields the registry assigned.
ServedBodies ==
  {[content |-> content, claimed |-> sig.over, made |-> sig,
    names |-> [did |-> did, key |-> sig.key], ctx |-> Ctx(i), origin |-> "registry",
    lineage |-> published[j].lineage, at |-> published[j].at] :
     content \in Contents, sig \in Signatures, did \in Producers, i, j \in DOMAIN published}

ReceiptFor(i) ==
  LET p == published[i]
  IN  [by |-> "registry", under |-> "registry", origin |-> "registry",
       key |-> p.issuedWith, made |-> p.issuedWith, ctx |-> Ctx(i), lineage |-> p.lineage,
       at |-> p.at, content |-> p.content, fingerprint |-> p.key]
IssuedReceipts == {ReceiptFor(i) : i \in DOMAIN published}

\* The relay signs a receipt for what it serves, as itself or as the registry.
ForgedReceipts(body) ==
  {[by |-> by, under |-> under, origin |-> by, key |-> key, made |-> RelaysKey,
    ctx |-> body.ctx, lineage |-> body.lineage, at |-> body.at, content |-> body.content,
    fingerprint |-> body.names.key] :
     by, under \in Registries, key \in {3, RelaysKey}}

ForgedHeads(body) ==
  {[by |-> by, under |-> by, key |-> key, made |-> RelaysKey, lineage |-> body.lineage,
    head |-> head, version |-> body.content.version, status |-> "active", asOf |-> hour] :
     by \in Registries, key \in {3, RelaysKey},
     head \in {body.ctx, [authority |-> "relay", id |-> 1]}}

-----------------------------------------------------------------------------
(* Properties *)

Verified(body) == VerifyContextBody(body, TRUE) = Passed
Receipted(body, r) == VerifyReceipt(r, body, "registry", body.ctx) = Passed

\* A body that verifies was signed with a key of the agent it names.
SignedByItsAgent(body) ==
  IF body.content.agent = "owner" THEN body.made.key \in {1, 2}
  ELSE body.made.key = NeighboursKey

\* A body that verifies with its receipt was accepted by the registry with the fields
\* the registry assigned to it and no others, under this key.
Published(body, r) ==
  \E i \in DOMAIN published :
    /\ Ctx(i) = body.ctx /\ published[i].content = body.content /\ published[i].key = body.made.key
    /\ published[i].lineage = body.lineage /\ published[i].at = body.at
    /\ r.key = published[i].issuedWith

\* A head receipt that verifies with it names what was the head of its lineage then,
\* and a body that was not the head is served as such.
WasHead(body, h, state) ==
  LET known == {i \in Versions(body.lineage) : published[i].at <= h.asOf}
  IN  /\ h.head.id \in known
      /\ \A i \in known : published[i].at < h.asOf => i <= h.head.id
      /\ state = "active" <=> h.head = body.ctx

\* Whatever the relay recombines, only what was really published verifies: a content
\* under a signature of its own agent, in its own place, at its own time, and, with a
\* head receipt, as the head only if it was.
OnlyPublishedVerifies ==
  \A body \in ServedBodies : Verified(body) =>
    /\ SignedByItsAgent(body)
    /\ \A r \in IssuedReceipts \cup ForgedReceipts(body) : Receipted(body, r) =>
         /\ Published(body, r)
         /\ \A h \in heads \cup ForgedHeads(body), state \in {"active", "superseded"} :
              VerifyHeadReceipt(h, body, state, "registry", body.lineage) = Passed
                => WasHead(body, h, state)

\* The boundary of a stolen key is its owner's to set, or the registry's for it: what
\* was published with it counts as before the compromise exactly if it was accepted
\* before every boundary they gave, whatever the thief and the neighbour say.
OwnerSetsTheBoundary ==
  \A body \in {b \in ServedBodies : b.made.key = StolenKey /\ Verified(b)}, r \in IssuedReceipts :
    /\ Receipted(body, r) /\ statements # {}
    /\ \A s \in statements : s.author \in {"owner", "registry"} => s.signer = CurrentOf(s.author)
    /\ r.key = registrys.current
    => LET given == {s \in statements : s.author \in {"owner", "registry"}}
           class == ClassifyRevoked(r, {s \in statements : Counts(s, body.content.agent)})
       IN  /\ class = "not revoked" <=> given = {}
           /\ class = "pre-compromise" <=> given # {} /\ \A s \in given : r.at < s.since
=============================================================================
