----------------------------- MODULE WireShapes -----------------------------
(***************************************************************************)
(* The shapes of what comes over the wire (validation.py), of what is in   *)
(* an evidence bundle (evidence.py), of the metadata and records that      *)
(* the other modules read, and of the options of the chain verifier: which *)
(* members an object must and may have, what their values may be, and how  *)
(* they depend on each other.                                              *)
(* An object is a function from the members it has to what is to be known  *)
(* of their values; a value of the right type and form is "good", of the   *)
(* right type only "malformed" where some check does not look at the form, *)
(* else "ill", unless a rule tells its values further apart.               *)
(***************************************************************************)
EXTENDS FiniteSets, Naturals

CONSTANTS MaxEdits

VARIABLES kind, object, edits
shapeVars == <<kind, object, edits>>

-----------------------------------------------------------------------------
(* Which members an object must and may have *)

Open(required, optional) == [open |-> TRUE, required |-> required, optional |-> optional]
Closed(required, optional) == [open |-> FALSE, required |-> required, optional |-> optional]

ProducerRequired ==
  {"version", "supersedes", "agent_id", "contributors", "content_hash", "signature", "title",
   "type", "data_refs", "derived_from", "visibility"}
\* What _validate_producer_fields checks when present, besides.
ProducerOptional ==
  {"description", "domain", "schema_uri", "tags", "data_period", "expires_at", "audience",
   "summary", "metadata", "acdp_version", "anchors", "key_attestation"}
RegistryAssigned == {"ctx_id", "lineage_id", "origin_registry", "created_at"}

\* Faulty variant: the closed list of a request was not extended with the latest member.
RequestBeforeKeyless == Closed(ProducerRequired, (ProducerOptional \ {"key_attestation"}) \cup {"lineage_id"})
RequestShape == Closed(ProducerRequired, ProducerOptional \cup {"lineage_id"})
BodyShape == Open(ProducerRequired \cup RegistryAssigned, ProducerOptional)

DataRefShape ==
  Open({"type"}, {"description", "format", "schema_version", "size_bytes", "content_hash",
                  "location", "embedded"})
EmbeddedShape == Closed({"encoding", "content"}, {"content_hash"})
AnchorShape == Closed({"scheme", "content_hash"}, {})
AttestationRefShape == Closed({"ctx_id", "content_hash"}, {})
PeriodShape == Closed({"start", "end"}, {})
SignatureShape == Closed({"algorithm", "key_id", "value"}, {})

PublishResponseShape ==
  Closed({"ctx_id", "lineage_id", "version", "created_at", "status"}, {"registry_receipt"})
MatchShape ==
  Closed({"ctx_id", "lineage_id", "type", "agent_id", "title", "created_at", "status"},
         {"summary", "domain", "visibility"})
SearchShape == Closed({"matches"}, {"next_cursor", "total_estimate"})
ErrorShape == Closed({"code", "message"}, {"details"})
StateShape == Open({"status"}, {})
CapabilitiesShape ==
  Open({"acdp_version", "registry_did", "supported_signature_algorithms",
        "supported_did_methods", "profiles", "limits"},
       {"supports_idempotency_key", "ttl"})
LimitsShape ==
  Open({"max_embedded_bytes", "max_payload_bytes"},
       {"max_publish_per_minute", "max_reads_per_minute", "max_anonymous_reads_per_minute",
        "change_retention_seconds", "max_change_filters", "max_changes_page",
        "max_subscriptions_per_requester"})

EventShape ==
  Closed({"event_id", "ctx_id", "event_type", "occurred_at", "actor"}, {"reason", "signature"})
EventReceiptShape ==
  Closed({"receipt_type", "registry_did", "ctx_id", "event_id", "event_hash", "index",
          "accepted_at", "signature"}, {})
RegistryReceiptShape ==
  Closed({"registry_did", "ctx_id", "lineage_id", "origin_registry", "created_at",
          "content_hash", "key_fingerprint", "signature"}, {})
CheckpointShape ==
  Closed({"checkpoint_version", "log_id", "tree_size", "root_hash", "timestamp", "signature"}, {})
InclusionShape ==
  Closed({"log_id", "leaf_index", "tree_size", "inclusion_path", "log_checkpoint"}, {"leaf"})
ContextShape ==
  Closed({"body"}, {"registry_receipt", "lifecycle_events", "event_receipts", "log_inclusion"})
SnapshotShape == Closed({"document", "observed_at"}, {"observed_by", "source"})
DiscoveryShape == Closed({"vantage", "outcome", "completed_at"}, {})
CosignedShape == Closed({"checkpoint"}, {"cosignatures"})
ConsistencyShape ==
  Closed({"log_id", "first_tree_size", "second_tree_size", "consistency_path"}, {})
OmittedShape == Closed({"ctx_id", "reason"}, {})
BundleShape ==
  Closed({"evidence_version", "contexts"},
         {"roots", "exported_at", "did_documents", "revocation_discovery", "checkpoints",
          "consistency_proofs", "omitted"})

\* What reads a receipt, a checkpoint or a cosignature checks its shape once more.
ReceiptShape ==
  Closed({"registry_did", "ctx_id", "lineage_id", "origin_registry", "created_at",
          "content_hash", "key_fingerprint", "signature"}, {})
LogCheckpointShape ==
  Closed({"checkpoint_version", "log_id", "tree_size", "root_hash", "timestamp", "signature"}, {})
WitnessedShape == Closed({"log_id", "tree_size", "root_hash", "timestamp"}, {})

OidcShape == Closed({"type", "issuer", "subject"}, {})
SpiffeShape == Closed({"type", "subject"}, {})
\* An entry of the controller's keyless service: an identity, and whether it is org-wide.
ListedOidcShape == Open({"type", "issuer", "subject"}, {"org_wide"})
ListedSpiffeShape == Open({"type", "subject"}, {"org_wide"})
AttestationShape ==
  Closed({"attestation_version", "controller", "identity", "org_wide", "key_id", "algorithm",
          "public_key_jwk", "key_fingerprint", "not_before", "not_after", "token_hash"}, {})
AttestationBodyShape ==
  Open({"type", "visibility", "version", "supersedes", "data_refs", "derived_from", "schema_uri",
        "acdp_version", "metadata"}, {"signature", "ctx_id", "agent_id"})
\* The metadata of a revocation, with the members of its body that are looked at.
RevocationShape ==
  Open({"type", "visibility", "agent_id", "revoked_key_fingerprint", "compromised_since"},
       {"reason", "revoked_key_controller"})

TrustListShape ==
  Closed({"trust_list_version", "list_id", "serial", "issued_at", "valid_from", "valid_until",
          "entries"}, {})
TrustEntryShape ==
  Closed({"registry_did", "origin"},
         {"receipt_key_fingerprints", "required_profiles", "scope", "valid_from", "valid_until"})
RecordShape ==
  Closed({"record_version", "a2a_protocol_version", "artifact_id_hash", "task_id_hash",
          "context_id_hash", "parts_hash", "salted", "embedded", "completed_at"},
         {"role", "name", "description"})

ChangeMembers ==
  {"change_version", "seq", "kind", "ctx_id", "lineage_id", "agent_id", "recorded_at"}
LifecycleChangeShape == Closed(ChangeMembers \cup {"event", "event_receipt"}, {})
SupersededChangeShape == Closed(ChangeMembers \cup {"superseded_by", "registry_receipt"}, {})
RevocationChangeShape == Closed(ChangeMembers \cup {"registry_receipt"}, {})

ChainLimitsShape == Closed({}, {"max_depth", "max_nodes", "max_fanout"})
PinnedShape ==
  Closed({}, {"snapshots", "registries", "witnesses", "vantages", "keyless_attesters"})
PinnedSnapshotShape == Closed({"did", "document", "instant"}, {})

Shapes ==
  [request |-> RequestShape, body |-> BodyShape, data_ref |-> DataRefShape,
   embedded |-> EmbeddedShape, anchor |-> AnchorShape, key_attestation |-> AttestationRefShape,
   data_period |-> PeriodShape, signature |-> SignatureShape,
   publish_response |-> PublishResponseShape, match |-> MatchShape, search |-> SearchShape,
   error |-> ErrorShape, registry_state |-> StateShape, capabilities |-> CapabilitiesShape,
   limits |-> LimitsShape, event |-> EventShape, event_receipt |-> EventReceiptShape,
   registry_receipt |-> RegistryReceiptShape, checkpoint |-> CheckpointShape,
   inclusion |-> InclusionShape, context |-> ContextShape, snapshot |-> SnapshotShape,
   discovery |-> DiscoveryShape, cosigned |-> CosignedShape, consistency |-> ConsistencyShape,
   omitted |-> OmittedShape, bundle |-> BundleShape,
   receipt |-> ReceiptShape, log_checkpoint |-> LogCheckpointShape, witnessed |-> WitnessedShape,
   oidc |-> OidcShape, spiffe |-> SpiffeShape, listed_oidc |-> ListedOidcShape,
   listed_spiffe |-> ListedSpiffeShape, attestation |-> AttestationShape,
   attestation_body |-> AttestationBodyShape, revocation |-> RevocationShape,
   trust_list |-> TrustListShape, trust_entry |-> TrustEntryShape, record |-> RecordShape,
   lifecycle_change |-> LifecycleChangeShape, superseded_change |-> SupersededChangeShape,
   revocation_change |-> RevocationChangeShape, chain_limits |-> ChainLimitsShape,
   pinned |-> PinnedShape, pinned_snapshot |-> PinnedSnapshotShape]

Known(k) == Shapes[k].required \cup Shapes[k].optional

-----------------------------------------------------------------------------
(* What the values may be *)

BodyKinds == {"request", "body", "attestation_body"}

\* Where some check looks at the type of a value only, and where every check does.
FormMatters == {"registry_receipt", "receipt", "oidc", "spiffe", "listed_oidc", "listed_spiffe"}
TypeOnly(k, member) ==
  \/ k = "receipt" /\ member # "signature"
  \/ k \in {"listed_oidc", "listed_spiffe"} /\ member \notin {"type", "org_wide"}

\* The values that a check tells apart; those of the other members are good, ill or null.
ShapeValues(k, member) ==
  CASE member = "version" /\ k \in BodyKinds -> {"1", "2", "ill", "null"}
    [] member = "visibility" -> {"public", "restricted", "private", "ill", "null"}
    [] member = "audience" -> {"empty", "good", "ill", "null"}
    [] member = "acdp_version" /\ k = "capabilities" -> {"0.2.0", "0.3.0", "ill", "null"}
    [] member = "supports_idempotency_key" -> {"true", "false", "ill", "null"}
    [] k \in {"checkpoint", "log_checkpoint", "witnessed"} /\ member = "log_id" ->
         {"good", "colon", "underscore", "ill", "null"}
    [] k = "attestation" /\ member \in {"public_key_jwk", "key_fingerprint", "key_id"} ->
         {"good", "of another key", "ill", "null"}
    [] k = "attestation" /\ member = "not_after" ->
         {"good", "not after not_before", "an hour after", "ill", "null"}
    [] k = "attestation_body" /\ member = "signature" -> {"good", "keyless", "ill", "null"}
    [] k = "attestation_body" /\ member = "ctx_id" -> {"good", "malformed", "ill", "null"}
    [] k = "trust_list" /\ member = "valid_until" ->
         {"good", "not after valid_from", "ill", "null"}
    [] k = "trust_entry" /\ member \in {"registry_did", "origin"} ->
         {"good", "of another", "ill", "null"}
    [] k = "pinned" /\ member = "snapshots" ->
         {"good", "two documents at one instant", "ill", "null"}
    [] k = "record" /\ member \in {"salted", "embedded"} -> {"true", "false", "ill", "null"}
    [] k \in FormMatters -> {"good", "malformed", "ill", "null"}
    [] OTHER -> {"good", "ill", "null"}

\* The patterns of a log_id differ: a bundle's and a cosignature's allow a colon in the
\* registry's name, and the log's own an underscore.
BadLogId(k) == IF k = "log_checkpoint" THEN "colon" ELSE "underscore"

\* Without a null: an optional member is left out instead.
Sound(k, member) ==
  ShapeValues(k, member) \
    ({"ill", "null"} \cup (IF TypeOnly(k, member) THEN {} ELSE {"malformed"})
                     \cup (IF member = "log_id" THEN {BadLogId(k)} ELSE {}))

\* A publish response's receipt, and the ctx_id and agent_id of an attestation that has
\* no ctx_id yet.
NotLookedAt(k, member) ==
  \/ k = "publish_response" /\ member = "registry_receipt"
  \/ k = "attestation_body" /\ member \in {"ctx_id", "agent_id"}

\* The nulls that the checks let pass: supersedes, required to be there, and what then
\* counts as absent.
NullPasses(k, member) ==
  \/ k \in BodyKinds /\ member = "supersedes"
  \/ k = "embedded" /\ member = "content_hash"
  \/ k = "revocation" /\ member = "revoked_key_controller"
  \/ NotLookedAt(k, member)

ValuePasses(k, member, value) ==
  \/ value \in Sound(k, member)
  \/ value = "null" /\ NullPasses(k, member)
  \/ value = "ill" /\ NotLookedAt(k, member)

\* A bundle may also carry members that begin with an underscore.
Tolerated(k, member) ==
  Shapes[k].open \/ member \in Known(k) \/ (k = "bundle" /\ member = "_note")

-----------------------------------------------------------------------------
(* How members depend on each other *)

Has(o, member, value) == member \in DOMAIN o /\ o[member] = value

\* Only the first version supersedes nothing.
Supersession(o) == o.version = "1" <=> o.supersedes = "null"
\* An audience goes with restricted, must not with public, and may with private.
Audience(o) ==
  /\ o.visibility = "restricted" => Has(o, "audience", "good")
  /\ o.visibility = "public" => ~Has(o, "audience", "good")

Rules(k, o) ==
  CASE k = "request" ->
         Supersession(o) /\ Audience(o) /\ ("lineage_id" \in DOMAIN o => o.version # "1")
    [] k = "body" -> Supersession(o) /\ Audience(o)
    [] k = "data_ref" -> ("location" \in DOMAIN o) # ("embedded" \in DOMAIN o)
    [] k = "capabilities" ->
         /\ Has(o, "supports_idempotency_key", "true") => "ttl" \in DOMAIN o
         /\ o.acdp_version = "0.3.0" => Has(o, "supports_idempotency_key", "true")
    [] k = "context" -> "event_receipts" \in DOMAIN o => "lifecycle_events" \in DOMAIN o
    [] k = "attestation" ->
         /\ o.public_key_jwk = o.key_fingerprint /\ o.key_fingerprint = o.key_id
         /\ o.not_after = "good"
    [] k = "attestation_body" ->
         /\ o.visibility = "public" /\ o.version = "1" /\ o.supersedes = "null"
         /\ ~Has(o, "signature", "keyless") /\ "key_attestation" \notin DOMAIN o
         /\ Has(o, "ctx_id", "good") => Has(o, "agent_id", "good")
    [] k = "revocation" -> o.visibility = "public"
    [] k = "pinned" -> ~Has(o, "snapshots", "two documents at one instant")
    [] k = "trust_list" -> o.valid_until = "good"
    [] k = "trust_entry" -> o.registry_did = o.origin
    [] k = "record" -> o.salted = "false" => o.embedded = "true"
    [] OTHER -> TRUE

Accepts(k, o) ==
  /\ Shapes[k].required \subseteq DOMAIN o
  /\ \A member \in DOMAIN o : Tolerated(k, member)
  /\ \A member \in DOMAIN o \cap Known(k) : ValuePasses(k, member, o[member])
  /\ Rules(k, o)

-----------------------------------------------------------------------------
(* Objects, one edit at a time *)

Least(k) ==
  [member \in Shapes[k].required |->
     CASE member = "supersedes" -> "null" [] member = "version" /\ k \in BodyKinds -> "1"
       [] member = "visibility" -> "public"
       [] member = "acdp_version" /\ k = "capabilities" -> "0.2.0"
       [] member \in {"salted", "embedded"} -> "true" [] OTHER -> "good"]

Put(member, value) ==
  /\ ~Has(object, member, value)
  /\ object' = [m \in DOMAIN object \cup {member} |-> IF m = member THEN value ELSE object[m]]

Leave(member) ==
  member \in DOMAIN object /\ object' = [m \in DOMAIN object \ {member} |-> object[m]]

EditShape ==
  /\ edits < MaxEdits /\ edits' = edits + 1 /\ UNCHANGED kind
  /\ \/ \E member \in Known(kind) : \E value \in ShapeValues(kind, member) : Put(member, value)
     \/ \E member \in {"note", "_note", "key_attestation"} \ Known(kind) : Put(member, "good")
     \/ \E member \in DOMAIN object : Leave(member)

ShapeInit == kind \in DOMAIN Shapes /\ object = Least(kind) /\ edits = 0
ShapeSpec == ShapeInit /\ [][EditShape]_shapeVars

-----------------------------------------------------------------------------
(* Properties *)

Without(o, members) == [m \in DOMAIN o \ members |-> o[m]]

\* A request as the registry serves it: with the fields it assigns.
Served(o) ==
  [m \in DOMAIN o \cup RegistryAssigned |-> IF m \in RegistryAssigned THEN "good" ELSE o[m]]

\* A body as it was published: a request has no lineage_id unless it supersedes.
AsPublished(o) ==
  Without(o, (DOMAIN o \ Known("body")) \cup
             IF o.version = "1" THEN RegistryAssigned ELSE RegistryAssigned \ {"lineage_id"})

\* What may be published may be served, and what may be served, but for the members
\* nobody knows, was publishable.
WhatIsServedIsPublishable ==
  /\ (kind = "request" /\ Accepts("request", object)) => Accepts("body", Served(object))
  /\ (kind = "body" /\ Accepts("body", object)) => Accepts("request", AsPublished(object))

\* What was checked when it was admitted passes the check of what reads it, but for
\* the checkpoints of a log whose name has a colon.
WhatIsAdmittedIsRead ==
  Accepts(kind, object) =>
    CASE kind = "registry_receipt" -> Accepts("receipt", object)
      [] kind = "checkpoint" ->
           /\ object.log_id # "colon" => Accepts("log_checkpoint", object)
           /\ Accepts("witnessed", Without(object, {"checkpoint_version", "signature"}))
      [] kind = "oidc" -> Accepts("listed_oidc", object)
      [] kind = "spiffe" -> Accepts("listed_spiffe", object)
      [] OTHER -> TRUE

\* What the schemas let a registry serve is what they let a producer publish, and what
\* they let into a bundle or an attestation is what its readers accept.
ShapeChecksAgree == WhatIsServedIsPublishable /\ WhatIsAdmittedIsRead
=============================================================================
