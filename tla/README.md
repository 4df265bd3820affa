# Verification of acdp-verifier-py

TLA+ models of `acdp_verifier`, the Python implementation of the ACDP
verification core: specifications of its components, TLC configurations that
check them on small instances, and theorems proved with TLAPS. Paths are
relative to the repository.

`acdp_verifier` is a library. It does no I/O, starts no threads and reads no
clock. What makes it hard is elsewhere: it keeps state between calls (the recall
consumer), it is run by a caller that fails, restarts and overlaps its requests,
it judges evidence that several parties produced at different times and in any
order, and it walks graphs and streams that others shape. The models therefore
put each component next to the parties it depends on: a registry that records
changes, an issuer that signs lists, a log that shows two histories, an agent
whose stream loses chunks, a relay that recombines what it has seen, a bundle of
contexts that may hold any graph.

## Inventory

| component | state it keeps | operations | interacts with | what is hard | what makes it correct |
|---|---|---|---|---|---|
| Recall consumer (`recall.py`) | cursor, processed seqs, at_head, results | request_params, on_hint, on_page, retry_smaller, on_error | registry feed; the caller's `evidence_for`, `reverify`, persistence | at-least-once delivery, sequence resets that reuse seqs, expired cursors, hints that overlap polls, callbacks that raise, crashes | no change of a watched context is passed over without a verdict; dedup never swallows another change; resync only when needed; the head is reached |
| Chain walk (`chain.py` `_walk`, `_cycle_nodes`, `_shortest_paths`) | breadth-first frontier, depths, edges, cuts; Tarjan's stacks; best paths | verify_chain's graph part | the bundle's `derived_from` graph | cycles, joins, three limits that interact | nothing reachable vanishes without a trace; limits hold; cycles are exactly found; every node has its first shortest path |
| Chain passes (`chain.py` `_Pass`, `_verdict`, `_drift_kinds`) | caches of receipts and revocations | node, retraction_stage, revocation_stage, log_stage, snapshot selection, horizon, drift | receipts, DID snapshots, lifecycle events, revocations, keyless attestations, log | two passes over evidence that keeps arriving; dates after T leaking into the as-of pass | an as-of verdict depends only on evidence dated by T; a drift that is reported happened |
| Trust lists (`trustlist.py`) | the floor (persisted by the caller) | validate_list_version, select_version, advance_floor, evaluate_body, report | an issuer, several registries, a restart | rollback, equivocation, retraction, windows, entries that overlap | the highest serial decides; no rollback across restarts; an as-of decision replays; trust rests on one entry of one list |
| Transparency log (`translog.py`) | none | Merkle roots, inclusion and consistency proofs, checkpoints | registry log | trees that are not powers of two | a proof verifies iff the tree is what it says |
| Witness cosignatures (`cosignature.py`) | none | verify_cosignature, evaluate_quorum | witnesses, checkpoints | one witness counted twice, two views of a log | what reaches a quorum is one history |
| Keyless identities (`keyless.py`) | none | verify_keyless, supersession table | attester, controller's document, receipts, retractions | windows, order of steps, evidence that is not available | a withdrawn or revoked key never passes; missing evidence never clears; the same reading as the chain's |
| Key revocation (`revocation.py`) | none | shape, not self-signed, boundary, class | bodies and receipts, chain passes | who may set the boundary; the boundary instant | a signature placed before the owner's boundary, and only that, survives |
| Registry and head receipts (`receipts.py`, `headreceipt.py`) | none | verify_receipt, verify_head_receipt | body pipeline, chain passes | bindings between receipt, body and retrieval | only what was published verifies, in its place and at its time |
| A2A artifacts (`a2a.py`) | chunks being assembled | assemble_chunks, verify_artifact, artifact_status | an agent's stream, lifecycle evidence, the feed | streams that start again or lose a chunk; entries out of order | the assembled artifact is what was completed; the status is that of the evidence, in any order |
| MCP tool results (`mcp.py`) | none | verify_tool_result | a proxy's records | results, links and bodies of different calls | a result is accepted only as that of its call |
| Seam decisions (`seamdecision.py`) | none | preimage, verify_anchor | a disclosed record | framing of slots | a match means the sealed slots |
| Body pipeline (`verify.py`, `hashing.py`, `signing.py`), keys (`didkey.py`, `didweb.py`, `base58.py`, `fingerprint.py`) | none | schema, hash, binding, resolution, signature | used by every other part | key rotation, whose key it is | a body that verifies was signed by its agent |
| Structural validation (`validation.py`, `evidence.py`, the shape checks of the others) | none | closed-schema predicates | publishing, bundles, every reader | one object checked by two validators | what may be served was publishable; what is admitted is readable |
| Encodings (`jcs.py`, `base58.py`), `timeutil.py`, `errors.py` | none | canonical text, base58, timestamps | hashes, keys | numbers, escapes, key order, leading zeros | two values never share a text, integers being doubles |
| Conformance runners (`*_conformance.py`, `interop_check*.py`) | none | drive the library over a fixture pack | - | - | not modelled |

The hazards, each at its line and with the properties that cover it, are listed
in `PROJECT.json`.

## Modules

| module | models | role |
|---|---|---|
| `RecallFeed` | `RecallConsumer`, the registry's feed and the caller | component |
| `RecallContract` | what a recall consumer promises | abstract specification; `RecallFeed!KeepsContract` states the refinement |
| `ChainWalk` | `_walk` | component |
| `CycleNodes` | `_cycle_nodes` | component (iterative Tarjan) |
| `TaintedPaths` | `_shortest_paths` | component |
| `ChainGraph` | the three in the order `verify_chain` runs them | composition |
| `PassEvidence` | `_Pass.admits`, `_Pass.select_snapshot` | operators every stage of a pass uses |
| `LifecyclePass` | `_Pass.event_checks`, `_Pass.retraction_stage`, the registry and the collector of the bundle | component |
| `NodePass` | `_Pass.node` with its key, receipt, revocation and discovery stages, `_verdict` | component, extends `LifecyclePass` |
| `ChainDrift` | `_horizon`, `_drift_kinds` | component, extends `NodePass` |
| `TrustSeries` | `select_version`, `advance_floor`, an issuer, registries, restarts | component |
| `TrustReport` | `validate_list_version`, `evaluate_body`, `_entry_outcome` | component |
| `FixedOrder` | "the first failing step decides" | operators of every verifier that reports a reason |
| `KeylessIdentity` | `verify_keyless`, a registry that attests, a controller, whoever revokes | component |
| `KeylessNode` | the same body in `_Pass` (`keyless_key`, `keyless_placed`, `withdrawal`) | second reader of the world of `KeylessIdentity` |
| `MerkleTree` | `translog.py`: roots, paths, both verifiers | recursive functions |
| `WitnessPolicy`, `WitnessContract` | what a quorum of witnesses promises | abstract specification |
| `WitnessedLog` | a log with two views, its witnesses, `evaluate_quorum`, `verify_log_inclusion` | component; `KeepsWitnessContract` states the refinement |
| `SignedContext` | `verify_context_body`, `verify_receipt`, `verify_head_receipt`, `revocation.py`, key resolution | component |
| `ArtifactHolder` | `assemble_chunks`, `verify_artifact` and the agent's stream | component |
| `ArtifactStatus` | `artifact_status` over retrievals, bundles and `verify_change` | component |
| `ToolResult` | `verify_tool_result`, proxies and publishers | component |
| `SeamDecision` | `preimage_v4`, `verify_anchor` | component |
| `WireShapes` | `validation.py`, `evidence.py`, and the shape checks of the other modules | component |
| `Encodings`, `Base58` | `jcs.py`; `base58.py` | component; recursive functions |
| `RecallFeedProofs` | | theorems about `RecallFeed`, the refinement of `RecallContract` included |
| `ChainGraphProofs` | | theorems about `ChainWalk`, and about `CycleNodes`, `TaintedPaths` and `ChainGraph` |
| `NodePassProofs` | | theorems about `LifecyclePass`, `NodePass` and `ChainDrift` |
| `TrustSeriesProofs` | | theorems about `TrustSeries` and `TrustReport` |
| `VerifierProofs` | | theorems about `ToolResult`, `SignedContext`, `KeylessIdentity` and `KeylessNode`, `ArtifactHolder`, `ArtifactStatus`, `SeamDecision` and `WireShapes`, a section each |
| `EncodingProofs` | | theorems about `Encodings` and `Base58` |
| `TransparencyLogProofs` | | theorems about `MerkleTree`, `WitnessContract` and `WitnessedLog`, the refinement included |
| `FixedOrderProofs` | | lemmas the others share: numbers, and `FixedOrder` |
| `MC*` | | instances for TLC |

`MCPasses`, `MCTrust` and `MCVerifiers` hold several worlds that share nothing. A
behaviour has one subject, chosen in its initial state: that world moves, the
others stand. Each property is checked as the component states it. So one run answers
the questions of several small components without their product.

Operators marked "Faulty variant" are not part of any specification: each is a
definition with one plausible bug, listed in `PROJECT.json` under `mutants`. Put
in the place of the right one, it makes TLC find the named property violated;
this shows that the property can fail on an instance of that size.

### RecallFeed

A change is named by its place in `changes`, all the registry ever recorded; the
code sees only `seq`, which starts again when the registry resets its sequence.
`on_page` and `on_error` call back into the caller for every entry and every
watched context, and the registry keeps moving while they do; so each is cut at
exactly those points.

| code | action |
|---|---|
| `request_params`, `on_hint` (both pull from the own cursor) | `Pull`, `PullRefused` |
| `accepts_page`, `retry_smaller` | `AcceptsPage`, `RetrySmaller` |
| `on_page`: start, one entry, end | `BeginPage`; `SkipProcessed`, `SkipNeighbour`, `VerifyAccept`, `VerifyReject`; `EndPage` |
| `on_page` when `evidence_for` or `reverify` raises | `FailPage` (`EvidenceRaises`, `ReverifyRaises`) |
| `on_error`: no resync, resync, one context, the end, a raise | `IgnoreError`, `BeginResync`, `ReverifyWatched`, `EndResync`, `FailResync` |
| the caller's persistence, a restart | `Persist`, `Crash` |
| registry (external) | `Record`, `ResetSequence`, `ExpireCursors`, the pages of `Answers` |

`verify_change` is its outcome: a valid entry is accepted, or rejected because
the evidence lags; a forged or malformed one is rejected; all but a malformed one
name a context that is then re-verified. Pages may repeat the entry before the
cursor, may be shorter than asked, and come in any order of entries. The history
variables `seen`, `gaps`, `checks` serve the properties alone. When `reverify` raises, its
entry has been verified (`recall.py:580`) and is not yet in `processed` (line 589), so
the retried page verifies it again: `checks` counts the calls for each change and those that
such a raise undid, and `VerifiedOnce` allows one call and one more for each of these.

### ChainWalk, CycleNodes, TaintedPaths, ChainGraph

A context is a natural number; sorting by UTF-8 bytes becomes the order of
numbers. `ChainWalk` takes one step per root and per reference. `phase` follows
the function (roots, levels, done); `level`, `next`, `current`, `node`, `at` are
the loop variables. `CycleNodes` keeps index, low link, Tarjan's stack and the
explicit work stack of the iterative code; successors are taken in any order,
since the code takes them from a set. `TaintedPaths` keeps the path lists and the
ring being extended. `ChainGraph` runs them one after the other on the same walk.

### TrustSeries

The issuer publishes copies of versions, mirrors a version to another registry,
retracts a copy; time passes. The consumer is served any part of what was
published and of what was retracted (`Evaluate`), persists the floor (`Persist`)
and restarts (`Crash`); `retains` says whether the caller keeps all it was ever
served. The issuer may equivocate and may publish lower serials later, but dates
what it signs honestly (`issued = now`): without this no as-of decision could be
final. `Select` is `select_version` for both passes, in the order of its checks.
`Usable` can be empty with nothing withdrawn only below the floor, which
`Rollback` has already refused: the second `"rollback"` of `trustlist.py:381` is
never returned, and `TypeOK` would allow it.

### PassEvidence, LifecyclePass

`Retraction(bundle, pass)` is `retraction_stage` for one context, whole: it calls
`EventChecks` (`event_checks`, with `SignatureOk` and `ReceiptTime` for
`event_signature_ok` and `event_receipt_time`), which resolve keys through
`Selected` (`select_snapshot`). A pass is its T, or `Latest`, and
`require_attested_events`. It is a function of the bundle; the state machine
around it is the world that fills the bundle, all of it external:

| action | stands for |
|---|---|
| `Tick` | time passes; with `Slips` the registry's clock is set back meanwhile |
| `Rotate` | a producer or registry replaces the key in its DID document, and keeps the old one in `verificationMethod` or drops it |
| `Observe` | the collector observes a DID document (`did_documents`), or pins it (`pinned.snapshots`) |
| `Accept` | the registry accepts an event, signed or unsigned, with a receipt, or without and perhaps dated back |

The receipt's steps 1 to 6 and the event's identity checks compare fields that an
honest registry copies; they always agree here. A key identifier stands for the
key, an algorithm is not told apart. The registry keeps events and receipts in the
order of acceptance, one receipt slot per event, and the collector has retrieved
all of them. `basis` and `evidence_time` of the stage are left out.

### NodePass

`Node(b, pass)` is `_Pass.node` for a context that is in the bundle and was signed,
at `Created`, with the producer's first key. Its operators follow the methods:

| code | operator |
|---|---|
| `resolve_key`, `_verify_receipt`, `_key_stage` | `Located`, `ReceiptStage`, `KeyStage` |
| `_revocation` | `Verified`; `Unevaluable` for one with a keyless signer |
| `keyless_key` with `signer_only` | `KeylessUnevaluable` |
| `revocation_stage`, `_discovery_stage` | `Fingerprint`, `Applicable`, `Placed`, `RevocationStage`, `Discovery` |
| `node`, `_verdict` | `Node`, `Verdict`, `Caveats` |

The world of `LifecyclePass` goes on around it, and in it anyone may publish a
revocation (`Revoke`: the producer, its registry, a stranger with a `did:key`) and
a vantage may search for revocations (`SearchFor`). All signatures verify and all
bodies hash to what they claim; a receipt's bindings hold, so its step 5 never
fails. No attester is pinned, the default, so a keyless signer is either
unevaluable or invalid, never resolved. `ok` and `ok_with_caveats` are one
verdict, the caveats stand beside it; `observed_basis` and the log's caveat are
left out with the bases and the log stage, and so are nodes that are not in the
bundle or not yet published at T.

### ChainDrift

`Horizon(b)` is the latest date of what `_horizon` counts: receipts, acceptances, searches and
observed documents, but not the pinned ones (`chain.py:1399`). `DriftKinds(b, t)` is what
`_drift_kinds` names when the as-of pass for t and the latest pass disagree. The
world is that of `NodePass` with its lifecycle events. There is no log in it, so
neither checkpoints nor the log stage.

### TrustReport

`Outcome` is what the selected lists say of a body: `_entry_outcome` for every
entry of every pinned list, the best rank wins, and of equals the first. `lists`
changes as versions are served by issuers and by others, as windows close, and as
the consumer learns which profiles a registry has. The selection among versions is
`TrustSeries`; the members of a list's metadata are one flag here (`sound`) and
are spelled out in `WireShapes`.

### KeylessIdentity, KeylessNode

The body was signed with the first ephemeral key. `VerifyKeyless(ev)` is
`verify_keyless` as a function of the evidence: `ChecksOf` are the facts that
`_check` collects, `Decide` the fixed order, `Classify` what each revocation
counts for, `RevocationClass` the class. `ReadKeylessNode(ev)` is what the chain
verifier makes of the same evidence by other code. The evidence is assembled from
a world in which a registry rotates its key, withdraws and restores the
attestation, a controller rotates and lists workloads, and ten kinds of voices
revoke the key. Attestations verify; what a body may be (bound to another
attestation, forged, under another registry's receipt) is a choice at its
publication.

### MerkleTree, WitnessedLog, WitnessContract

A hash is the term that is hashed, so trees of different content have different
roots. The registry shows two views that part at some entry. A witness, honest if
it is in `Honest`, cosigns a checkpoint that `VerifyConsistency` accepts as a
continuation of the one it cosigned last; other witnesses cosign anything. The
consumer evaluates the quorum over all cosignatures in circulation and checks
inclusion proofs, honest ones and ones with a node too few or too many.
`WitnessContract` forgets trees and proofs: a witness names histories, an honest
one only such as continue those it named. `WitnessedLog` refines it by the
histories under the roots that were cosigned.

### SignedContext

A hash is what it is a hash of, a signature is who made it over what. An owner
publishes versions and rotates its key, a thief signs with the key it stole, the
registry issues receipts and head receipts and rotates its own, a relay serves any
recombination of bodies, receipts, head receipts and fields it has seen, and
issues its own. `VerifyContextBody`, `VerifyReceipt`, `VerifyHeadReceipt` are the
procedures step by step; `ClassifyRevoked` over what `Counts` is
`revocation.py`.

### ArtifactHolder, ArtifactStatus, ToolResult, SeamDecision

`ArtifactHolder`: an agent streams two artifacts in chunks, may start one again,
may complete it; a chunk may be lost; the link may be failed, lack its salt or
name another body. The holder assembles (`Join`, after `assemble_chunks`) and
verifies in the code's order. `ArtifactStatus`: the holder's retrieval, bundle and
feed entries were taken at different moments and come late, twice, or false; several later
versions may claim to supersede the body, and the retrieval names one of them or none.
`ToolResult`: trusted proxies record calls, anybody publishes, and whoever stands
between mixes results, links and bodies. `SeamDecision`: of eighteen slots there is
one of each kind; the preimage is a sequence of bytes, built as the code builds it.

### WireShapes

An object is a function from the members it has to what is known of their values.
`Shapes` names every shape that `validation.py` and `evidence.py` check, and those
that the readers check on their own: receipts, checkpoints, witnessed checkpoints,
keyless identities and attestations, revocations, trust lists and their entries,
artifact records, feed entries, and the options of `verify_chain`. `Rules` are the
dependencies between members. Objects are built from the least one of their kind
by `MaxEdits` edits. `ShapeChecksAgree` compares those that two validators check; the
others record what each reader asks of its input and are used by no property.

### Encodings

A text is a sequence of tokens, one for a character, a digit, a punctuation mark or a
literal; the decimal number after an exponent's sign is one token too. `Text(v)` is the
canonical text of a JSON value, `Meaning(v)` the value without the order of insertion and
the sign of zero. `_serialize` calls itself on what a value contains, so both are defined by
how deep values are nested: `Texts[depth]` maps each value of `Nested[depth]` to its text
(`TextOf`), given the texts one level down. `format_number` is modelled digit by digit
(its input, the shortest decimal of a double, comes from Python's `repr` and is given). An
integer is rounded to a double first (`jcs.py:81-88`): `Nearest` gives the double for
each integer there is, is a constant of the model, and may give several integers
the same one, as `float` does from 2^53 on. So `Meaning` of an integer is its double: 2^53 and
2^53 + 1 are one value, have one text (`tests/test_jcs.py:64`) and one hash. An integer
beyond the range of a double is refused with all that contains it; such a value is not in `Nested`.
Members are sorted by counting: the member that comes i-th is the one with i - 1 smaller
names (`Place`), and names are compared by their UTF-16 units (`Less`), where a character
beyond the basic plane has two. A digit is the same token in a number and in a string; the
quote, the backslash and the control characters have tokens that no digit has. Lone
surrogates, at which `_utf16_sort_key` and `canonicalize` raise, are not `Chars`. `Base58`
has `b58encode` and `b58decode` over byte strings: both read digits as a number, write
it in the other base and carry the leading zeros over by their count, which is
`Rebase`. A character outside the alphabet, which `b58decode` refuses, is not a digit.

## Runs

| run | question | bounds, and why they are enough |
|---|---|---|
| `recall_sequential` | does a caller that waits for each answer miss nothing, and keep the contract? | three changes, two sequences, one fault (lost answer, refusal, crash), a page of two: the third change is the first that can follow a reset and a duplicate; entries of neighbours are left to the other runs |
| `recall_forms` | forged and malformed entries, callbacks that raise | two changes, two sequences, all forms, one fault, one entry per page, so that every page is retried smaller |
| `recall_overlap` | a hint's pull overlaps a poll | two answers in flight, two changes, one sequence: stale answers come after fresh ones |
| `recall_live` | does every change get heard, and the head reached? | two changes, two sequences, pages that are too large, one fault |
| `recall_interrupted` | is "the cursor advances only after all of it" enough? No | three changes, pages of two, one callback that raises |
| `chain_graph` | limits, depths, nothing dropped, cycles, paths; does it end? | every bundle over three contexts with seven bodies (chains, joins, self references, cycles), every set of roots, four settings of the limits: none, and each alone, in the way. Besides, chains of four contexts below two roots: the smallest bundles in which one context is reached at two depths, so that depth-first order would show. Successors are taken in any order |
| `trust_lists` | rollback, fallback, equivocation, replay; on what does trust rest? | series: two serials, three copies, one retraction, two registries (symmetric), three moments, one window that opens one moment after the issue, so that two lists under one serial fit, one withdrawn and one expired. Report: two pins, one with pinned keys; five entry lists that overlap in origin, keys, profiles, window and agents; versions by the issuer, by another in its name, under another key, revoked or unknown |
| `passes` | is an as-of node final, does a refusal hold, is a hint only a hint? is an as-of reading of the events final, and does the latest pass admit at least as much? are drifts real? | three worlds. Node: two moments, so one T in the past; two keys each, two documents of the producer; two revocations or searches. Retraction: two events, three moments, a producer with two keys: a key is rotated between two observations, and an event accepted under either is read at each moment. Drift: a little of each, with keys that stay, and documents that are observed or pinned. In the node world a document is pinned only at a moment at which one was observed (`PinnedBesideObserved`) |
| `lifecycle_clock` | is evidence dated after T nothing to the as-of pass? No | two events over four moments, with a clock that falls back by two: two receipts after T, the second dated before the first |
| `node_keyless` | can what comes after T turn a node that was not accepted as of T into one that is? Yes | as the node of `passes` |
| `verifiers` | does each verifier accept exactly what was made? | nine worlds. Log: up to six entries (every shape of tree up to a right edge of two levels), three witnesses of which two are trusted and one of these honest, a quorum of two, four cosignatures. Keyless: two keys each, two words (events or revocations), ten voices. Context: two published, one head, two statements, three moments. Artifact: two artifacts, three chunks, five holders. Status: two events, two entries, two later versions; what is heard is compared with every order and repetition of it up to three entries. Tool: two bodies. Seam: three strings, so that bytes can move between slots. Shapes: two edits away from the least object. Encodings: numbers around both thresholds of the exponent, integers at 2^53 of which two have one double, values nested two deep (`Depth`), bytes at the edges of the alphabet |
| `keyless_historical` | can a receipt under a registry key no longer current place a keyless body before the boundary? Yes | as the keyless world of `verifiers` |

`CHECK_DEADLOCK FALSE` stands in the configurations of the walk, which really
ends, and of the worlds whose bounded events run out.

### Fairness

`recall_live` assumes `WF_vars(Consumer)`: a caller that keeps polling, finishes
the page or the resync it has begun, and is answered. It owes nothing for faults,
resets, expiry, recording or persistence; they are bounded instead. A weaker
assumption would only say that a caller which stops polling learns nothing. `chain_graph`
assumes `WF_allVars(GraphNext)`: the walk and both searches are loops with no wait
in them. Nothing is assumed of the other worlds: their properties are invariants
and step properties.

### What the runs show

- **Recall.** Without overlap and without exceptions inside `on_page`, nothing is
  missed, duplicates are told apart from reused seqs, and the consumer refines
  `RecallContract`. With overlapping pulls over one sequence the cursor may move back,
  but nothing is missed and `at_head` is honest; across a reset of the sequence, overlapping
  pulls do lose a change (see *Theorems*). The interrupted run is a
  finding: `on_page` marks an entry as processed before its result is handed out
  (`recall.py:589`), so an exception on a later entry loses the earlier results, and
  the retried page skips them.
- **Chain walk.** Every root and reference is walked or in the frontier. `complete`
  is about nodes, not edges: a reference at `max_depth`, or past `max_fanout`, to
  a node already walked leaves neither an edge nor a cut (`chain.py:368`), so a
  verdict may be complete and yet not see a cycle that such a reference closes.
  `NoCycleEscapes` therefore assumes that no reference is hidden (`Unhidden`).
- **Lifecycle.** With a registry whose clock never goes back, an as-of reading is final
  (`AsOfIsFinal`): whatever is accepted, observed or rotated later, T is read as it
  was when T had just passed. Where unattested events count
  (`require_attested_events` off), it takes events that are honestly dated as well,
  since such an event is placed by its own `occurred_at` (`chain.py:931`). The latest
  pass admits what the as-of pass of the same moment admits (`LatestAdmitsMore`),
  keys that have left `assertionMethod` included, thanks to the receipts.
  The clock run is a finding: `event_checks` judges the order of all receipts
  (`chain.py:905`), so two receipts dated after T but out of order turn the as-of
  reading into `invalid`, although the pass is documented to look only at evidence
  dated by T (`chain.py:4`).
- **Node.** An as-of node is final as long as no revocation has a keyless signer
  (`NodeIsFinal`). A context refused for a revocation is never accepted as of a
  later time or in the latest pass, even when the producer drops the revoked key
  from its document: the receipt's `key_fingerprint` still names it. This takes a
  registry that keeps the keys of its receipts, and revokers that keep theirs
  (`KeysKept`): a revocation whose signer or receipt no longer verifies is not
  counted, and an older search may then say `not-revoked`. Who does not speak for
  the producer has no say (`HintsAreOnlyHints`).
  Keyless signers are a finding: `keyless_key` asks whether the bundle holds any
  document of the attester, whatever its date (`chain.py:650`), then takes a key it
  does not find in the documents dated by T for a definite failure. So a document
  observed after T turns a revocation that could not be evaluated as of T into
  one that is ignored, and `unknown` into `not-revoked`.
- **Drift.** Where everything published is dated and signed by keys still in use
  (`DatedAndCurrent`), every drift that is named did come after T, if the pass as of T lacked
  no document of the producer (`CameLater`). A pass at the horizon sees all there is but
  for pinned snapshots, which the horizon does not count: it drifts only if all
  documents of some actor were pinned for a later time (`Unseen`), and then
  it may, since the latest pass finds that actor's keys and the as-of pass none. Without the condition it does not hold: a retraction
  signed by a key rotated since is refused as of T (`chain.py:821`), admitted in the
  latest pass, and named `retracted_after_as_of`.
- **Trust lists.** The floor is the only thing the code asks a caller to persist. It
  prevents rollback; it does not remember an equivocation, so `OneListPerSerial`
  holds for a caller that keeps the versions it was served. A
  retraction is about one copy: the same bytes at another registry still count
  (`Mirror`), and decisions that saw the list withdrawn are dropped from the history
  that `AsOfReplays` compares. Trust always rests on one entry alone, and neither a
  further list nor a further entry ever makes an outcome worse.
- **Keyless.** `verify_keyless` and a node of the chain say the same of one body where
  every signature is under a current key and every event is admitted (`AllCurrent`).
  Outside it they differ in four ways, none of which the repository settles:
  `verify_keyless` folds the events that are admitted and skips the others
  (`keyless.py:690`) where the chain stops at the first; a revocation the registry
  signed with a key rotated since; one signed by a rotated key of the controller
  and without a receipt; and one of a revoker whose document cannot be had
  (`keyless.py:519` against `chain.py:690`). Without the controller's document, the attestations
  of those who revoke or the receipts of revocations that the document signs, a refused
  body is never accepted (`LessEvidenceNeverClears`); the receipt of a revocation with a
  keyless signer is no such part, since without it the revocation may be ignored
  (`keyless.py:884`). A refusal lasts until the registry or the controller rotates its keys or,
  after a withdrawal, the attestation is restored (`RefusalLasts`). The historical run is a finding:
  `_registry_key` drops whether the receipt's key is still current (`keyless.py:618`),
  so a historical key places a body, which `revocation.py:138` rules out.
- **Log and witnesses.** Both proof verifiers are exact on every tree of the instance.
  Two checkpoints that reach the quorum are of one history although the registry
  shows two and one of the trusted witnesses is dishonest or not: that is the
  refinement of `WitnessContract`, whose consequence is proved for all values.
- **Bodies and receipts.** Nothing a relay recombines verifies unless it was published
  so. The boundary of a stolen key is set by the owner, or by the registry for it.
- **Artifacts, tool results, seam decisions.** They are accepted if and only if they are
  what was completed, forwarded or sealed. The status of an artifact does not depend
  on the order in which feed entries arrive or on how often, but for `superseded_by`: of
  several accepted later versions the last one heard is named (`a2a.py:667`), and
  `StatusIsUnordered` says only that it is one of them.
- **Shapes.** A publish request is accepted if and only if the body it becomes is. What
  a bundle or an attestation admits passes the check of what reads it, with one
  exception: `evidence.py:88` and `cosignature.py:67` let a `log_id` contain a colon
  and no underscore, `translog.py:63` an underscore and no colon. A checkpoint of a log
  whose `did:web` has a path is admitted with the bundle and cosigned, and its proofs
  never verify; the property leaves such logs aside.
- **Encodings.** Two JSON values have one canonical text if and only if they mean the
  same, an integer being the double nearest to it, and base58 is lossless, leading zeros included.

## Theorems

All proofs are checked by TLAPS to the last leaf, for every value of the
constants that the modules' assumptions allow: any sets of contexts, keys,
statements, documents, artifacts and serials, any limits and bounds.

| module | theorem | states | extra hypothesis |
|---|---|---|---|
| `RecallFeedProofs` | `TypeCorrect` | types | none |
| | `NoneVerifiedTwice` | `VerifiedOnce` | none |
| | `ResyncHasCause` | `ResyncIsNeeded` | `MaxInFlight = 1` |
| | `GapsFollowReverification` | `GapAfterReverification` | `MaxInFlight = 1` |
| | `NoChangeIsMissed` | `NothingMissed` | `~PageMayFail`, `MaxInFlight = 1` or `MaxEpoch = 1` |
| | `SkippedWasTaken` | `DedupIsSound` | the same |
| | `HeadIsCaughtUp` | `CaughtUpAtHead` | the same |
| | `ConsumerKeepsContract` | `KeepsContract`, the refinement | `~PageMayFail`, `MaxInFlight = 1` |
| `ChainGraphProofs` | `WalkTypeCorrect` | types | none |
| | `WalkWithinLimits` | the three limits hold | none |
| | `WalkDepths` | `DepthIsDistance` | none |
| | `NothingIsDropped` | `NothingDropped` | none |
| | `FindsEveryCycle` | `CyclesAreFound` | none |
| | `FindsFirstPaths` | `PathsAreShortest` | none |
| | `NoCycleIsMissed` | `NoCycleEscapes` | none |
| `NodePassProofs` | `PassTypeCorrect` | types | none |
| | `RetractionIsFinal` | `AsOfIsFinal` | none |
| | `LatestPassIsMore` | `LatestAdmitsMore` | none |
| | `NodeTypeCorrect` | types | none |
| | `AsOfNodeIsFinal` | `NodeIsFinal` | none |
| | `RefusalIsKept` | `RefusalHolds` | none |
| | `HintsAreNoMore` | `HintsAreOnlyHints` | none |
| | `DriftsAreReal` | `DriftIsReal` | none |
| `TrustSeriesProofs` | `SeriesTypeCorrect` | types | none |
| | `SeriesNeverRollsBack` | `NoRollback` | none |
| | `SeriesNeverFallsBack` | `NoFallback` | none |
| | `SeriesIsNotEquivocated` | `OneListPerSerial` | none |
| | `SeriesReplays` | `AsOfReplays` | none |
| | `TrustRestsOnOne` | `TrustHasOneGround` | none |
| `VerifierProofs` | `ProvenanceHolds` | `ProvenanceIsExact` | none |
| | `OnlyPublishedPasses` | `OnlyPublishedVerifies` | none |
| | `BoundaryIsTheOwners` | `OwnerSetsTheBoundary` | none |
| | `ReadersAlwaysAgree` | `ReadersAgree` | none |
| | `EvidenceOnlyRefuses` | `LessEvidenceNeverClears` | none |
| | `RefusedForGood` | `RefusalLasts` | none |
| | `HolderIsExact` | `ArtifactsAreExact` | none |
| | `OrderIsNothing` | `StatusIsUnordered` | none |
| | `SeamTellsRecordsApart` | `MatchMeansSealed` | none |
| | `ShapesAlwaysAgree` | `ShapeChecksAgree` | none |
| `EncodingProofs` | `CanonicalTextsAreExact` | what `_serialize` returns | none |
| | `Base58IsExact` | what `b58encode` and `b58decode` return | none |
| | `EncodingsKeepValues` | `EncodingsAreExact` | none |
| `TransparencyLogProofs` | `InclusionIsExact` | what `verify_inclusion` accepts | none |
| | `HandedProofsAreExact` | `ProofsAreExact` | none |
| | `ConsistencyIsSound` | what `verify_consistency` accepts | none |
| | `LogKeepsContract` | `KeepsWitnessContract`, the refinement | none |
| | `QuorumsShareHistory` | `QuorumMeansOneHistory` | none |
| | `QuorumSeesOneHistory` | `OneHistory` | none |

Several properties carry their condition inside (a clock that was never set back,
keys that are kept, no keyless revoker, no reference hidden by a limit); *What
the runs show* says for each why it is needed, and the violated runs show what
happens without three of them.

**Recall.** `NothingMissed` is not inductive: it says nothing of a page that is
still on its way, nor of why a processed seq may be skipped. The argument has two
layers. `FeedInv` holds of every caller: within one epoch a seq names one change
(`SeqNames`); an answer in flight covers everything from where it was asked to where
it leads, its entries and its gap together (`PageSound`); a resync has re-verified
what it no longer lists (`WorkInv`); and a caller that waits has one answer in flight,
asked from the cursor it still holds (`WaitingInv`). On top of it `HeardInv` says that
every processed seq stands for a change of the epoch at hand that was taken
(`DedupInv`), that nothing is unheard behind any cursor the consumer holds, persisted
or sent (`CoveredInv`), and that what has left `todo` was taken (`TakenInv`). This
layer needs callbacks that do not raise, which `recall_interrupted` shows, and
either a waiting caller or a registry that keeps one sequence. The proof cannot do without
this last condition, and the property is false without it: TLC finds it violated when
`RecallOverlap.cfg` is given `MaxEpoch = 2`. Two pulls are under way from a consumer that has no
cursor yet, the registry resets its sequence between them, and the page of the old
sequence is processed first; its seq 1 is then in `processed`, and seq 1 of the new
sequence is skipped, since no error came and nothing cleared it (`recall.py:572`, whose comment
says that dedup is valid "only between resyncs", and `on_error` is the only place that clears it).
`VerifiedOnce` needs neither layer but its own
(`CheckedInv`: a change is verified at most once more than `reverify` raised for it, and, as long as
it is not processed, no more often), and holds of every caller. For the refinement each step is mapped to
one of `RecallContract` or to a stutter; `Grows`, what no step takes back, serves
this and the other step properties.

**Walk.** `WalkInv` adds where the walk stands (`PhaseInv`), that a level holds
nodes of one depth and the next those one deeper (`LevelInv`), that edges leave
visited nodes only, at most one per reference looked at (`FanoutInv`), and that
all references looked at were walked or cut (`AccountInv`).

**Cycles and paths.** `CycleInv` is the invariant of Tarjan's algorithm in the
iterative form of the code, where a node may be on the work stack before it was met
and `low` is brought up only when the callee has returned: no edge leaves a closed
component (`ClosedInv`), `low` names a node on the stack that can be reached
(`LowInv`), every edge looked at that leads to the stack is accounted for in the
`low` of some node still being explored (`ChargeInv`), and an explored node reaches all that
was met since (`ReachInv`). `Reaches` is stated by closed sets, without induction over
paths. `RingAt(d)` says of the path search that the nodes down to depth `d` have the
first of their shortest paths and that the candidates below are the first along the edges looked
at; that it suffices to extend first paths rests on the order being kept by a common
last node. `NoCycleEscapes` needs of the walk which
references left an edge (`RootInv`, `EdgeInv`).

**Passes.** `WorldInv` says that events, receipts and snapshots come in the order of
time where the clock was never set back, and that a key which left a document does not
come back (`KeysGrow`). That an as-of reading is final then rests on lemmas about the code's
operators: the snapshot selected for a time does not depend on later ones
(`SelectedThen`), the prefix of admitted events stops at the first accepted after T
(`PrefixIsAdmitted`, `ByThen`), and checks on more events fail only where checks on
fewer do or on the later ones (`ChecksAreMonotonic`). For a refusal to hold, what counts as of T
counts later (`CountsLater`) and the receipt keeps naming the key (`ReceiptLater`).
`DriftIsReal` was found false by its proof and corrected: a revocation replaces
the key stage (`chain.py:1284`), so a context refused for one is not reported as
`as_of_unprovable` even where its producer's document was not yet at hand, and
`retracted_after_as_of` is then said of a retraction accepted before T, which no pass
could verify as of T. The property now leaves aside a node whose key stage as of T is `unknown`.

**Trust lists.** `SeriesInv` adds that nothing is dated after now (`ClockInv`), that
the floor is over all that was accepted and not over all that was published
(`FloorInv`), and that a retaining consumer still holds what it used (`UsedInv`).
`AsOfReplays` rests on two lemmas about `Select`: a latest decision on all the
evidence equals the as-of decision at that moment (`LatestIsAsOf`), and one more
copy, dated later, does not change it (`OneMoreCopy`). The theorem covers
equivocation within one moment, which the instance of the run leaves out.
`TrustHasOneGround` is about two nested searches for the best rank, over lists and over
entries; `ListIs` and `EvaluateIs` say what they return, for sequences of any
length, and `ReceiptHelps` that a receipt never makes an entry worse.

**Verifiers.** Most of these invariants say that the world is what its actors could
have made (`ContextInv`, `ToolInv`, `CompletedInv`); the proofs then walk through the
steps of a verifier, where `AllMeansPassed` and `FirstToFail` of `FixedOrderProofs` say what
an outcome means. Three need more. `RefusalLasts` compares what a consumer was
told with what it would be told now: `ToldInv` keeps the reason why, through every
rotation, withdrawal and restoration. `ArtifactsAreExact` is about assembly: `HeldInv` says that
the chunks received of an artifact that lost none assemble to what the agent has made
so far, by the lemma that assembling one more chunk is assembling the others and then it
(`AssembleOneMore`). `StatusIsUnordered` is proved by showing that the fold of
`artifact_status` over the entries heard equals a `Summary` of their set and of one of the
versions that its entries name (`SummaryFolds`, `NamedByGrows`); a function of the set
cannot depend on order or repetition. `ReadersAgree` goes
through `Classify` and the chain's stages one by one (`CountsAlike`, `UnknownAlike`,
`RetractedAlike`).

`MatchMeansSealed` is about bytes: two sealed records with the same preimage have the same
slots because a preimage can be read from the front, a frame at a time. A frame gives its
length first (`SameFrame`), a slot that may be absent says so first (`SameOpt`), and what
follows is read on (`PreimageTells`, `SameParticipants` for a list of any length).
`ShapeChecksAgree` compares shapes member by member for an object with any members, so its proof
does not depend on the number of edits that the run makes.

`Base58IsExact` rests on three facts about digits in one of the two bases: a number is what its
digits are read as (`WrittenTells`); digits without a leading zero are those of the number
they are read as (`ReadTells`); and leading zeros change neither the number nor each
other's count (`PaddedNumber`, `LeadingZerosIs`). The inductions go over sequences by
appending (`AllSequences`) and over numbers by their quotients (`AllQuotients`).

`CanonicalTextsAreExact` reads texts from the front. `Tells(A, f, mean, rests)` says of the texts
`f` of a set `A` that a text followed by any of the `rests` determines the meaning of
the element and the rest. `CodeTells` carries this from elements to sequences of them, if no text
can be taken for what ends the sequence; it is used for the escapes of a string
(`EscapesTell`), the UTF-16 units of a name (`Utf16Tells`), the digits of a number
(`DoubleTells`) and the elements between two brackets (`JoinedTells`). A number ends where
a comma or a bracket follows or nothing does, which is all that may follow a value (`Rests`).
That a number's text determines its digits and its exponent is shown layout by layout
(`WholeTells`, `SplitTells`, `FractionTells`, `ScientificTells`), and that two layouts differ by their
points, their leading zeros or their exponents (`FormatDoubleTells`); an integer has the text of
its double (`AsDoubleIs`). For an object, equal members in any
order must come out in the same order: `Before` is a strict total order of names
(`BeforeOrders`), so each place is one name's (`RankIs`, `RankTaken`, `SortedIs`). `Reads(A, T, M)`
joins the two directions, a text determines the meaning and the meaning the text, with how texts
of each kind begin (`Opening`). What holds of the values inside holds of those built from them
(`ReadsBuilt`), and `ReadsNested` goes up the depths. The invariant of `EncodingSpec`
(`EncodedTypeOK`) only adds that what is written is one of the values.

**The log.** The trees are recursive functions over the segments of the leaves; that such a
function exists and obeys its equation is proved once, by extending it one size at a time
(`SomeUpTo`). `NodeAt(n, level, j)` numbers the nodes from the leaves up, the last one of a
level being what is left there; `NodeParts` relates these nodes to the splits at the largest power
of two, which the roots and paths are computed from. Each step of the fold in
`verify_inclusion` then takes exactly one hash of the path and arrives at the node above
(`AscendPaths`), over the levels where the last node has no sibling too (`CarriedUp`), so the
fold has the hash of that node if and only if it began with the leaf and was given the path
(`AscendAgrees`). In `verify_consistency` both hashes climb the right edge of the old tree
(`AscendTraces`), and what they have become at the roots traces back, since a root tells its leaves
(`RootTells`): nothing is assumed of the path. `LogInv` lifts this to the witnesses: what an
honest witness retains continues all it cosigned (`PromiseKept`).

**Witnesses.** `OneHistory` is about quorums and not inductive. `WitnessIInv` adds
`HonestAreConsistent`: of any two histories an honest witness named, one continues
the other. That two quorums share an honest witness (`QuorumsShareHonest`) is counted
from `QuorumAssumption` with the library's facts on cardinalities.

Assumptions on constants are named beside them. Most say what a constant is. Those
that say more: `GoodFaithAssumption`, that the owner and the registry revoke the owner's
key in their own names; `QuorumAssumption`, that two quorums share an honest
witness; `AttestedAssumption`, that attestations have a window which is not empty and bind
a key of their own; `DisjointKeysAssumption`, that producer and registry do not share
keys; `SaltsAssumption`, that the absence of a salt is not a salt; `DigestAssumption`, that the digest
tells apart what is hashed of participants. `EncodingsAssumption` asks that the values be JSON
values of bounded depth, without bounding how long or how deep, and that `Nearest` gives
each integer of the instance a double. TLC evaluates all
of them on the instances.

**Only model-checked.**

- Liveness (`EventuallyHeard`, `EventuallyAtHead`, the end of the walk in
  `EndsWithinLimits`): the prover treats neither fairness nor ENABLED.

Every safety property of a passing run is stated by a theorem.

## Not modelled

- Cryptography, the decoding of keys (JWK, multibase but for base58, AIDs, Cards),
  the syntax of DID documents, regular expressions and timestamp parsing: a value is
  good or it is not.
- `recall.py`: the HMAC of a hint and the bucket hash, which are pure functions. The
  model's registry always sends a numeric `seq`; an entry without one makes
  `int(entry["seq"])` raise before the schema check (`recall.py:571`), listed as a
  hazard without a property.
- `chain.py`: the presence stage, the assembly, digests and bases of the verdict, keys
  pinned by fingerprint. The log stage is modelled as the proofs and the quorum it calls.
- `keyless.py`: the supersession table with `signer_of`, which are pure and called by
  nothing in the library, and the proof of possession.
- `trustlist.py`: the JSON form of the report.
- `cosignature.py`: key resolution and `is_stale`. `seamdecision.py`: the type checks of
  disclosed slots.
- `errors.py` and `timeutil.py`: exception classes are the reasons of the models,
  timestamps are numbers.
- The conformance runners and interop checks: drivers over an external fixture pack,
  without logic of their own.

## Plan

1. `NothingMissed` for pulls that overlap across a reset of the sequence: it fails for two
   pulls of a consumer without a cursor; to be found is the weakest condition on the
   caller under which it holds (a first page that is awaited, for one).
2. The log stage inside `NodePass`, so that checkpoints count for the horizon, and the
   keyless supersession table over a lineage.
