--------------------------- MODULE LifecyclePass ---------------------------
(***************************************************************************)
(* The retraction stage of one context (chain.py event_checks and          *)
(* retraction_stage, sections 7.8 and 10.3), read at any time from the     *)
(* bundle that has come together by then: the events its registry accepted, *)
(* their receipts, and the DID documents that were observed of the producer *)
(* and of the registry, both of which rotate their keys.                   *)
(***************************************************************************)
EXTENDS PassEvidence, FiniteSets

CONSTANTS
  Keys,          \* for each actor the keys it may come to use, first to last
  Types,         \* the event types that occur
  MaxEvents, MaxTime,   \* bounds of the model
  MaxSnapshots,  \* for each actor, how many of its documents are observed
  Pins,          \* whether snapshots are pinned, observed, or either
  Slips          \* how far the registry's clock may fall back at a time

Actors == {"producer", "registry"}
EventTypes == {"retracted", "republished", "other"}

ASSUME KeysAssumption ==
  \A actor \in Actors : Keys[actor] \subseteq Nat \ {NoKey} /\ Keys[actor] # {}
ASSUME TypesAssumption == Types \subseteq EventTypes
ASSUME PinsAssumption == Pins \subseteq BOOLEAN
ASSUME SlipsAssumption == Slips \subseteq Nat

Created == 1   \* body.created_at

VARIABLES
  now,
  lag,      \* how far the registry's clock is behind
  docs,     \* each actor's DID document as published now
  bundle    \* the evidence: lifecycle events with their receipts, and snapshots

vars == <<now, lag, docs, bundle>>

NoReceipt == [at |-> NoTime, key |-> NoKey]
Receipt == [at : Nat, key : Keys["registry"]]

\* `when` is the moment the registry really accepted the event.
Event == [type : Types, actor : Actors, key : (UNION {Keys[actor] : actor \in Actors}) \cup {NoKey},
          occurred : Nat, when : Nat, receipt : Receipt \cup {NoReceipt}]

\* A pass: its T, or Latest, and require_attested_events.
Passes == [asOf : Nat \cup {Latest}, required : BOOLEAN]
IsLatest(pass) == pass.asOf = Latest

-----------------------------------------------------------------------------
(* event_checks *)

\* event_receipt_time: the receipt's date, if its signature verifies in this pass and
\* it is not older than the body.
ReceiptTime(e, registryDoc) ==
  IF e.receipt.key \in registryDoc.methods /\ Created <= e.receipt.at
  THEN e.receipt.at ELSE NoTime

\* A key that has left assertionMethod.
\* Faulty variant: a receipt makes up for it in the wrong pass.
HistoricalAsOf(receipted, pass) == ~IsLatest(pass) /\ receipted
HistoricalCounts(receipted, pass) == IsLatest(pass) /\ receipted

\* event_signature_ok: a registry's key need only be in verificationMethod.
SignatureOk(e, doc, receipted, pass) ==
  /\ e.key \in doc.methods
  /\ e.actor = "registry" \/ e.key = doc.current \/ HistoricalCounts(receipted, pass)

Docs(b, pass) ==
  [producer |-> Selected(b.archive["producer"], pass.asOf),
   registry |-> Selected(b.archive["registry"], pass.asOf)]

EventChecks(b, pass) ==
  LET doc == Docs(b, pass)
      time == [i \in DOMAIN b.events |-> ReceiptTime(b.events[i], doc["registry"])]
  IN  [i \in DOMAIN b.events |->
         LET e == b.events[i]
         IN  [signatureOk |-> SignatureOk(e, doc[e.actor], time[i] # NoTime, pass),
              unsigned |-> e.actor = "registry" /\ e.key = NoKey,
              acceptedAt |-> time[i]]]

\* Step 8: over the receipts that verify, whatever their date.
Monotonic(checks) ==
  \A i, j \in {k \in DOMAIN checks : checks[k].acceptedAt # NoTime} :
    i < j => checks[i].acceptedAt <= checks[j].acceptedAt

-----------------------------------------------------------------------------
(* retraction_stage *)

Attested(check) == IF check.unsigned THEN check.acceptedAt # NoTime ELSE check.signatureOk

DatedBy(e, check, pass) ==
  IF check.acceptedAt # NoTime THEN check.acceptedAt <= pass.asOf
  ELSE ~pass.required /\ e.occurred <= pass.asOf

AdmittedEvents(es, checks, pass) ==
  {i \in DOMAIN es : Attested(checks[i]) /\ (IsLatest(pass) \/ DatedBy(es[i], checks[i], pass))}

\* How many events stand before the first that is not admitted.
Prefix(es, admitted) == Cardinality({i \in DOMAIN es : 1..i \subseteq admitted})

RetractedAfter(es, n) ==
  \E i \in 1..n : /\ es[i].type = "retracted"
                  /\ \A j \in (i + 1)..n : es[j].type # "republished"

Stage(value, admitted) == [value |-> value, admitted |-> admitted]

Retraction(b, pass) ==
  LET es == b.events
      checks == EventChecks(b, pass)
      admitted == AdmittedEvents(es, checks, pass)
      n == Prefix(es, admitted)
  IN  IF ~Monotonic(checks) THEN Stage("invalid", 0)
      ELSE IF ~IsLatest(pass) /\ admitted \ (1..n) # {} THEN Stage("unknown", n)
      ELSE Stage(IF RetractedAfter(es, n) THEN "retracted" ELSE "not_retracted", n)

-----------------------------------------------------------------------------
(* The registry, the producer and the collector of the bundle (external) *)

\* Time passes; meanwhile the registry's clock may be set back.
Tick(slip) ==
  /\ now < MaxTime
  /\ lag + slip <= now
  /\ now' = now + 1
  /\ lag' = lag + slip
  /\ UNCHANGED <<docs, bundle>>

\* The old key stays in verificationMethod, or goes.
Rotate(actor, k, keeps) ==
  /\ \A j \in docs[actor].methods : j < k
  /\ docs' = [docs EXCEPT ![actor] = [current |-> k,
                methods |-> {k} \cup IF keeps THEN docs[actor].methods ELSE {}]]
  /\ UNCHANGED <<now, lag, bundle>>

\* A document is observed for the bundle or pinned by the verifier, for the moment at
\* which it is published; seen twice at one time it is seen once, and two snapshots that
\* are pinned for one time are one.
Observe(actor, pins) ==
  LET s == bundle.archive[actor]
      snapshot == [at |-> now, pinned |-> pins, doc |-> docs[actor]]
  IN  /\ Len(s) < MaxSnapshots[actor]
      /\ \A i \in DOMAIN s : s[i] # snapshot /\ ~(pins /\ s[i].at = now /\ s[i].pinned)
      /\ bundle' = [bundle EXCEPT !.archive[actor] = Append(@, snapshot)]
      /\ UNCHANGED <<now, lag, docs>>

\* The registry accepts an event: a signed one under the actor's current key, or an
\* unsigned one of its own.  It comes with a receipt or without, and may be dated back.
Accept(type, actor, signed, occurred, receipted) ==
  /\ Len(bundle.events) < MaxEvents
  /\ signed \/ actor = "registry"
  /\ bundle' = [bundle EXCEPT !.events = Append(@,
       [type |-> type, actor |-> actor, occurred |-> occurred, when |-> now,
        key |-> IF signed THEN docs[actor].current ELSE NoKey,
        receipt |-> IF receipted THEN [at |-> now - lag, key |-> docs["registry"].current]
                    ELSE NoReceipt])]
  /\ UNCHANGED <<now, lag, docs>>

-----------------------------------------------------------------------------
(* Specification *)

First(actor) == CHOOSE k \in Keys[actor] : \A j \in Keys[actor] : k <= j

Init ==
  /\ now = Created /\ lag = 0
  /\ docs = [actor \in Actors |-> [current |-> First(actor), methods |-> {First(actor)}]]
  /\ bundle = [events |-> <<>>, archive |-> [actor \in Actors |-> <<>>]]

Next ==
  \/ \E slip \in Slips : Tick(slip)
  \/ \E actor \in Actors : \E k \in Keys[actor], keeps \in BOOLEAN : Rotate(actor, k, keeps)
  \/ \E actor \in Actors, pins \in Pins : Observe(actor, pins)
  \/ \E type \in Types, actor \in Actors, signed, receipted \in BOOLEAN,
        occurred \in {Created, now} :
       /\ receipted => occurred = now   \* DriftNext has those that are dated back
       /\ Accept(type, actor, signed, occurred, receipted)

Spec == Init /\ [][Next]_vars

-----------------------------------------------------------------------------
(* Properties *)

\* What a stage may say: nothing is retracted by no event, and it is unknown only
\* if an admitted event follows one that is not.
Stages ==
  LET n == Len(bundle.events)
  IN  [value : {"not_retracted"}, admitted : 0..n] \cup [value : {"retracted"}, admitted : 1..n]
      \cup [value : {"unknown"}, admitted : 0..(n - 2)] \cup {Stage("invalid", 0)}

PassesAt(t) == [asOf : {t}, required : BOOLEAN]
PastPasses == UNION {PassesAt(t) : t \in Created..(now - 1)}

\* Type correctness of the registry, the bundle, and what every pass says of it.
TypeOK ==
  /\ now \in Nat /\ lag \in Nat /\ lag <= now
  /\ \A actor \in Actors : /\ docs[actor] \in Document(Keys[actor])
                            /\ bundle.archive[actor] \in Seq(Snapshot(Keys[actor]))
  /\ bundle.events \in Seq(Event)
  /\ \A pass \in PassesAt(now) \cup PassesAt(Latest) : Retraction(bundle, pass) \in Stages

\* The bundle as it was when t had just passed: what came later came at the end.
Upto(s, when(_), t) == [i \in {j \in DOMAIN s : when(s[j]) <= t} |-> s[i]]
By(t) ==
  [events |-> Upto(bundle.events, LAMBDA e : e.when, t),
   archive |-> [actor \in Actors |-> Upto(bundle.archive[actor], LAMBDA s : s.at, t)]]

\* An as-of reading is final: whatever was observed, rotated and accepted since T,
\* it is read as it was then.  It takes a registry whose clock never went back, and,
\* where unattested events count, events that are honestly dated.
HonestlyDated == \A i \in DOMAIN bundle.events : bundle.events[i].occurred = bundle.events[i].when
AsOfIsFinal ==
  lag = 0 =>
    \A pass \in PastPasses :
      pass.required \/ HonestlyDated
        => Retraction(bundle, pass) = Retraction(By(pass.asOf), pass)

\* The latest pass admits all that the as-of pass of this very moment admits.
LatestAdmitsMore ==
  lag = 0 =>
    \A pass \in PassesAt(now) :
      Retraction(bundle, pass).admitted
        <= Retraction(bundle, [pass EXCEPT !.asOf = Latest]).admitted

\* Evidence dated after T is nothing to the as-of pass: if all that was accepted
\* since bears a receipt dated after T, or none, the reading is what it was.
LaterEvidenceIsIgnored ==
  \A pass \in PastPasses :
    /\ pass.required
    /\ \A i \in DOMAIN bundle.events : bundle.events[i].when > pass.asOf =>
         bundle.events[i].receipt = NoReceipt \/ bundle.events[i].receipt.at > pass.asOf
    => Retraction(bundle, pass) = Retraction(By(pass.asOf), pass)
=============================================================================
