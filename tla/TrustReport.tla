---------------------------- MODULE TrustReport ----------------------------
(***************************************************************************)
(* What the selected versions of the pinned trust lists say of a body      *)
(* (trustlist.py validate_list_version, evaluate_body, sections 5.2 and    *)
(* 6.2), while versions come in from issuers and others, lists lapse and   *)
(* the consumer learns what registries can do.  Which version of a series  *)
(* is selected is TrustSeries.                                             *)
(***************************************************************************)
EXTENDS FixedOrder, FiniteSets

CONSTANTS
  Pins,         \* for each pin, in order: its issuer and the keys it pins, {} if none
  Versions,     \* what may be served: who signed it in whose name, for which pin
  Origins,      \* the registries that are named as origin
  TrustBodies,  \* agent, its method, type, ctx_id authority and origin_registry
  TrustEnd      \* bound of the model

Entries ==
  [origin : STRING, keys : SUBSET STRING, profiles : SUBSET STRING, from : Nat, until : Nat,
   agents : SUBSET STRING, methods : SUBSET STRING, types : SUBSET STRING]
ASSUME PinsAssumption == Pins \in Seq([issuer : STRING, keys : SUBSET STRING])
ASSUME VersionsAssumption ==
  Versions \subseteq [author : STRING, agent : STRING, key : STRING, for : DOMAIN Pins,
                      class : STRING, sound : BOOLEAN, entries : Seq(Entries)]

VARIABLES
  today,
  lists,         \* for each pin what is selected: a version, or why there is none
  capabilities   \* for each registry its profiles, {} while they are not known
trustVars == <<today, lists, capabilities>>

Outcomes == <<"trusted", "expired", "out_of_scope", "untrusted_registry", "list_invalid">>
Rank(outcome) == CHOOSE i \in DOMAIN Outcomes : Outcomes[i] = outcome

NoReceipt == [registry |-> "", key |-> ""]

-----------------------------------------------------------------------------
(* validate_list_version *)

ApplicableClasses == {"revoked", "unplaceable"}

\* Faulty variant: step 2 does not compare the issuer.
AnyIssuer(v, pin) == v.author = v.agent /\ v.sound /\ v.class \notin ApplicableClasses
ValidVersion(v, pin) ==
  /\ v.author = v.agent
  /\ v.agent = Pins[pin].issuer
  /\ Pins[pin].keys = {} \/ v.key \in Pins[pin].keys
  /\ v.sound
  /\ v.class \notin ApplicableClasses

-----------------------------------------------------------------------------
(* evaluate_body *)

KeysPinned(entry) == entry.keys # {}

InScope(entry, body) ==
  << Step("out_of_scope", entry.agents = {} \/ body.agent \in entry.agents),
     Step("out_of_scope", entry.methods = {} \/ body.method \in entry.methods),
     Step("out_of_scope", entry.types = {} \/ body.type \in entry.types) >>

\* What one entry for the body's origin says of it.
EntryOutcome(entry, body, receipt, profiles, t) ==
  LET failed == FirstFailure(<<
        Step("untrusted_registry", receipt = NoReceipt \/ receipt.registry = entry.origin),
        Step("untrusted_registry",
             KeysPinned(entry) \/ "receipts" \in entry.profiles => receipt # NoReceipt),
        Step("untrusted_registry", KeysPinned(entry) => receipt.key \in entry.keys),
        Step("untrusted_registry", profiles = {} \/ entry.profiles \subseteq profiles),
        Step("expired", entry.from <= t /\ t < entry.until) >> \o InScope(entry, body))
  IN  IF failed = Passed THEN "trusted" ELSE failed

\* What the body's node is told, and by which entry of which list; index 0 is none.
Told(outcome, pin, index) == [outcome |-> outcome, pin |-> pin, index |-> index]
Better(one, other) == Rank(one.outcome) < Rank(other.outcome)

\* The entries of one list in their order: the first there is, and then only better ones.
\* Faulty variant: the last entry for the origin decides.
LastEntry(best, next) == next
BetterEntry(best, next) == IF best.index = 0 \/ Better(next, best) THEN next ELSE best

ListSays(pin, list, body, receipt, profiles, t) ==
  IF list.status # "used" THEN Told(list.status, 0, 0)
  ELSE
    LET after[n \in 0..Len(list.entries)] ==
          IF n = 0 THEN Told("untrusted_registry", 0, 0)
          ELSE IF list.entries[n].origin # body.origin THEN after[n - 1]
          ELSE BetterEntry(after[n - 1],
                 Told(EntryOutcome(list.entries[n], body, receipt, profiles, t), pin, n))
    IN  after[Len(list.entries)]

EvaluateBody(body, selected, receipt, profiles, t) ==
  IF body.authority # body.origin THEN Told("untrusted_registry", 0, 0)
  ELSE
    LET after[n \in 0..Len(selected)] ==
          IF n = 0 THEN Told("list_invalid", 0, 0)
          ELSE LET says == ListSays(n, selected[n], body, receipt, profiles, t)
               IN  IF n = 1 \/ Better(says, after[n - 1]) THEN says ELSE after[n - 1]
    IN  after[Len(selected)]

Outcome(body, selected, receipt) ==
  EvaluateBody(body, selected, receipt, capabilities[body.origin], today).outcome

-----------------------------------------------------------------------------
(* Issuers, registries and time (external) *)

\* A version that is not valid for the pin is ignored.
Serve(pin, v) ==
  /\ lists' = IF ValidVersion(v, pin)
              THEN [lists EXCEPT ![pin] = [status |-> "used", entries |-> v.entries, by |-> v.author]]
              ELSE lists
  /\ UNCHANGED <<today, capabilities>>

\* select_version no longer has a version to use.
Lapse(pin, status) ==
  /\ lists[pin].status = "used" /\ lists' = [lists EXCEPT ![pin].status = status]
  /\ UNCHANGED <<today, capabilities>>

Learn(registry, profiles) ==
  /\ capabilities[registry] = {} /\ capabilities' = [capabilities EXCEPT ![registry] = profiles]
  /\ UNCHANGED <<today, lists>>

NextDay == today < TrustEnd /\ today' = today + 1 /\ UNCHANGED <<lists, capabilities>>

TrustInit ==
  /\ today = 0 /\ capabilities = [r \in Origins |-> {}]
  /\ lists = [pin \in DOMAIN Pins |-> [status |-> "list_invalid", entries |-> <<>>, by |-> ""]]
TrustNext ==
  \/ \E v \in Versions : Serve(v.for, v)
  \/ \E pin \in DOMAIN Pins, status \in {"expired", "list_invalid"} : Lapse(pin, status)
  \/ \E r \in Origins, profiles \in {{"core"}, {"core", "receipts"}} : Learn(r, profiles)
  \/ NextDay
TrustSpec == TrustInit /\ [][TrustNext]_trustVars

-----------------------------------------------------------------------------
(* Properties *)

\* A registry signs receipts for itself only, so a verified receipt is of the origin.
Receipts(body) == {[registry |-> body.origin, key |-> key] : key \in {"old", "new"}}

\* The list with only one of its entries.
Alone(list, i) == [list EXCEPT !.entries = <<list.entries[i]>>]

\* Trust rests on one entry of one list that the pinned issuer signed, never on parts of
\* several; and neither a further list, a further entry nor a receipt ever takes it
\* away or makes an outcome worse.
TrustHasOneGround ==
  \A body \in TrustBodies : \A receipt \in Receipts(body) \cup {NoReceipt} :
    LET rank == Rank(Outcome(body, lists, receipt))
        told == EvaluateBody(body, lists, receipt, capabilities[body.origin], today)
    IN  /\ told.outcome = "trusted" =>
             /\ lists[told.pin].by = Pins[told.pin].issuer
             /\ Outcome(body, <<Alone(lists[told.pin], told.index)>>, receipt) = "trusted"
        /\ \A pin \in DOMAIN lists :
             /\ rank <= Rank(Outcome(body, <<lists[pin]>>, receipt))
             /\ \A i \in DOMAIN lists[pin].entries :
                  rank <= Rank(Outcome(body, <<Alone(lists[pin], i)>>, receipt))
        /\ rank <= Rank(Outcome(body, lists, NoReceipt))
=============================================================================
