---------------------------- MODULE TrustSeries ----------------------------
(***************************************************************************)
(* One pinned series of trust lists (trustlist.py, sections 5.3 and 5.4):  *)
(* an issuer that publishes, mirrors and retracts versions, and a consumer *)
(* that selects one of those it is served and persists a floor.            *)
(*                                                                         *)
(* Two versions have the same content_hash iff they have the same content. *)
(* Serials are at least 1, so the floor 0 stands for the absent floor.     *)
(***************************************************************************)
EXTENDS Integers, FiniteSets

CONSTANTS
  Serials,       \* serials the issuer may use
  Windows,       \* [delay, length]: validity windows, from the moment of issue
  Registries,    \* where copies of a version are published
  MaxVersions,   \* bound on the number of copies published
  MaxRetracted,  \* bound on the number of copies retracted
  MaxTime        \* bound on the clock

ASSUME SerialsAssumption == Serials \subseteq Nat \ {0}
ASSUME WindowsAssumption == Windows \subseteq [delay : Nat, length : Nat \ {0}]

VARIABLES
  now,
  published,   \* the copies the issuer has published
  retracted,   \* when the issuer retracted a copy
  retains,     \* the consumer keeps all it was ever served
  served,      \* the copies it passes to select_version
  withdrawn,   \* those among them it has an issuer's retraction for
  floor,       \* the persisted floor
  verdict,     \* what select_version returned last
  accepted,    \* history: the serials the floor was advanced over
  used,        \* history: the contents used
  decided      \* history: [t, verdict] of the last decision on all the evidence there was

issuerVars == <<now, published, retracted>>
vars == <<issuerVars, retains, served, withdrawn, floor, verdict, accepted, used, decided>>

Contents == [serial : Serials, issued : Nat, from : Nat, until : Nat]
Copies == [content : Contents, registry : Registries]

None == [serial |-> 0, issued |-> 0, from |-> 0, until |-> 0]
Nothing == [status |-> "none", reason |-> "none", content |-> None]

-----------------------------------------------------------------------------
(* select_version and advance_floor *)

\* What is held for T: as of T, only what was issued by then.
\* Faulty variant: as of T, everything.
HeldEver(copies, t, pass) == copies
Held(copies, t, pass) == {v \in copies : pass = "as_of" => v.content.issued <= t}

Tops(held) == {v \in held : \A w \in held : w.content.serial <= v.content.serial}

Rollback(held, pass, f) == pass = "latest" /\ \A v \in held : v.content.serial < f

\* Faulty variant: only what is not withdrawn can conflict.
LiveConflict(held, gone) ==
  \E v, w \in Tops(held) \ gone : v.content # w.content
Conflict(held, gone) == \E v, w \in Tops(held) : v.content # w.content

\* Faulty variant: the highest live version, whatever serial was withdrawn.
UsableBelowTop(held, gone, pass, f) ==
  {v \in held \ gone : \A w \in held \ gone : w.content.serial <= v.content.serial}
Usable(held, gone, pass, f) ==
  {v \in Tops(held) \ gone : pass = "as_of" \/ f <= v.content.serial}

Invalid(why) == [status |-> "invalid", reason |-> why, content |-> None]
InWindow(c, t) == c.from <= t /\ t < c.until
Judge(c, t) == IF InWindow(c, t) THEN [status |-> "used", reason |-> "none", content |-> c]
               ELSE [status |-> "expired", reason |-> "list_window", content |-> c]

\* copies: what the pass holds for the pin; gone: those an admitted event withdraws.
Select(copies, gone, t, pass, f) ==
  LET held == Held(copies, t, pass)
      usable == Usable(held, gone, pass, f)
  IN  IF held = {} THEN Invalid("no_valid_version")
      ELSE IF Rollback(held, pass, f) THEN Invalid("rollback")
      ELSE IF Conflict(held, gone) THEN Invalid("equivocation")
      ELSE IF usable = {}
           THEN Invalid(IF Tops(held) \cap gone # {} THEN "retracted" ELSE "rollback")
      ELSE Judge((CHOOSE v \in usable : TRUE).content, t)

\* Faulty variant: the floor follows what was served last.
FollowsServed(copies, f, g) ==
  /\ g \in {v.content.serial : v \in copies}
  /\ \A v \in copies : v.content.serial <= g

\* g = advance_floor(f, copies): the highest of f and the serials.
AdvancesTo(copies, f, g) ==
  /\ g \in {f} \cup {v.content.serial : v \in copies}
  /\ f <= g /\ \A v \in copies : v.content.serial <= g

-----------------------------------------------------------------------------
(* The issuer and the registries.  The issuer dates what it signs honestly,   *)
(* but may sign different lists under one serial, and lower serials later.    *)

\* History: a decision of this very moment is overtaken by what is published now.
Overtaken == decided' = {d \in decided : d.t # now}

Publish(s, w, r) ==
  /\ Cardinality(published) < MaxVersions
  /\ LET c == [serial |-> s, issued |-> now, from |-> now + w.delay,
              until |-> now + w.delay + w.length]
     IN  published' = published \cup {[content |-> c, registry |-> r]}
  /\ Overtaken
  /\ UNCHANGED <<now, retracted, retains, served, withdrawn, floor, verdict, accepted, used>>

\* The same signed bytes at another registry.  A retraction is about one copy, so a
\* withdrawn list comes back this way: decisions that saw it withdrawn are overtaken.
Mirror(v, r) ==
  /\ Cardinality(published) < MaxVersions
  /\ published' = published \cup {[content |-> v.content, registry |-> r]}
  /\ decided' = {d \in decided : d.t # now /\ \A u \in DOMAIN retracted : u.content # v.content}
  /\ UNCHANGED <<now, retracted, retains, served, withdrawn, floor, verdict, accepted, used>>

Retract(v) ==
  /\ v \notin DOMAIN retracted /\ Cardinality(DOMAIN retracted) < MaxRetracted
  /\ retracted' = [u \in DOMAIN retracted \cup {v} |-> IF u = v THEN now ELSE retracted[u]]
  /\ Overtaken
  /\ UNCHANGED <<now, published, retains, served, withdrawn, floor, verdict, accepted, used>>

Tick ==
  /\ now < MaxTime
  /\ now' = now + 1
  /\ UNCHANGED <<published, retracted, retains, served, withdrawn, floor, verdict, accepted,
                 used, decided>>

-----------------------------------------------------------------------------
(* The consumer: it is served some of the copies and some of the retractions. *)

Evaluate(copies, gone) ==
  /\ served' = IF retains THEN served \cup copies ELSE copies
  /\ withdrawn' = IF retains THEN withdrawn \cup gone ELSE gone
  /\ verdict' = Select(served', withdrawn', now, "latest", floor)
  /\ used' = IF verdict'.status = "used" THEN used \cup {verdict'.content} ELSE used
  /\ decided' = IF served' = published /\ withdrawn' = DOMAIN retracted
                THEN {[t |-> now, verdict |-> verdict']} ELSE decided
  /\ UNCHANGED <<issuerVars, retains, floor, accepted>>

\* The caller persists advance_floor over the versions it evaluated.
Persist ==
  /\ verdict # Nothing
  /\ \E g \in Serials \cup {0} : AdvancesTo(served, floor, g) /\ floor' = g
  /\ accepted' = accepted \cup {v.content.serial : v \in served}
  /\ UNCHANGED <<issuerVars, retains, served, withdrawn, verdict, used, decided>>

\* The caller stops; only the floor survives, and what it retains.
Crash ==
  /\ verdict' = Nothing
  /\ served' = IF retains THEN served ELSE {}
  /\ withdrawn' = IF retains THEN withdrawn ELSE {}
  /\ UNCHANGED <<issuerVars, retains, floor, accepted, used, decided>>

-----------------------------------------------------------------------------
(* Specification *)

Init ==
  /\ now = 0 /\ published = {} /\ retracted = [v \in {} |-> 0]
  /\ retains \in BOOLEAN
  /\ served = {} /\ withdrawn = {} /\ floor = 0 /\ verdict = Nothing
  /\ accepted = {} /\ used = {} /\ decided = {}

Issuer ==
  \/ \E s \in Serials, w \in Windows, r \in Registries : Publish(s, w, r)
  \/ \E v \in published, r \in Registries : Mirror(v, r)
  \/ \E v \in published : Retract(v)
  \/ Tick

Consumer ==
  \/ \E copies \in SUBSET published :
       \E gone \in SUBSET (copies \cap DOMAIN retracted) : Evaluate(copies, gone)
  \/ Persist
  \/ Crash

Next == Issuer \/ Consumer

Spec == Init /\ [][Next]_vars

-----------------------------------------------------------------------------
(* Properties *)

\* The shapes a PinState may have: only a used or an expired one names a list.
Verdicts ==
  [status : {"used"}, reason : {"none"}, content : Contents]
  \cup [status : {"expired"}, reason : {"list_window"}, content : Contents]
  \cup {Invalid(why) : why \in {"no_valid_version", "rollback", "equivocation", "retracted"}}

\* Type correctness of the issuer, the consumer and the history.
TypeOK ==
  /\ now \in Nat /\ published \subseteq Copies
  /\ DOMAIN retracted \subseteq published /\ \A v \in DOMAIN retracted : retracted[v] \in Nat
  /\ retains \in BOOLEAN
  /\ served \subseteq published /\ withdrawn \subseteq served \cap DOMAIN retracted
  /\ floor \in Serials \cup {0} /\ verdict \in Verdicts \cup {Nothing}
  /\ accepted \subseteq Serials /\ used \subseteq Contents
  /\ decided \subseteq [t : Nat, verdict : Verdicts]

\* A serial below one the floor was ever advanced over is never used again, whatever a
\* registry serves, in whatever order, and across restarts.
NoRollback ==
  verdict.status = "used" => \A s \in accepted : s <= verdict.content.serial

\* The version at the highest serial decides: when it is withdrawn or out of its
\* window, no lower one takes its place, and a withdrawn copy is never used.
NoFallback ==
  verdict.status \in {"used", "expired"} =>
    /\ \A v \in served : v.content.serial <= verdict.content.serial
    /\ \E v \in served \ withdrawn : v.content = verdict.content

\* A consumer that keeps what it was served never uses two lists of one serial, even
\* if the first was retracted before it met the second.
OneListPerSerial ==
  retains => \A c, d \in used : c.serial = d.serial => c = d

\* A decision made on all the evidence is reproduced by an as-of pass at any later
\* time, whatever was published, retracted or accepted since.
RetractedBy(t) == {v \in DOMAIN retracted : retracted[v] <= t}
AsOfReplays ==
  \A d \in decided : d.verdict = Select(published, RetractedBy(d.t), d.t, "as_of", floor)
=============================================================================
