------------------------- MODULE TrustSeriesProofs -------------------------
(***************************************************************************)
(* Proofs about TrustSeries and TrustReport: how a list is selected from   *)
(* its series, for every set of serials and windows and without bound on   *)
(* time or on what is published; and what the selected lists say of a      *)
(* body, for all pins, versions, bodies and capabilities.                  *)
(***************************************************************************)
EXTENDS TrustSeries, TrustReport, FixedOrderProofs, SequenceTheorems

Passes == {"latest", "as_of"}

\* Each copy has a serial and a moment of issue.
LEMMA CopyType ==
  ASSUME NEW v \in Copies
  PROVE  /\ v.content \in Contents /\ v.content.serial \in Serials
         /\ v.content.serial \in Nat \ {0} /\ v.content.issued \in Nat
  BY SerialsAssumption DEF Copies, Contents

\* What select_version returns names a usable copy, or nothing.
LEMMA SelectNames ==
  ASSUME NEW copies \in SUBSET Copies, NEW gone, NEW t, NEW pass \in Passes, NEW f,
         NEW r, r = Select(copies, gone, t, pass, f)
  PROVE  /\ r \in Verdicts
         /\ r.status \in {"used", "expired"} =>
              /\ ~Conflict(Held(copies, t, pass), gone)
              /\ \E v \in Usable(Held(copies, t, pass), gone, pass, f) : v.content = r.content
<1> DEFINE held == Held(copies, t, pass)
           usable == Usable(held, gone, pass, f)
           chosen == CHOOSE v \in usable : TRUE
<1>1. held \subseteq Copies /\ usable \subseteq Copies
  BY DEF Held, Usable, Tops
<1>2. CASE held # {} /\ ~Rollback(held, pass, f) /\ ~Conflict(held, gone) /\ usable # {}
  <2>1. r = Judge(chosen.content, t)
    BY <1>2 DEF Select
  <2>2. chosen \in usable
    BY <1>2
  <2>3. chosen.content \in Contents
    BY <1>1, <2>2, CopyType
  <2>4. r \in Verdicts /\ r.content = chosen.content
    BY <2>1, <2>3 DEF Judge, Verdicts
  <2>. QED
    BY <1>2, <2>2, <2>4
<1>3. CASE ~(held # {} /\ ~Rollback(held, pass, f) /\ ~Conflict(held, gone) /\ usable # {})
  <2>1. \E why \in {"no_valid_version", "rollback", "equivocation", "retracted"} : r = Invalid(why)
    BY <1>3 DEF Select
  <2>. QED
    BY <2>1 DEF Verdicts, Invalid
<1>. QED
  BY <1>2, <1>3

\* Without a conflict, any usable copy tells what is selected.
LEMMA SelectJudges ==
  ASSUME NEW copies \in SUBSET Copies, NEW gone, NEW t, NEW pass \in Passes, NEW f,
         NEW v \in Usable(Held(copies, t, pass), gone, pass, f),
         ~Conflict(Held(copies, t, pass), gone), ~Rollback(Held(copies, t, pass), pass, f)
  PROVE  Select(copies, gone, t, pass, f) = Judge(v.content, t)
<1> DEFINE held == Held(copies, t, pass)
           usable == Usable(held, gone, pass, f)
           chosen == CHOOSE w \in usable : TRUE
<1>1. chosen \in usable
  OBVIOUS
<1>2. v \in Tops(held) /\ chosen \in Tops(held)
  BY <1>1 DEF Usable
<1>3. chosen.content = v.content
  BY <1>2 DEF Conflict
<1>4. held # {} /\ usable # {}
  BY <1>2 DEF Tops
<1>. QED
  BY <1>3, <1>4 DEF Select

\* As of T, only what is held for T matters, and no floor does.
LEMMA SameEvidence ==
  ASSUME NEW a \in SUBSET Copies, NEW b \in SUBSET Copies, NEW g, NEW h, NEW t, NEW e, NEW f,
         Held(a, t, "as_of") = Held(b, t, "as_of"),
         \A v \in Held(a, t, "as_of") : v \in g <=> v \in h
  PROVE  Select(a, g, t, "as_of", e) = Select(b, h, t, "as_of", f)
<1> DEFINE held == Held(a, t, "as_of")
<1>1. Tops(held) \subseteq held
  BY DEF Tops
<1>2. Usable(held, g, "as_of", e) = Usable(held, h, "as_of", f)
  BY <1>1 DEF Usable
<1>3. (Tops(held) \cap g # {}) <=> (Tops(held) \cap h # {})
  BY <1>1
<1>4. ~Rollback(held, "as_of", e) /\ ~Rollback(held, "as_of", f)
  BY DEF Rollback
<1>5. Conflict(held, g) <=> Conflict(held, h)
  BY DEF Conflict
<1>6. CASE held = {} \/ Conflict(held, g)
  BY <1>4, <1>5, <1>6 DEF Select
<1>7. CASE held # {} /\ ~Conflict(held, g) /\ Usable(held, g, "as_of", e) = {}
  BY <1>2, <1>3, <1>4, <1>5, <1>7 DEF Select
<1>8. ASSUME ~Conflict(held, g), NEW v \in Usable(held, g, "as_of", e)
      PROVE  Select(a, g, t, "as_of", e) = Select(b, h, t, "as_of", f)
  <2>1. Select(a, g, t, "as_of", e) = Judge(v.content, t)
    BY <1>4, <1>8, SelectJudges DEF Passes
  <2>2. v \in Usable(Held(b, t, "as_of"), h, "as_of", f)
    BY <1>2, <1>8
  <2>3. ~Conflict(Held(b, t, "as_of"), h) /\ ~Rollback(Held(b, t, "as_of"), "as_of", f)
    BY <1>4, <1>5, <1>8
  <2>4. Select(b, h, t, "as_of", f) = Judge(v.content, t)
    BY <2>2, <2>3, SelectJudges DEF Passes
  <2>. QED
    BY <2>1, <2>4
<1>. QED
  BY <1>6, <1>7, <1>8

\* On all the evidence, the latest pass at T decides as an as-of pass for T does.
LEMMA LatestIsAsOf ==
  ASSUME NEW copies \in SUBSET Copies, NEW gone, NEW t \in Nat, NEW f \in Nat, NEW g,
         \A v \in copies : v.content.issued <= t,
         f = 0 \/ \E v \in copies : f <= v.content.serial
  PROVE  Select(copies, gone, t, "latest", f) = Select(copies, gone, t, "as_of", g)
<1>1. Held(copies, t, "latest") = copies /\ Held(copies, t, "as_of") = copies
  BY DEF Held
<1>2. \A v \in copies : v.content.serial \in Nat
  BY CopyType
<1>3. copies # {} => ~Rollback(copies, "latest", f) /\ ~Rollback(copies, "as_of", g)
  BY <1>2 DEF Rollback
<1>4. \A v \in Tops(copies) : f <= v.content.serial
  BY <1>2 DEF Tops
<1>5. Usable(copies, gone, "latest", f) = Usable(copies, gone, "as_of", g)
  BY <1>4 DEF Usable
<1>6. CASE copies = {} \/ Conflict(copies, gone)
  BY <1>1, <1>3, <1>6 DEF Select
<1>7. CASE copies # {} /\ ~Conflict(copies, gone) /\ Usable(copies, gone, "latest", f) = {}
  BY <1>1, <1>3, <1>5, <1>7 DEF Select
<1>8. ASSUME copies # {}, ~Conflict(copies, gone), NEW v \in Usable(copies, gone, "latest", f)
      PROVE  Select(copies, gone, t, "latest", f) = Select(copies, gone, t, "as_of", g)
  <2>1. Select(copies, gone, t, "latest", f) = Judge(v.content, t)
    BY <1>1, <1>3, <1>8, SelectJudges DEF Passes
  <2>2. v \in Usable(copies, gone, "as_of", g)
    BY <1>5, <1>8
  <2>3. Select(copies, gone, t, "as_of", g) = Judge(v.content, t)
    BY <1>1, <1>3, <1>8, <2>2, SelectJudges DEF Passes
  <2>. QED
    BY <2>1, <2>3
<1>. QED
  BY <1>6, <1>7, <1>8

\* As of T, one more copy of a list that nobody retracted changes nothing.
LEMMA OneMoreCopy ==
  ASSUME NEW copies \in SUBSET Copies, NEW gone, NEW t, NEW e, NEW f,
         NEW v \in copies, NEW u \in Copies, u.content = v.content, u \notin gone, v \notin gone
  PROVE  Select(copies \cup {u}, gone, t, "as_of", e) = Select(copies, gone, t, "as_of", f)
<1> DEFINE held == Held(copies, t, "as_of")
           more == Held(copies \cup {u}, t, "as_of")
<1>1. CASE ~(v.content.issued <= t)
  <2>1. more = held
    BY <1>1 DEF Held
  <2>. QED
    BY <2>1, SameEvidence
<1>2. CASE v.content.issued <= t
  <2>1. v \in held /\ more = held \cup {u} /\ held \subseteq Copies
    BY <1>2 DEF Held
  <2> HIDE DEF held, more
  <2>2. \A w \in held : w \in Tops(more) <=> w \in Tops(held)
    BY <2>1 DEF Tops
  <2>3. u \in Tops(more) <=> v \in Tops(held)
    BY <2>1 DEF Tops
  <2>4. Tops(more) \subseteq held \cup {u} /\ Tops(held) \subseteq held
    BY <2>1 DEF Tops
  <2>5. Conflict(more, gone) <=> Conflict(held, gone)
    <3>1. ASSUME Conflict(more, gone) PROVE Conflict(held, gone)
      <4>1. PICK x \in Tops(more), y \in Tops(more) : x.content # y.content
        BY <3>1 DEF Conflict
      <4>2. \A z \in Tops(more) : \E w \in Tops(held) : w.content = z.content
        BY <2>2, <2>3, <2>4
      <4>. QED
        BY <4>1, <4>2 DEF Conflict
    <3>2. ASSUME Conflict(held, gone) PROVE Conflict(more, gone)
      BY <2>2, <2>4, <3>2 DEF Conflict
    <3>. QED
      BY <3>1, <3>2
  <2>6. (Tops(more) \cap gone # {}) <=> (Tops(held) \cap gone # {})
    BY <2>2, <2>4
  <2>7. ~Rollback(more, "as_of", e) /\ ~Rollback(held, "as_of", f)
    BY DEF Rollback
  <2>8. Usable(held, gone, "as_of", f) \subseteq Usable(more, gone, "as_of", e)
    BY <2>2, <2>4 DEF Usable
  <2>9. Usable(more, gone, "as_of", e) # {} => Usable(held, gone, "as_of", f) # {}
    BY <2>2, <2>3, <2>4 DEF Usable
  <2>10. CASE Conflict(held, gone)
    BY <2>1, <2>5, <2>7, <2>10 DEF Select, held, more
  <2>11. CASE ~Conflict(held, gone) /\ Usable(held, gone, "as_of", f) = {}
    <3>1. Usable(more, gone, "as_of", e) = {}
      BY <2>9, <2>11
    <3>2. held # {} /\ more # {}
      BY <2>1
    <3>. QED
      BY <2>5, <2>6, <2>7, <2>11, <3>1, <3>2 DEF Select, held, more
  <2>12. ASSUME ~Conflict(held, gone), NEW w \in Usable(held, gone, "as_of", f)
         PROVE  Select(copies \cup {u}, gone, t, "as_of", e) = Select(copies, gone, t, "as_of", f)
    <3>1. Select(copies, gone, t, "as_of", f) = Judge(w.content, t)
      BY <2>7, <2>12, SelectJudges DEF Passes, held
    <3>2. w \in Usable(more, gone, "as_of", e) /\ ~Conflict(more, gone)
      BY <2>5, <2>8, <2>12
    <3>3. copies \cup {u} \in SUBSET Copies
      OBVIOUS
    <3>4. Select(copies \cup {u}, gone, t, "as_of", e) = Judge(w.content, t)
      BY <2>7, <3>2, <3>3, SelectJudges DEF Passes, more
    <3>. QED
      BY <3>1, <3>4
  <2>. QED
    BY <2>10, <2>11, <2>12
<1>. QED
  BY <1>1, <1>2

-----------------------------------------------------------------------------
(* The invariant *)

\* Nothing is dated after now.
ClockInv ==
  /\ \A v \in published : v.content.issued <= now
  /\ \A v \in DOMAIN retracted : retracted[v] <= now
  /\ \A d \in decided : d.t <= now

\* The floor is over all that was accepted, and not over all that is published.
FloorInv ==
  /\ \A s \in accepted : s <= floor
  /\ floor = 0 \/ \E v \in published : floor <= v.content.serial

\* A consumer that keeps what it was served still has every list it used.
UsedInv == retains => \A c \in used : \E v \in served : v.content = c

SeriesInv ==
  TypeOK /\ ClockInv /\ FloorInv /\ UsedInv /\ NoRollback /\ NoFallback /\ OneListPerSerial
  /\ AsOfReplays

LEMMA SerialType ==
  ASSUME TypeOK
  PROVE  /\ floor \in Nat /\ accepted \subseteq Nat
         /\ \A v \in published : v \in Copies /\ v.content \in Contents /\ v.content.serial \in Nat
                               /\ v.content.issued \in Nat
         /\ \A v \in served : v \in published
         /\ verdict.content.serial \in Nat
<1>1. verdict.content \in Contents \cup {None}
  BY DEF TypeOK, Verdicts, Invalid, Nothing
<1>2. verdict.content.serial \in Nat
  <2>1. \A c \in Contents : c.serial \in Nat
    BY SerialsAssumption DEF Contents
  <2>2. None.serial \in Nat
    BY DEF None
  <2>. QED
    BY <1>1, <2>1, <2>2
<1>3. floor \in Nat /\ accepted \subseteq Nat
  BY SerialsAssumption DEF TypeOK
<1>4. \A v \in published : v \in Copies
  BY DEF TypeOK
<1>. QED
  BY <1>2, <1>3, <1>4, CopyType DEF TypeOK

LEMMA InitSeries == Init => SeriesInv
<1>1. SUFFICES ASSUME Init PROVE SeriesInv
  OBVIOUS
<1>. QED
  BY <1>1 DEF Init, SeriesInv, TypeOK, ClockInv, FloorInv, UsedInv, NoRollback, NoFallback,
              OneListPerSerial, AsOfReplays, Nothing

LEMMA EvaluateSeries ==
  ASSUME SeriesInv, NEW copies \in SUBSET published,
         NEW gone \in SUBSET (copies \cap DOMAIN retracted), Evaluate(copies, gone)
  PROVE  SeriesInv'
<1>. USE DEF issuerVars
<1>1. /\ TypeOK /\ ClockInv /\ FloorInv /\ UsedInv /\ OneListPerSerial /\ AsOfReplays
      /\ now \in Nat /\ floor \in Nat /\ published \subseteq Copies
  BY SerialType DEF SeriesInv, TypeOK
<1>2. /\ verdict' = Select(served', withdrawn', now, "latest", floor)
      /\ used' = IF verdict'.status = "used" THEN used \cup {verdict'.content} ELSE used
      /\ UNCHANGED <<now, published, retracted, retains, floor, accepted>>
  BY DEF Evaluate
<1>3. /\ served' \subseteq published /\ withdrawn' \subseteq served' \cap DOMAIN retracted
      /\ served' \in SUBSET Copies
      /\ retains => served \subseteq served'
  BY <1>1 DEF Evaluate, TypeOK
<1>4. /\ verdict' \in Verdicts
      /\ verdict'.status \in {"used", "expired"} =>
           \E v \in Tops(served') \ withdrawn' :
             v.content = verdict'.content /\ floor <= v.content.serial
      /\ verdict'.status \in {"used", "expired"} => ~Conflict(served', withdrawn')
  <2>1. Held(served', now, "latest") = served'
    BY DEF Held
  <2>2. /\ verdict' \in Verdicts
        /\ verdict'.status \in {"used", "expired"} =>
             /\ ~Conflict(Held(served', now, "latest"), withdrawn')
             /\ \E v \in Usable(Held(served', now, "latest"), withdrawn', "latest", floor) :
                  v.content = verdict'.content
    <3>1. "latest" \in Passes
      BY DEF Passes
    <3>. QED
      BY <1>2, <1>3, <3>1, SelectNames
  <2>3. Usable(served', withdrawn', "latest", floor)
          = {v \in Tops(served') \ withdrawn' : floor <= v.content.serial}
    BY DEF Usable
  <2>. QED
    BY <2>1, <2>2, <2>3
<1>5. verdict'.status = "used" => verdict'.content \in Contents
  <2>1. \A v \in Tops(served') : v.content \in Contents
    <3>1. \A v \in Copies : v.content \in Contents
      BY CopyType
    <3>2. Tops(served') \subseteq Copies
      BY <1>3 DEF Tops
    <3>. QED
      BY <3>1, <3>2
  <2>. QED
    BY <1>4, <2>1
<1>6. \A d \in decided' : d \in decided \/ (/\ d = [t |-> now, verdict |-> verdict']
                                           /\ served' = published
                                           /\ withdrawn' = DOMAIN retracted)
  BY DEF Evaluate
<1>7. TypeOK'
  <2>1. decided' \subseteq [t : Nat, verdict : Verdicts]
    BY <1>1, <1>4, <1>6 DEF TypeOK
  <2>2. used' \subseteq Contents
    BY <1>1, <1>2, <1>5 DEF TypeOK
  <2>. QED
    BY <1>1, <1>2, <1>3, <1>4, <2>1, <2>2 DEF TypeOK
<1>8. ClockInv' /\ FloorInv'
  BY <1>1, <1>2, <1>6 DEF ClockInv, FloorInv
<1>9. UsedInv'
  <2>1. verdict'.status = "used" => \E v \in served' : v.content = verdict'.content
    BY <1>4 DEF Tops
  <2>. QED
    BY <1>1, <1>2, <1>3, <2>1 DEF UsedInv
<1>10. NoRollback'
  <2>1. ASSUME verdict'.status = "used", NEW s \in accepted PROVE s <= verdict'.content.serial
    <3>1. s <= floor /\ floor <= verdict'.content.serial /\ s \in Nat
      BY <1>1, <1>4, <2>1, SerialType DEF FloorInv
    <3>2. verdict'.content.serial \in Nat
      BY <1>5, <2>1, SerialsAssumption DEF Contents
    <3>. QED
      BY <1>1, <3>1, <3>2
  <2>. QED
    BY <1>2, <2>1 DEF NoRollback
<1>11. NoFallback'
  BY <1>4 DEF NoFallback, Tops
<1>12. OneListPerSerial'
  <2>1. ASSUME retains, verdict'.status = "used", NEW c \in used, c.serial = verdict'.content.serial
        PROVE  c = verdict'.content
    <3>1. PICK v \in Tops(served') : v.content = verdict'.content
      BY <1>4, <2>1
    <3>2. PICK w \in served : w.content = c
      BY <1>1, <2>1 DEF UsedInv
    <3>3. w \in Tops(served')
      <4>1. w \in served' /\ w.content.serial = v.content.serial
        BY <1>2, <1>3, <2>1, <3>1, <3>2
      <4>. QED
        BY <3>1, <4>1 DEF Tops
    <3>. QED
      BY <1>4, <2>1, <3>1, <3>2, <3>3 DEF Conflict
  <2>. QED
    BY <1>1, <1>2, <2>1 DEF OneListPerSerial
<1>13. AsOfReplays'
  <2>1. \A x : RetractedBy(x)' = RetractedBy(x)
    BY <1>2 DEF RetractedBy
  <2>2. ASSUME served' = published, withdrawn' = DOMAIN retracted
        PROVE  verdict' = Select(published, RetractedBy(now), now, "as_of", floor)
    <3>1. RetractedBy(now) = DOMAIN retracted
      BY <1>1 DEF ClockInv, RetractedBy
    <3>2. /\ \A v \in published : v.content.issued <= now
          /\ floor = 0 \/ \E v \in published : floor <= v.content.serial
      BY <1>1 DEF ClockInv, FloorInv
    <3>3. Select(published, DOMAIN retracted, now, "latest", floor)
            = Select(published, DOMAIN retracted, now, "as_of", floor)
      BY <1>1, <3>2, LatestIsAsOf
    <3>4. verdict' = Select(published, DOMAIN retracted, now, "latest", floor)
      BY <1>2, <2>2
    <3>. QED
      BY <3>1, <3>3, <3>4
  <2>3. ASSUME NEW d \in decided'
        PROVE  d.verdict = Select(published, RetractedBy(d.t), d.t, "as_of", floor)
    <3>1. CASE d \in decided
      BY <1>1, <3>1 DEF AsOfReplays
    <3>2. CASE /\ d = [t |-> now, verdict |-> verdict'] /\ served' = published
               /\ withdrawn' = DOMAIN retracted
      <4>1. d.t = now /\ d.verdict = verdict'
        BY <3>2
      <4>. QED
        BY <2>2, <3>2, <4>1
    <3>. QED
      BY <1>6, <3>1, <3>2
  <2>. QED
    BY <1>2, <2>1, <2>3 DEF AsOfReplays
<1>. QED
  BY <1>7, <1>8, <1>9, <1>10, <1>11, <1>12, <1>13 DEF SeriesInv

LEMMA PersistSeries ==
  ASSUME SeriesInv, Persist
  PROVE  SeriesInv'
<1>. USE DEF issuerVars
<1>1. /\ TypeOK /\ ClockInv /\ FloorInv /\ UsedInv /\ NoRollback /\ NoFallback /\ OneListPerSerial
      /\ AsOfReplays /\ floor \in Nat /\ published \subseteq Copies /\ served \subseteq published
  BY SerialType DEF SeriesInv, TypeOK
<1>2. /\ floor' \in Serials \cup {0} /\ AdvancesTo(served, floor, floor')
      /\ accepted' = accepted \cup {v.content.serial : v \in served}
      /\ UNCHANGED <<now, published, retracted, retains, served, withdrawn, verdict, used, decided>>
  BY DEF Persist
<1>3. \A v \in served : v.content.serial \in Serials
  BY <1>1, CopyType
<1>4. TypeOK' /\ ClockInv' /\ UsedInv' /\ NoFallback' /\ OneListPerSerial'
  BY <1>1, <1>2, <1>3 DEF TypeOK, ClockInv, UsedInv, NoFallback, OneListPerSerial
<1>5. floor' \in Nat
  <2>1. \A s \in Serials \cup {0} : s \in Nat
    BY SerialsAssumption
  <2>. QED
    BY <1>2, <2>1
<1>6. FloorInv'
  <2>1. \A s \in accepted : s <= floor' /\ s \in Nat
    BY <1>1, <1>2, <1>5, SerialType DEF FloorInv, AdvancesTo
  <2>2. \A v \in served : v.content.serial <= floor'
    BY <1>2 DEF AdvancesTo
  <2>3. floor' = floor \/ \E v \in served : floor' = v.content.serial
    BY <1>2 DEF AdvancesTo
  <2>4. floor' = 0 \/ \E v \in published : floor' <= v.content.serial
    BY <1>1, <1>5, <2>3 DEF FloorInv
  <2>. QED
    BY <1>2, <2>1, <2>2, <2>4 DEF FloorInv
<1>7. NoRollback'
  BY <1>1, <1>2 DEF NoRollback, NoFallback
<1>8. AsOfReplays'
  <2>1. \A x : RetractedBy(x)' = RetractedBy(x)
    BY <1>2 DEF RetractedBy
  <2>2. \A d \in decided : Select(published, RetractedBy(d.t), d.t, "as_of", floor)
                             = Select(published, RetractedBy(d.t), d.t, "as_of", floor')
    BY <1>1, SameEvidence
  <2>. QED
    BY <1>1, <1>2, <2>1, <2>2 DEF AsOfReplays
<1>. QED
  BY <1>4, <1>6, <1>7, <1>8 DEF SeriesInv

LEMMA CrashSeries ==
  ASSUME SeriesInv, Crash
  PROVE  SeriesInv'
BY DEF Crash, issuerVars, SeriesInv, TypeOK, ClockInv, FloorInv, UsedInv, NoRollback, NoFallback,
       OneListPerSerial, AsOfReplays, RetractedBy, Nothing

LEMMA TickSeries ==
  ASSUME SeriesInv, Tick
  PROVE  SeriesInv'
<1>1. /\ TypeOK /\ ClockInv /\ now \in Nat /\ now' = now + 1
      /\ UNCHANGED <<published, retracted, retains, served, withdrawn, floor, verdict, accepted,
                     used, decided>>
  BY DEF SeriesInv, TypeOK, Tick
<1>2. TypeOK'
  BY <1>1 DEF TypeOK
<1>3. ClockInv'
  <2>1. /\ \A v \in published : v.content.issued \in Nat
        /\ \A v \in DOMAIN retracted : retracted[v] \in Nat
        /\ \A d \in decided : d.t \in Nat
    BY <1>1, SerialType DEF TypeOK
  <2>. QED
    BY <1>1, <2>1 DEF ClockInv
<1>4. /\ FloorInv' /\ UsedInv' /\ NoRollback' /\ NoFallback' /\ OneListPerSerial' /\ AsOfReplays'
  BY <1>1 DEF SeriesInv, FloorInv, UsedInv, NoRollback, NoFallback, OneListPerSerial, AsOfReplays,
              RetractedBy
<1>. QED
  BY <1>2, <1>3, <1>4 DEF SeriesInv

\* What the issuer does changes nothing that was decided before now.
LEMMA IssuerSeries ==
  ASSUME SeriesInv,
         published \subseteq published', published' \subseteq Copies,
         \A v \in published' : v.content.issued <= now,
         DOMAIN retracted \subseteq DOMAIN retracted', DOMAIN retracted' \subseteq published',
         \A v \in DOMAIN retracted' : retracted'[v] \in Nat /\ retracted'[v] <= now,
         decided' \subseteq decided,
         \A d \in decided' : Select(published, RetractedBy(d.t), d.t, "as_of", floor)
                              = Select(published', RetractedBy(d.t)', d.t, "as_of", floor),
         UNCHANGED <<now, retains, served, withdrawn, floor, verdict, accepted, used>>
  PROVE  SeriesInv'
<1>1. TypeOK'
  BY DEF SeriesInv, TypeOK
<1>2. ClockInv' /\ FloorInv'
  BY DEF SeriesInv, ClockInv, FloorInv
<1>3. UsedInv' /\ NoRollback' /\ NoFallback' /\ OneListPerSerial'
  BY DEF SeriesInv, UsedInv, NoRollback, NoFallback, OneListPerSerial
<1>4. AsOfReplays'
  BY DEF SeriesInv, AsOfReplays
<1>. QED
  BY <1>1, <1>2, <1>3, <1>4 DEF SeriesInv

LEMMA PublishSeries ==
  ASSUME SeriesInv, NEW s \in Serials, NEW w \in Windows, NEW r \in Registries, Publish(s, w, r)
  PROVE  SeriesInv'
<1> DEFINE c == [serial |-> s, issued |-> now, from |-> now + w.delay,
                 until |-> now + w.delay + w.length]
           u == [content |-> c, registry |-> r]
<1>1. /\ TypeOK /\ ClockInv /\ now \in Nat
      /\ published' = published \cup {u} /\ decided' = {d \in decided : d.t # now}
      /\ UNCHANGED <<now, retracted, retains, served, withdrawn, floor, verdict, accepted, used>>
  BY DEF SeriesInv, TypeOK, Publish, Overtaken
<1>2. w.delay \in Nat /\ w.length \in Nat
  BY WindowsAssumption
<1>3. u \in Copies
  BY <1>1, <1>2 DEF Copies, Contents
<1>4. published \subseteq published' /\ published' \subseteq Copies
  BY <1>1, <1>3 DEF TypeOK
<1>5. \A v \in published' : v.content.issued <= now
  BY <1>1 DEF ClockInv
<1>6. /\ DOMAIN retracted' \subseteq published'
      /\ \A v \in DOMAIN retracted' : retracted'[v] \in Nat /\ retracted'[v] <= now
  BY <1>1 DEF TypeOK, ClockInv
<1>7. ASSUME NEW d \in decided'
      PROVE  Select(published, RetractedBy(d.t), d.t, "as_of", floor)
               = Select(published', RetractedBy(d.t)', d.t, "as_of", floor)
  <2>1. d \in decided /\ d.t # now /\ d.t \in Nat /\ d.t <= now
    BY <1>1, <1>7 DEF TypeOK, ClockInv
  <2>2. u.content.issued = now
    OBVIOUS
  <2>3. Held(published', d.t, "as_of") = Held(published, d.t, "as_of")
    BY <1>1, <2>1, <2>2 DEF Held
  <2>4. RetractedBy(d.t)' = RetractedBy(d.t)
    BY <1>1, <1>7 DEF RetractedBy
  <2>. QED
    BY <1>4, <2>3, <2>4, SameEvidence
<1>. QED
  BY <1>1, <1>4, <1>5, <1>6, <1>7, IssuerSeries

LEMMA MirrorSeries ==
  ASSUME SeriesInv, NEW v \in published, NEW r \in Registries, Mirror(v, r)
  PROVE  SeriesInv'
<1> DEFINE u == [content |-> v.content, registry |-> r]
<1>1. /\ TypeOK /\ ClockInv
      /\ published' = published \cup {u}
      /\ decided' = {d \in decided : d.t # now /\ \A x \in DOMAIN retracted : x.content # v.content}
      /\ UNCHANGED <<now, retracted, retains, served, withdrawn, floor, verdict, accepted, used>>
  BY DEF SeriesInv, Mirror
<1>2. v \in Copies /\ u.content = v.content /\ u \in Copies
  BY <1>1, CopyType DEF TypeOK, Copies
<1>3. published \subseteq published' /\ published' \subseteq Copies
  BY <1>1, <1>2 DEF TypeOK
<1>4. \A x \in published' : x.content.issued <= now
  BY <1>1, <1>2 DEF ClockInv
<1>5. /\ DOMAIN retracted' \subseteq published'
      /\ \A x \in DOMAIN retracted' : retracted'[x] \in Nat /\ retracted'[x] <= now
  BY <1>1 DEF TypeOK, ClockInv
<1>6. ASSUME NEW d \in decided'
      PROVE  Select(published, RetractedBy(d.t), d.t, "as_of", floor)
               = Select(published', RetractedBy(d.t)', d.t, "as_of", floor)
  <2>1. u \notin DOMAIN retracted /\ v \notin DOMAIN retracted
    BY <1>1, <1>2, <1>6
  <2>2. RetractedBy(d.t) \subseteq DOMAIN retracted /\ RetractedBy(d.t)' = RetractedBy(d.t)
    BY <1>1, <1>6 DEF RetractedBy
  <2>3. published \in SUBSET Copies
    BY <1>3
  <2>4. Select(published \cup {u}, RetractedBy(d.t), d.t, "as_of", floor)
          = Select(published, RetractedBy(d.t), d.t, "as_of", floor)
    BY <1>2, <2>1, <2>2, <2>3, OneMoreCopy
  <2>. QED
    BY <1>1, <2>2, <2>4
<1>. QED
  BY <1>1, <1>3, <1>4, <1>5, <1>6, IssuerSeries

LEMMA RetractSeries ==
  ASSUME SeriesInv, NEW v \in published, Retract(v)
  PROVE  SeriesInv'
<1>1. /\ TypeOK /\ ClockInv /\ now \in Nat /\ v \notin DOMAIN retracted
      /\ retracted' = [u \in DOMAIN retracted \cup {v} |-> IF u = v THEN now ELSE retracted[u]]
      /\ decided' = {d \in decided : d.t # now}
      /\ UNCHANGED <<now, published, retains, served, withdrawn, floor, verdict, accepted, used>>
  BY DEF SeriesInv, TypeOK, Retract, Overtaken
<1>2. /\ DOMAIN retracted \subseteq DOMAIN retracted' /\ DOMAIN retracted' \subseteq published'
      /\ \A u \in DOMAIN retracted' : retracted'[u] \in Nat /\ retracted'[u] <= now
  BY <1>1 DEF TypeOK, ClockInv
<1>3. ASSUME NEW d \in decided'
      PROVE  Select(published, RetractedBy(d.t), d.t, "as_of", floor)
               = Select(published', RetractedBy(d.t)', d.t, "as_of", floor)
  <2>1. d \in decided /\ d.t # now /\ d.t \in Nat /\ d.t <= now
    BY <1>1, <1>3 DEF TypeOK, ClockInv
  <2>2. {u \in DOMAIN retracted' : retracted'[u] <= d.t} = {u \in DOMAIN retracted : retracted[u] <= d.t}
    BY <1>1, <2>1
  <2>3. RetractedBy(d.t)' = RetractedBy(d.t)
    BY <1>3, <2>2 DEF RetractedBy
  <2>. QED
    BY <1>1, <2>3
<1>4. published' \subseteq Copies /\ \A u \in published' : u.content.issued <= now
  BY <1>1 DEF TypeOK, ClockInv
<1>. QED
  BY <1>1, <1>2, <1>3, <1>4, IssuerSeries

LEMMA NextSeries ==
  ASSUME SeriesInv, [Next]_vars
  PROVE  SeriesInv'
<1>1. CASE Issuer
  BY <1>1, PublishSeries, MirrorSeries, RetractSeries, TickSeries DEF Issuer
<1>2. CASE Consumer
  BY <1>2, EvaluateSeries, PersistSeries, CrashSeries DEF Consumer
<1>3. CASE UNCHANGED vars
  BY <1>3 DEF vars, issuerVars, SeriesInv, TypeOK, ClockInv, FloorInv, UsedInv, NoRollback,
              NoFallback, OneListPerSerial, AsOfReplays, RetractedBy
<1>. QED
  BY <1>1, <1>2, <1>3 DEF Next

LEMMA SeriesAlways == Spec => []SeriesInv
  BY InitSeries, NextSeries, PTL DEF Spec

\* Type correctness of the issuer, the consumer and the history.
THEOREM SeriesTypeCorrect == Spec => []TypeOK
<1>1. SeriesInv => TypeOK
  BY DEF SeriesInv
<1>. QED
  BY <1>1, SeriesAlways, PTL

\* Across restarts and whatever registries serve, no serial is used below one that
\* the persisted floor was advanced over.
THEOREM SeriesNeverRollsBack == Spec => []NoRollback
<1>1. SeriesInv => NoRollback
  BY DEF SeriesInv
<1>. QED
  BY <1>1, SeriesAlways, PTL

\* A withdrawn or closed list is never replaced by a lower serial.
THEOREM SeriesNeverFallsBack == Spec => []NoFallback
<1>1. SeriesInv => NoFallback
  BY DEF SeriesInv
<1>. QED
  BY <1>1, SeriesAlways, PTL

\* A consumer that keeps what it was served uses at most one list per serial.
THEOREM SeriesIsNotEquivocated == Spec => []OneListPerSerial
<1>1. SeriesInv => OneListPerSerial
  BY DEF SeriesInv
<1>. QED
  BY <1>1, SeriesAlways, PTL

\* An as-of pass reproduces what was decided at T on all the evidence of T.
THEOREM SeriesReplays == Spec => []AsOfReplays
<1>1. SeriesInv => AsOfReplays
  BY DEF SeriesInv
<1>. QED
  BY <1>1, SeriesAlways, PTL

-----------------------------------------------------------------------------
(* What the lists say of a body *)

Judgements == {"trusted", "expired", "out_of_scope", "untrusted_registry"}
Signers == STRING \cup {""}
ListStates ==
  [status : {"used", "expired", "list_invalid"}, entries : Seq(Entries), by : Signers]

LEMMA RankIs ==
  /\ Rank("trusted") = 1 /\ Rank("expired") = 2 /\ Rank("out_of_scope") = 3
  /\ Rank("untrusted_registry") = 4 /\ Rank("list_invalid") = 5
<1>1. /\ DOMAIN Outcomes = 1..5
      /\ Outcomes[1] = "trusted" /\ Outcomes[2] = "expired" /\ Outcomes[3] = "out_of_scope"
      /\ Outcomes[4] = "untrusted_registry" /\ Outcomes[5] = "list_invalid"
  BY DEF Outcomes
<1>2. \A i \in 1..5 : i = 1 \/ i = 2 \/ i = 3 \/ i = 4 \/ i = 5
  OBVIOUS
<1>. HIDE DEF Outcomes
<1>3. Rank("trusted") = 1
  BY <1>1, <1>2 DEF Rank
<1>4. Rank("expired") = 2
  BY <1>1, <1>2 DEF Rank
<1>5. Rank("out_of_scope") = 3
  BY <1>1, <1>2 DEF Rank
<1>6. Rank("untrusted_registry") = 4
  BY <1>1, <1>2 DEF Rank
<1>7. Rank("list_invalid") = 5
  BY <1>1, <1>2 DEF Rank
<1>. QED
  BY <1>3, <1>4, <1>5, <1>6, <1>7

\* Two checks that fail at the same steps for the same reasons say the same.
LEMMA SameFailures ==
  ASSUME NEW one, NEW other, DOMAIN one \subseteq Nat, DOMAIN one = DOMAIN other,
         \A i \in DOMAIN one : (one[i].holds <=> other[i].holds) /\ one[i].reason = other[i].reason
  PROVE  FirstFailure(one) = FirstFailure(other)
<1>1. CASE \A i \in DOMAIN one : one[i].holds
  BY <1>1, AllMeansPassed
<1>2. CASE ~(\A i \in DOMAIN one : one[i].holds)
  <2>. DEFINE failing == {i \in DOMAIN one : ~one[i].holds}
  <2>1. failing # {} /\ failing \in SUBSET Nat
    BY <1>2
  <2>2. PICK m \in failing : \A k \in failing : m <= k
    <3>. HIDE DEF failing
    <3>. QED
      BY <2>1, LeastNumber
  <2>3. m \in DOMAIN one /\ ~one[m].holds /\ ~other[m].holds
    OBVIOUS
  <2>4. ASSUME NEW i \in DOMAIN one, i < m PROVE one[i].holds /\ other[i].holds
    <3>1. i \in Nat /\ m \in Nat
      OBVIOUS
    <3>. QED
      BY <2>2, <2>4, <3>1
  <2>5. FirstFailure(one) = one[m].reason
    BY <2>3, <2>4, FirstToFail
  <2>6. FirstFailure(other) = other[m].reason
    BY <2>3, <2>4, FirstToFail
  <2>. QED
    BY <2>3, <2>5, <2>6
<1>. QED
  BY <1>1, <1>2

\* The steps of an entry one by one.
EntrySteps(entry, body, receipt, profiles, t) ==
  << Step("untrusted_registry", receipt = NoReceipt \/ receipt.registry = entry.origin),
     Step("untrusted_registry",
          KeysPinned(entry) \/ "receipts" \in entry.profiles => receipt # NoReceipt),
     Step("untrusted_registry", KeysPinned(entry) => receipt.key \in entry.keys),
     Step("untrusted_registry", profiles = {} \/ entry.profiles \subseteq profiles),
     Step("expired", entry.from <= t /\ t < entry.until) >> \o InScope(entry, body)

LEMMA FiveAndThree ==
  ASSUME NEW a, NEW b, NEW c, NEW d, NEW e, NEW f, NEW g, NEW h,
         NEW all, all = <<a, b, c, d, e>> \o <<f, g, h>>
  PROVE  /\ DOMAIN all = 1..8
         /\ all[1] = a /\ all[2] = b /\ all[3] = c /\ all[4] = d /\ all[5] = e
         /\ all[6] = f /\ all[7] = g /\ all[8] = h
<1>. DEFINE S == {a, b, c, d, e, f, g, h}
            five == <<a, b, c, d, e>>
            three == <<f, g, h>>
<1>1. five \in Seq(S) /\ three \in Seq(S) /\ Len(five) = 5 /\ Len(three) = 3
  OBVIOUS
<1>2. /\ five[1] = a /\ five[2] = b /\ five[3] = c /\ five[4] = d /\ five[5] = e
      /\ three[1] = f /\ three[2] = g /\ three[3] = h
  OBVIOUS
<1>. HIDE DEF S, five, three
<1>3. /\ all \in Seq(S) /\ Len(all) = 8
      /\ \A k \in 1..8 : all[k] = IF k <= 5 THEN five[k] ELSE three[k - 5]
  <2>1. all = five \o three
    BY DEF five, three
  <2>2. /\ five \o three \in Seq(S) /\ Len(five \o three) = Len(five) + Len(three)
        /\ \A k \in 1..(Len(five) + Len(three)) :
             (five \o three)[k] = IF k <= Len(five) THEN five[k] ELSE three[k - Len(five)]
    BY <1>1, ConcatProperties
  <2>3. Len(five) + Len(three) = 8 /\ 1..(Len(five) + Len(three)) = 1..8
    BY <1>1
  <2>. QED
    BY <1>1, <2>1, <2>2, <2>3
<1>4. /\ all[1] = five[1] /\ all[2] = five[2] /\ all[3] = five[3] /\ all[4] = five[4]
      /\ all[5] = five[5] /\ all[6] = three[1] /\ all[7] = three[2] /\ all[8] = three[3]
  BY <1>3
<1>. QED
  BY <1>2, <1>3, <1>4

LEMMA EntryStepsAre ==
  ASSUME NEW entry, NEW body, NEW receipt, NEW profiles, NEW t,
         NEW steps, steps = EntrySteps(entry, body, receipt, profiles, t)
  PROVE  /\ DOMAIN steps = 1..8
         /\ steps[1].reason = "untrusted_registry" /\ steps[2].reason = "untrusted_registry"
         /\ steps[3].reason = "untrusted_registry" /\ steps[4].reason = "untrusted_registry"
         /\ steps[5].reason = "expired" /\ steps[6].reason = "out_of_scope"
         /\ steps[7].reason = "out_of_scope" /\ steps[8].reason = "out_of_scope"
         /\ steps[1].holds <=> (receipt = NoReceipt \/ receipt.registry = entry.origin)
         /\ steps[2].holds <=> (KeysPinned(entry) \/ "receipts" \in entry.profiles => receipt # NoReceipt)
         /\ steps[3].holds <=> (KeysPinned(entry) => receipt.key \in entry.keys)
         /\ steps[4] = Step("untrusted_registry", profiles = {} \/ entry.profiles \subseteq profiles)
         /\ steps[5] = Step("expired", entry.from <= t /\ t < entry.until)
         /\ steps[6] = Step("out_of_scope", entry.agents = {} \/ body.agent \in entry.agents)
         /\ steps[7] = Step("out_of_scope", entry.methods = {} \/ body.method \in entry.methods)
         /\ steps[8] = Step("out_of_scope", entry.types = {} \/ body.type \in entry.types)
<1>. DEFINE a == Step("untrusted_registry", receipt = NoReceipt \/ receipt.registry = entry.origin)
            b == Step("untrusted_registry",
                   KeysPinned(entry) \/ "receipts" \in entry.profiles => receipt # NoReceipt)
            c == Step("untrusted_registry", KeysPinned(entry) => receipt.key \in entry.keys)
            d == Step("untrusted_registry", profiles = {} \/ entry.profiles \subseteq profiles)
            e == Step("expired", entry.from <= t /\ t < entry.until)
            f == Step("out_of_scope", entry.agents = {} \/ body.agent \in entry.agents)
            g == Step("out_of_scope", entry.methods = {} \/ body.method \in entry.methods)
            h == Step("out_of_scope", entry.types = {} \/ body.type \in entry.types)
<1>1. steps = <<a, b, c, d, e>> \o <<f, g, h>>
  BY DEF EntrySteps, InScope
<1>2. /\ a.reason = "untrusted_registry" /\ b.reason = "untrusted_registry"
      /\ c.reason = "untrusted_registry" /\ d.reason = "untrusted_registry"
      /\ e.reason = "expired" /\ f.reason = "out_of_scope"
      /\ g.reason = "out_of_scope" /\ h.reason = "out_of_scope"
  BY DEF Step
<1>3. /\ a.holds <=> (receipt = NoReceipt \/ receipt.registry = entry.origin)
      /\ b.holds <=> (KeysPinned(entry) \/ "receipts" \in entry.profiles => receipt # NoReceipt)
      /\ c.holds <=> (KeysPinned(entry) => receipt.key \in entry.keys)
  BY DEF Step
<1>4. /\ DOMAIN steps = 1..8
      /\ steps[1] = a /\ steps[2] = b /\ steps[3] = c /\ steps[4] = d /\ steps[5] = e
      /\ steps[6] = f /\ steps[7] = g /\ steps[8] = h
  <2>. HIDE DEF a, b, c, d, e, f, g, h
  <2>. QED
    BY <1>1, FiveAndThree
<1>. QED
  BY <1>2, <1>3, <1>4

LEMMA EntryJudges ==
  ASSUME NEW entry, NEW body, NEW receipt, NEW profiles, NEW t
  PROVE  EntryOutcome(entry, body, receipt, profiles, t) \in Judgements
<1>1. PICK steps : steps = EntrySteps(entry, body, receipt, profiles, t)
  OBVIOUS
<1>2. EntryOutcome(entry, body, receipt, profiles, t) =
        IF FirstFailure(steps) = Passed THEN "trusted" ELSE FirstFailure(steps)
  BY <1>1 DEF EntryOutcome, EntrySteps
<1>3. CASE FirstFailure(steps) # Passed
  <2>1. DOMAIN steps = 1..8 /\ DOMAIN steps \in SUBSET Nat
    BY <1>1, EntryStepsAre
  <2>2. PICK i \in DOMAIN steps : FirstFailure(steps) = steps[i].reason
    BY <1>3, <2>1, ReasonIsOfAStep
  <2>3. i = 1 \/ i = 2 \/ i = 3 \/ i = 4 \/ i = 5 \/ i = 6 \/ i = 7 \/ i = 8
    BY <2>1
  <2>4. steps[i].reason \in Judgements
    <3>1. /\ steps[1].reason = "untrusted_registry" /\ steps[2].reason = "untrusted_registry"
          /\ steps[3].reason = "untrusted_registry" /\ steps[4].reason = "untrusted_registry"
          /\ steps[5].reason = "expired" /\ steps[6].reason = "out_of_scope"
          /\ steps[7].reason = "out_of_scope" /\ steps[8].reason = "out_of_scope"
      BY <1>1, EntryStepsAre
    <3>. QED
      BY <2>3, <3>1 DEF Judgements
  <2>. QED
    BY <1>2, <1>3, <2>2, <2>4
<1>. QED
  BY <1>2, <1>3 DEF Judgements

\* A receipt of the origin makes no entry say worse than it says without one.
LEMMA ReceiptHelps ==
  ASSUME NEW entry, NEW body, NEW receipt, NEW profiles, NEW t,
         receipt = NoReceipt \/ receipt.registry = entry.origin
  PROVE  Rank(EntryOutcome(entry, body, receipt, profiles, t))
           <= Rank(EntryOutcome(entry, body, NoReceipt, profiles, t))
<1>1. PICK steps : steps = EntrySteps(entry, body, receipt, profiles, t)
  OBVIOUS
<1>2. PICK bare : bare = EntrySteps(entry, body, NoReceipt, profiles, t)
  OBVIOUS
<1>3. /\ EntryOutcome(entry, body, receipt, profiles, t) =
           IF FirstFailure(steps) = Passed THEN "trusted" ELSE FirstFailure(steps)
      /\ EntryOutcome(entry, body, NoReceipt, profiles, t) =
           IF FirstFailure(bare) = Passed THEN "trusted" ELSE FirstFailure(bare)
  BY <1>1, <1>2 DEF EntryOutcome, EntrySteps
<1>4. /\ DOMAIN bare = 1..8 /\ bare[2].reason = "untrusted_registry"
      /\ bare[1].holds
      /\ bare[2].holds <=> ~(KeysPinned(entry) \/ "receipts" \in entry.profiles)
      /\ bare[3].holds <=> (KeysPinned(entry) => NoReceipt.key \in entry.keys)
  BY <1>2, EntryStepsAre
<1>5. CASE KeysPinned(entry) \/ "receipts" \in entry.profiles
  <2>1. \A i \in DOMAIN bare : i < 2 => i = 1
    BY <1>4
  <2>2. FirstFailure(bare) = "untrusted_registry"
    <3>1. 2 \in DOMAIN bare /\ DOMAIN bare \subseteq Nat
      BY <1>4
    <3>. QED
      BY <1>4, <1>5, <2>1, <3>1, FirstToFail
  <2>3. EntryOutcome(entry, body, NoReceipt, profiles, t) = "untrusted_registry"
    BY <1>3, <2>2 DEF Passed
  <2>4. Rank(EntryOutcome(entry, body, receipt, profiles, t)) <= 4
    <3>1. EntryOutcome(entry, body, receipt, profiles, t) \in Judgements
      BY EntryJudges
    <3>. QED
      BY <3>1, RankIs DEF Judgements
  <2>. QED
    BY <2>3, <2>4, RankIs
<1>6. CASE ~(KeysPinned(entry) \/ "receipts" \in entry.profiles)
  <2>1. /\ DOMAIN steps = 1..8 /\ steps[1].holds /\ steps[2].holds /\ steps[3].holds
        /\ steps[1].reason = bare[1].reason /\ steps[2].reason = bare[2].reason
        /\ steps[3].reason = bare[3].reason
    BY <1>1, <1>2, <1>6, EntryStepsAre
  <2>2. /\ steps[4] = bare[4] /\ steps[5] = bare[5] /\ steps[6] = bare[6]
        /\ steps[7] = bare[7] /\ steps[8] = bare[8]
    BY <1>1, <1>2, EntryStepsAre
  <2>3. \A i \in 1..8 : i = 1 \/ i = 2 \/ i = 3 \/ i = 4 \/ i = 5 \/ i = 6 \/ i = 7 \/ i = 8
    OBVIOUS
  <2>4. \A i \in 1..8 : (steps[i].holds <=> bare[i].holds) /\ steps[i].reason = bare[i].reason
    BY <1>4, <1>6, <2>1, <2>2, <2>3
  <2>5. FirstFailure(steps) = FirstFailure(bare)
    <3>1. DOMAIN steps \subseteq Nat
      BY <2>1
    <3>. QED
      BY <1>4, <2>1, <2>4, <3>1, SameFailures
  <2>6. EntryOutcome(entry, body, NoReceipt, profiles, t) \in Judgements
    BY EntryJudges
  <2>7. Rank(EntryOutcome(entry, body, NoReceipt, profiles, t)) \in Nat
    BY <2>6, RankIs DEF Judgements
  <2>8. EntryOutcome(entry, body, receipt, profiles, t) = EntryOutcome(entry, body, NoReceipt, profiles, t)
    BY <1>3, <2>5
  <2>. QED
    BY <2>7, <2>8
<1>. QED
  BY <1>5, <1>6

\* What the first n entries of a list say: nothing, or what one of them says that none
\* of the others betters.
EntryStep(before, n, pin, list, body, receipt, profiles, t) ==
  IF list.entries[n].origin # body.origin THEN before
  ELSE BetterEntry(before,
         Told(EntryOutcome(list.entries[n], body, receipt, profiles, t), pin, n))
EntriesSay(pin, list, body, receipt, profiles, t, k, g) ==
  g = [n \in 0..k |-> IF n = 0 THEN Told("untrusted_registry", 0, 0)
                      ELSE EntryStep(g[n - 1], n, pin, list, body, receipt, profiles, t)]

LEMMA SomeEntriesSay ==
  ASSUME NEW pin, NEW list, NEW body, NEW receipt, NEW profiles, NEW t, NEW k \in Nat
  PROVE  \E g : EntriesSay(pin, list, body, receipt, profiles, t, k, g)
<1>. DEFINE Says(m, g) == EntriesSay(pin, list, body, receipt, profiles, t, m, g)
            First(before, n) == EntryStep(before, n, pin, list, body, receipt, profiles, t)
            start == Told("untrusted_registry", 0, 0)
            fine == {m \in Nat : \E g : Says(m, g)}
<1>0. \A m, g : Says(m, g) <=>
        g = [n \in 0..m |-> IF n = 0 THEN start ELSE First(g[n - 1], n)]
  BY DEF EntriesSay
<1>. HIDE DEF Says, First, start
<1>1. 0 \in fine
  <2>. DEFINE g == [n \in 0..0 |-> start]
  <2>1. g = [n \in 0..0 |-> IF n = 0 THEN start ELSE First(g[n - 1], n)]
    OBVIOUS
  <2>. QED
    BY <1>0, <2>1
<1>2. ASSUME NEW m \in Nat, m \in fine PROVE m + 1 \in fine
  <2>1. PICK g : Says(m, g)
    BY <1>2
  <2>2. g[0] = start /\ \A n \in 1..m : g[n] = First(g[n - 1], n)
    BY <1>0, <2>1
  <2>. DEFINE h == [n \in 0..(m + 1) |-> IF n <= m THEN g[n] ELSE First(g[m], m + 1)]
              next == [n \in 0..(m + 1) |-> IF n = 0 THEN start ELSE First(h[n - 1], n)]
  <2>3. ASSUME NEW n \in 0..(m + 1) PROVE h[n] = next[n]
    <3>1. CASE n = 0
      BY <2>2, <3>1
    <3>2. CASE n \in 1..m
      <4>1. n - 1 \in 0..(m + 1) /\ n - 1 <= m /\ n <= m /\ n # 0
        BY <3>2
      <4>. QED
        BY <2>2, <3>2, <4>1
    <3>3. CASE n = m + 1
      <4>1. n - 1 = m /\ m \in 0..(m + 1) /\ m <= m /\ ~(n <= m) /\ n # 0
        BY <3>3
      <4>. QED
        BY <3>3, <4>1
    <3>. QED
      BY <3>1, <3>2, <3>3
  <2>4. h = next
    BY <2>3
  <2>5. Says(m + 1, h)
    BY <1>0, <2>4
  <2>. QED
    BY <2>5
<1>3. \A n \in 1..k : n - 1 \in fine => n \in fine
  <2>1. ASSUME NEW n \in 1..k, n - 1 \in fine PROVE n \in fine
    <3>1. n - 1 \in Nat /\ (n - 1) + 1 = n
      OBVIOUS
    <3>. HIDE DEF fine
    <3>. QED
      BY <1>2, <2>1, <3>1
  <2>. QED
    BY <2>1
<1>4. 0..k \subseteq fine
  <2>. HIDE DEF fine
  <2>. QED
    BY <1>1, <1>3, UpToAll
<1>. QED
  BY <1>4 DEF Says

\* What is said of a body by a list that is used is said by one of its entries, or there
\* is none for the body; and no entry for the body says better.
EntrySays(told, i, pin, list, body, receipt, profiles, t) ==
  /\ list.entries[i].origin = body.origin
  /\ told = Told(EntryOutcome(list.entries[i], body, receipt, profiles, t), pin, i)

LEMMA ListIs ==
  ASSUME NEW pin, NEW list \in ListStates, NEW body, NEW receipt, NEW profiles, NEW t,
         NEW says, says = ListSays(pin, list, body, receipt, profiles, t)
  PROVE  /\ list.status # "used" => says = Told(list.status, 0, 0)
         /\ list.status = "used" =>
              /\ \/ says = Told("untrusted_registry", 0, 0)
                 \/ \E i \in 1..Len(list.entries) :
                      EntrySays(says, i, pin, list, body, receipt, profiles, t)
              /\ \A i \in 1..Len(list.entries) : list.entries[i].origin = body.origin =>
                   Rank(says.outcome)
                     <= Rank(EntryOutcome(list.entries[i], body, receipt, profiles, t))
<1>1. CASE list.status # "used"
  BY <1>1 DEF ListSays
<1>2. CASE list.status = "used"
  <2>1. PICK k \in Nat : k = Len(list.entries)
    BY DEF ListStates
  <2>2. PICK g : EntriesSay(pin, list, body, receipt, profiles, t, k, g) /\ says = g[k]
    <3>. DEFINE chosen == CHOOSE g : EntriesSay(pin, list, body, receipt, profiles, t, k, g)
    <3>1. says = chosen[k]
      BY <1>2, <2>1 DEF ListSays, EntriesSay, EntryStep
    <3>2. EntriesSay(pin, list, body, receipt, profiles, t, k, chosen)
      BY SomeEntriesSay
    <3>. QED
      BY <3>1, <3>2
  <2>. DEFINE Judged(i) == EntryOutcome(list.entries[i], body, receipt, profiles, t)
              Ours(i) == list.entries[i].origin = body.origin
              Right(n) == \/ g[n] = Told("untrusted_registry", 0, 0) /\ \A i \in 1..n : ~Ours(i)
                          \/ /\ \E i \in 1..n : Ours(i) /\ g[n] = Told(Judged(i), pin, i)
                             /\ \A i \in 1..n : Ours(i) => Rank(g[n].outcome) <= Rank(Judged(i))
              right == {n \in 0..k : Right(n)}
  <2>3. g[0] = Told("untrusted_registry", 0, 0)
    BY <2>2 DEF EntriesSay
  <2>4. ASSUME NEW n \in 1..k
        PROVE  g[n] = IF ~Ours(n) THEN g[n - 1] ELSE BetterEntry(g[n - 1], Told(Judged(n), pin, n))
    BY <2>2 DEF EntriesSay, EntryStep
  <2>5. \A i : Rank(Judged(i)) \in 1..4
    <3>1. \A i : Judged(i) \in Judgements
      BY EntryJudges
    <3>. HIDE DEF Judged
    <3>. QED
      BY <3>1, RankIs DEF Judgements
  <2>6. \A o, p, i : Told(o, p, i).outcome = o /\ Told(o, p, i).index = i
    BY DEF Told
  <2>7. 0 \in right
    BY <2>3
  <2>8. ASSUME NEW n \in 1..k, n - 1 \in right PROVE n \in right
    <3>1. Right(n - 1) /\ n \in 0..k /\ n \in 1..n
      BY <2>8
    <3>2. 1..n = 1..(n - 1) \cup {n}
      OBVIOUS
    <3>. HIDE DEF Judged, Ours
    <3>3. CASE ~Ours(n)
      <4>1. g[n] = g[n - 1]
        BY <2>4, <3>3
      <4>2. Right(n)
        BY <3>1, <3>2, <3>3, <4>1
      <4>. QED
        BY <3>1, <4>2
    <3>4. CASE Ours(n) /\ g[n - 1] = Told("untrusted_registry", 0, 0) /\ \A i \in 1..(n - 1) : ~Ours(i)
      <4>1. g[n] = Told(Judged(n), pin, n)
        BY <2>4, <2>6, <3>4 DEF BetterEntry
      <4>2. \A i \in 1..n : Ours(i) => Rank(g[n].outcome) <= Rank(Judged(i))
        <5>1. \A i \in 1..n : Ours(i) => i = n
          BY <3>2, <3>4
        <5>. QED
          BY <2>5, <2>6, <4>1, <5>1
      <4>3. Right(n)
        BY <3>1, <3>4, <4>1, <4>2
      <4>. QED
        BY <3>1, <4>3
    <3>5. ASSUME Ours(n), NEW j \in 1..(n - 1), Ours(j), g[n - 1] = Told(Judged(j), pin, j),
                 \A i \in 1..(n - 1) : Ours(i) => Rank(g[n - 1].outcome) <= Rank(Judged(i))
          PROVE  n \in right
      <4>1. j # 0 /\ j \in 1..n
        OBVIOUS
      <4>2. CASE Better(Told(Judged(n), pin, n), g[n - 1])
        <5>1. g[n] = Told(Judged(n), pin, n)
          BY <2>4, <3>5, <4>2 DEF BetterEntry
        <5>2. Rank(Judged(n)) < Rank(Judged(j)) /\ g[n].outcome = Judged(n)
          BY <2>6, <3>5, <4>2, <5>1 DEF Better
        <5>3. \A i \in 1..n : Ours(i) => Rank(g[n].outcome) <= Rank(Judged(i))
          BY <2>5, <2>6, <3>2, <3>5, <5>2
        <5>4. Right(n)
          BY <3>1, <3>5, <5>1, <5>3
        <5>. QED
          BY <3>1, <5>4
      <4>3. CASE ~Better(Told(Judged(n), pin, n), g[n - 1])
        <5>1. g[n] = g[n - 1]
          BY <2>4, <2>6, <3>5, <4>1, <4>3 DEF BetterEntry
        <5>2. ~(Rank(Judged(n)) < Rank(Judged(j))) /\ g[n].outcome = Judged(j)
          BY <2>6, <3>5, <4>3, <5>1 DEF Better
        <5>3. \A i \in 1..n : Ours(i) => Rank(g[n].outcome) <= Rank(Judged(i))
          BY <2>5, <2>6, <3>2, <3>5, <5>1, <5>2
        <5>4. Right(n)
          BY <3>1, <3>5, <4>1, <5>1, <5>3
        <5>. QED
          BY <3>1, <5>4
      <4>. QED
        BY <4>2, <4>3
    <3>. QED
      BY <3>1, <3>3, <3>4, <3>5
  <2>9. Right(k)
    <3>1. 0..k \subseteq right
      <4>. HIDE DEF right
      <4>. QED
        BY <2>7, <2>8, UpToAll
    <3>2. k \in 0..k
      OBVIOUS
    <3>. QED
      BY <3>1, <3>2
  <2>. QED
    BY <1>2, <2>1, <2>2, <2>9 DEF EntrySays
<1>. QED
  BY <1>1, <1>2

\* What the first n lists say: what one of them says that none of the others betters.
ListStep(before, n, selected, body, receipt, profiles, t) ==
  IF n = 1 \/ Better(ListSays(n, selected[n], body, receipt, profiles, t), before)
  THEN ListSays(n, selected[n], body, receipt, profiles, t) ELSE before
ListsSay(selected, body, receipt, profiles, t, k, g) ==
  g = [n \in 0..k |-> IF n = 0 THEN Told("list_invalid", 0, 0)
                      ELSE ListStep(g[n - 1], n, selected, body, receipt, profiles, t)]

LEMMA SomeListsSay ==
  ASSUME NEW selected, NEW body, NEW receipt, NEW profiles, NEW t, NEW k \in Nat
  PROVE  \E g : ListsSay(selected, body, receipt, profiles, t, k, g)
<1>. DEFINE Says(m, g) == ListsSay(selected, body, receipt, profiles, t, m, g)
            First(before, n) == ListStep(before, n, selected, body, receipt, profiles, t)
            start == Told("list_invalid", 0, 0)
            fine == {m \in Nat : \E g : Says(m, g)}
<1>0. \A m, g : Says(m, g) <=>
        g = [n \in 0..m |-> IF n = 0 THEN start ELSE First(g[n - 1], n)]
  BY DEF ListsSay
<1>. HIDE DEF Says, First, start
<1>1. 0 \in fine
  <2>. DEFINE g == [n \in 0..0 |-> start]
  <2>1. g = [n \in 0..0 |-> IF n = 0 THEN start ELSE First(g[n - 1], n)]
    OBVIOUS
  <2>. QED
    BY <1>0, <2>1
<1>2. ASSUME NEW m \in Nat, m \in fine PROVE m + 1 \in fine
  <2>1. PICK g : Says(m, g)
    BY <1>2
  <2>2. g[0] = start /\ \A n \in 1..m : g[n] = First(g[n - 1], n)
    BY <1>0, <2>1
  <2>. DEFINE h == [n \in 0..(m + 1) |-> IF n <= m THEN g[n] ELSE First(g[m], m + 1)]
              next == [n \in 0..(m + 1) |-> IF n = 0 THEN start ELSE First(h[n - 1], n)]
  <2>3. ASSUME NEW n \in 0..(m + 1) PROVE h[n] = next[n]
    <3>1. CASE n = 0
      BY <2>2, <3>1
    <3>2. CASE n \in 1..m
      <4>1. n - 1 \in 0..(m + 1) /\ n - 1 <= m /\ n <= m /\ n # 0
        BY <3>2
      <4>. QED
        BY <2>2, <3>2, <4>1
    <3>3. CASE n = m + 1
      <4>1. n - 1 = m /\ m \in 0..(m + 1) /\ m <= m /\ ~(n <= m) /\ n # 0
        BY <3>3
      <4>. QED
        BY <3>3, <4>1
    <3>. QED
      BY <3>1, <3>2, <3>3
  <2>4. h = next
    BY <2>3
  <2>5. Says(m + 1, h)
    BY <1>0, <2>4
  <2>. QED
    BY <2>5
<1>3. \A n \in 1..k : n - 1 \in fine => n \in fine
  <2>1. ASSUME NEW n \in 1..k, n - 1 \in fine PROVE n \in fine
    <3>1. n - 1 \in Nat /\ (n - 1) + 1 = n
      OBVIOUS
    <3>. HIDE DEF fine
    <3>. QED
      BY <1>2, <2>1, <3>1
  <2>. QED
    BY <2>1
<1>4. 0..k \subseteq fine
  <2>. HIDE DEF fine
  <2>. QED
    BY <1>1, <1>3, UpToAll
<1>. QED
  BY <1>4 DEF Says

\* How good what a list says is.
LEMMA ListRanks ==
  ASSUME NEW pin, NEW list \in ListStates, NEW body, NEW receipt, NEW profiles, NEW t,
         NEW says, says = ListSays(pin, list, body, receipt, profiles, t)
  PROVE  /\ Rank(says.outcome) \in 1..5
         /\ list.status = "used" => Rank(says.outcome) <= 4
         /\ list.status # "used" => says.outcome = list.status /\ says.outcome # "trusted"
<1>1. CASE list.status # "used"
  <2>1. says.outcome = list.status
    BY <1>1, ListIs DEF Told
  <2>2. says.outcome = "expired" \/ says.outcome = "list_invalid"
    BY <1>1, <2>1 DEF ListStates
  <2>. QED
    BY <1>1, <2>1, <2>2, RankIs
<1>2. CASE list.status = "used"
  <2>1. says.outcome \in Judgements
    <3>1. CASE says = Told("untrusted_registry", 0, 0)
      BY <3>1 DEF Told, Judgements
    <3>2. CASE \E i \in 1..Len(list.entries) :
                 EntrySays(says, i, pin, list, body, receipt, profiles, t)
      <4>1. PICK i : EntrySays(says, i, pin, list, body, receipt, profiles, t)
        BY <3>2
      <4>2. says.outcome = EntryOutcome(list.entries[i], body, receipt, profiles, t)
        BY <4>1 DEF EntrySays, Told
      <4>. QED
        BY <4>2, EntryJudges
    <3>. QED
      BY <1>2, <3>1, <3>2, ListIs
  <2>. QED
    BY <1>2, <2>1, RankIs DEF Judgements
<1>. QED
  BY <1>1, <1>2

LEMMA EvaluateIs ==
  ASSUME NEW selected \in Seq(ListStates), NEW body, NEW receipt, NEW profiles, NEW t,
         body.authority = body.origin,
         NEW told, told = EvaluateBody(body, selected, receipt, profiles, t)
  PROVE  /\ Len(selected) = 0 => told = Told("list_invalid", 0, 0)
         /\ Len(selected) # 0 =>
              \E n \in 1..Len(selected) :
                told = ListSays(n, selected[n], body, receipt, profiles, t)
         /\ \A n \in 1..Len(selected) :
              Rank(told.outcome)
                <= Rank(ListSays(n, selected[n], body, receipt, profiles, t).outcome)
<1>1. PICK k \in Nat : k = Len(selected)
  OBVIOUS
<1>2. PICK g : ListsSay(selected, body, receipt, profiles, t, k, g) /\ told = g[k]
  <2>. DEFINE chosen == CHOOSE g : ListsSay(selected, body, receipt, profiles, t, k, g)
  <2>1. told = chosen[k]
    BY <1>1 DEF EvaluateBody, ListsSay, ListStep
  <2>2. ListsSay(selected, body, receipt, profiles, t, k, chosen)
    BY SomeListsSay
  <2>. QED
    BY <2>1, <2>2
<1>. DEFINE Says(n) == ListSays(n, selected[n], body, receipt, profiles, t)
            Right(n) == /\ \E i \in 1..n : g[n] = Says(i)
                        /\ \A i \in 1..n : Rank(g[n].outcome) <= Rank(Says(i).outcome)
            right == {n \in 0..k : n # 0 => Right(n)}
<1>3. g[0] = Told("list_invalid", 0, 0)
  BY <1>2 DEF ListsSay
<1>4. ASSUME NEW n \in 1..k
      PROVE  g[n] = IF n = 1 \/ Better(Says(n), g[n - 1]) THEN Says(n) ELSE g[n - 1]
  BY <1>2 DEF ListsSay, ListStep
<1>5. \A n \in 1..k : Rank(Says(n).outcome) \in 1..5
  <2>1. \A n \in 1..k : selected[n] \in ListStates
    BY <1>1
  <2>. QED
    BY <2>1, ListRanks
<1>. HIDE DEF Says
<1>6. 0 \in right
  OBVIOUS
<1>7. ASSUME NEW n \in 1..k, n - 1 \in right PROVE n \in right
  <2>1. n \in 0..k /\ n \in 1..n /\ 1..n = (1..(n - 1)) \cup {n} /\ 1..n \subseteq 1..k
    OBVIOUS
  <2>2. CASE n = 1
    <3>1. g[n] = Says(n)
      BY <1>4, <2>2
    <3>2. 1..n = {n}
      BY <2>2
    <3>3. Right(n)
      BY <1>5, <3>1, <3>2
    <3>. QED
      BY <2>1, <3>3
  <2>3. CASE n # 1
    <3>1. n - 1 # 0 /\ Right(n - 1)
      <4>1. n - 1 # 0
        BY <2>3
      <4>. QED
        BY <1>7, <4>1
    <3>2. PICK i \in 1..(n - 1) : g[n - 1] = Says(i)
      BY <3>1
    <3>3. i \in 1..n /\ i \in 1..k
      OBVIOUS
    <3>4. CASE Better(Says(n), g[n - 1])
      <4>1. g[n] = Says(n) /\ Rank(Says(n).outcome) < Rank(g[n - 1].outcome)
        BY <1>4, <3>4 DEF Better
      <4>2. \A m \in 1..n : Rank(g[n].outcome) <= Rank(Says(m).outcome)
        <5>1. Rank(Says(i).outcome) \in 1..5 /\ Rank(Says(n).outcome) \in 1..5
          BY <1>5, <3>3
        <5>2. \A m \in 1..n : m = n \/ Rank(g[n - 1].outcome) <= Rank(Says(m).outcome)
          BY <2>1, <3>1
        <5>3. \A m \in 1..n : Rank(Says(m).outcome) \in 1..5
          BY <1>5, <2>1
        <5>. QED
          BY <3>2, <4>1, <5>1, <5>2, <5>3
      <4>3. Right(n)
        BY <2>1, <4>1, <4>2
      <4>. QED
        BY <2>1, <4>3
    <3>5. CASE ~Better(Says(n), g[n - 1])
      <4>1. g[n] = Says(i) /\ ~(Rank(Says(n).outcome) < Rank(Says(i).outcome))
        BY <1>4, <2>3, <3>2, <3>5 DEF Better
      <4>2. \A m \in 1..n : Rank(g[n].outcome) <= Rank(Says(m).outcome)
        <5>1. Rank(Says(i).outcome) \in 1..5 /\ Rank(Says(n).outcome) \in 1..5
          BY <1>5, <3>3
        <5>2. \A m \in 1..n : m = n \/ Rank(g[n - 1].outcome) <= Rank(Says(m).outcome)
          BY <2>1, <3>1
        <5>. QED
          BY <3>2, <4>1, <5>1, <5>2
      <4>3. Right(n)
        BY <3>3, <4>1, <4>2
      <4>. QED
        BY <2>1, <4>3
    <3>. QED
      BY <3>4, <3>5
  <2>. QED
    BY <2>2, <2>3
<1>8. k # 0 => Right(k)
  <2>1. 0..k \subseteq right
    <3>. HIDE DEF right
    <3>. QED
      BY <1>6, <1>7, UpToAll
  <2>2. k \in 0..k
    OBVIOUS
  <2>. QED
    BY <2>1, <2>2
<1>. QED
  BY <1>1, <1>2, <1>3, <1>8 DEF Says

\* A list that is used was signed by the issuer its pin names.
ReportInv ==
  /\ lists \in Seq(ListStates) /\ Len(lists) = Len(Pins)
  /\ \A pin \in 1..Len(lists) : lists[pin].status = "used" => lists[pin].by = Pins[pin].issuer

LEMMA PinsAre == Len(Pins) \in Nat /\ DOMAIN Pins = 1..Len(Pins)
  BY PinsAssumption

LEMMA InitReport == TrustInit => ReportInv
<1>. SUFFICES ASSUME TrustInit PROVE ReportInv
  OBVIOUS
<1>1. PICK k \in Nat : k = Len(Pins) /\ DOMAIN Pins = 1..k
  BY PinsAre
<1>2. PICK none : none = [status |-> "list_invalid", entries |-> <<>>, by |-> ""]
  OBVIOUS
<1>3. none \in ListStates /\ none.status # "used"
  <2>1. <<>> \in Seq(Entries)
    OBVIOUS
  <2>2. PICK empty : empty = <<>> /\ empty \in Seq(Entries)
    BY <2>1
  <2>3. none = [status |-> "list_invalid", entries |-> empty, by |-> ""]
    BY <1>2, <2>2
  <2>4. "list_invalid" \in {"used", "expired", "list_invalid"} /\ "" \in Signers
    BY DEF Signers
  <2>5. none \in ListStates
    BY <2>2, <2>3, <2>4 DEF ListStates
  <2>. QED
    BY <2>3, <2>5
<1>4. lists = [pin \in 1..k |-> none]
  BY <1>1, <1>2 DEF TrustInit
<1>5. lists \in Seq(ListStates) /\ Len(lists) = k
  BY <1>3, <1>4
<1>6. \A pin \in 1..k : lists[pin].status # "used"
  BY <1>3, <1>4
<1>. QED
  BY <1>1, <1>5, <1>6 DEF ReportInv

LEMMA NextReport == ReportInv /\ [TrustNext]_trustVars => ReportInv'
<1>. SUFFICES ASSUME ReportInv, [TrustNext]_trustVars PROVE ReportInv'
  OBVIOUS
<1>1. PICK k \in Nat : k = Len(lists) /\ k = Len(Pins) /\ DOMAIN Pins = 1..k
  BY PinsAre DEF ReportInv
<1>2. lists \in [1..k -> ListStates]
  BY <1>1 DEF ReportInv
<1>3. ASSUME NEW pin \in 1..k, NEW state \in ListStates, lists' = [lists EXCEPT ![pin] = state],
             state.status = "used" => state.by = Pins[pin].issuer
      PROVE  ReportInv'
  <2>1. lists' \in Seq(ListStates) /\ Len(lists') = k
    BY <1>1, <1>3 DEF ReportInv
  <2>2. \A other \in 1..k : lists'[other] = IF other = pin THEN state ELSE lists[other]
    BY <1>2, <1>3
  <2>. QED
    BY <1>1, <1>3, <2>1, <2>2 DEF ReportInv
<1>4. ASSUME NEW v \in Versions, Serve(v.for, v) PROVE ReportInv'
  <2>1. CASE ~ValidVersion(v, v.for)
    BY <1>4, <2>1 DEF Serve, ReportInv
  <2>2. CASE ValidVersion(v, v.for)
    <3>1. PICK state : state = [status |-> "used", entries |-> v.entries, by |-> v.author]
      OBVIOUS
    <3>2. /\ v.for \in 1..k /\ v.entries \in Seq(Entries) /\ v.author \in Signers
      BY <1>1, VersionsAssumption DEF Signers
    <3>3. state \in ListStates
      BY <3>1, <3>2 DEF ListStates
    <3>4. lists' = [lists EXCEPT ![v.for] = state]
      BY <1>4, <2>2, <3>1 DEF Serve
    <3>5. state.by = Pins[v.for].issuer
      BY <2>2, <3>1 DEF ValidVersion
    <3>. QED
      BY <1>3, <3>2, <3>3, <3>4, <3>5
  <2>. QED
    BY <2>1, <2>2
<1>5. ASSUME NEW pin \in DOMAIN Pins, NEW status \in {"expired", "list_invalid"}, Lapse(pin, status)
      PROVE  ReportInv'
  <2>1. PICK state : state = [lists[pin] EXCEPT !.status = status]
    OBVIOUS
  <2>2. pin \in 1..k /\ lists[pin] \in ListStates
    BY <1>1, <1>2
  <2>3. state \in ListStates /\ state.status # "used"
    BY <2>1, <2>2 DEF ListStates
  <2>4. lists' = [lists EXCEPT ![pin] = state]
    BY <1>5, <2>1 DEF Lapse
  <2>. QED
    BY <1>3, <2>2, <2>3, <2>4
<1>6. CASE lists' = lists
  BY <1>6 DEF ReportInv
<1>7. ASSUME NEW r, NEW profiles, Learn(r, profiles) PROVE lists' = lists
  BY <1>7 DEF Learn
<1>. QED
  BY <1>4, <1>5, <1>6, <1>7 DEF TrustNext, NextDay, trustVars

LEMMA AloneIs ==
  ASSUME NEW list \in ListStates, NEW i \in DOMAIN list.entries,
         NEW alone, alone = Alone(list, i)
  PROVE  /\ alone \in ListStates /\ alone.status = list.status
         /\ Len(alone.entries) = 1 /\ alone.entries[1] = list.entries[i]
<1>1. list.entries[i] \in Entries
  BY DEF ListStates
<1>2. <<list.entries[i]>> \in Seq(Entries)
  BY <1>1
<1>3. /\ alone \in ListStates /\ alone.status = list.status
      /\ alone.entries = <<list.entries[i]>>
  BY <1>2 DEF Alone, ListStates
<1>. QED
  BY <1>3

LEMMA OneListSays ==
  ASSUME NEW list \in ListStates, NEW body, NEW receipt, NEW profiles, NEW t,
         body.authority = body.origin
  PROVE  EvaluateBody(body, <<list>>, receipt, profiles, t)
           = ListSays(1, list, body, receipt, profiles, t)
<1>1. <<list>> \in Seq(ListStates) /\ Len(<<list>>) = 1 /\ <<list>>[1] = list /\ 1..1 = {1}
  OBVIOUS
<1>2. PICK selected \in Seq(ListStates) : selected = <<list>>
  BY <1>1
<1>3. PICK told : told = EvaluateBody(body, selected, receipt, profiles, t)
  OBVIOUS
<1>4. Len(selected) # 0
  BY <1>1, <1>2
<1>5. \E n \in 1..Len(selected) : told = ListSays(n, selected[n], body, receipt, profiles, t)
  BY <1>3, <1>4, EvaluateIs
<1>6. PICK n \in 1..Len(selected) : told = ListSays(n, selected[n], body, receipt, profiles, t)
  BY <1>5
<1>7. n = 1
  BY <1>1, <1>2
<1>. QED
  BY <1>1, <1>2, <1>3, <1>6, <1>7

LEMMA OneListRanks ==
  ASSUME NEW list \in ListStates, NEW body, NEW receipt, NEW profiles, NEW t,
         body.authority = body.origin
  PROVE  Rank(EvaluateBody(body, <<list>>, receipt, profiles, t).outcome) \in 1..5
  BY OneListSays, ListRanks

\* One list alone, or one entry of it, says nothing better than all the lists do.
LEMMA OneIsNoBetter ==
  ASSUME NEW pin, NEW list \in ListStates, NEW body, NEW receipt, NEW profiles, NEW t,
         body.authority = body.origin
  PROVE  /\ Rank(ListSays(pin, list, body, receipt, profiles, t).outcome)
              <= Rank(EvaluateBody(body, <<list>>, receipt, profiles, t).outcome)
         /\ \A i \in DOMAIN list.entries :
              Rank(ListSays(pin, list, body, receipt, profiles, t).outcome)
                <= Rank(EvaluateBody(body, <<Alone(list, i)>>, receipt, profiles, t).outcome)
<1>1. ASSUME NEW other \in ListStates
      PROVE  EvaluateBody(body, <<other>>, receipt, profiles, t)
               = ListSays(1, other, body, receipt, profiles, t)
  BY OneListSays
<1>2. PICK says : says = ListSays(pin, list, body, receipt, profiles, t)
  OBVIOUS
<1>. DEFINE Judged(i) == EntryOutcome(list.entries[i], body, receipt, profiles, t)
<1>3. /\ list.status # "used" => says.outcome = list.status
      /\ list.status = "used" =>
           /\ Rank(says.outcome) <= 4
           /\ \A i \in 1..Len(list.entries) : list.entries[i].origin = body.origin =>
                Rank(says.outcome) <= Rank(Judged(i))
      /\ Rank(says.outcome) \in 1..5
  BY <1>2, ListIs, ListRanks
<1>4. PICK k \in Nat : k = Len(list.entries) /\ DOMAIN list.entries = 1..k
  BY DEF ListStates
<1>5. Rank(says.outcome) <= Rank(EvaluateBody(body, <<list>>, receipt, profiles, t).outcome)
  <2>1. PICK one : one = ListSays(1, list, body, receipt, profiles, t)
    OBVIOUS
  <2>2. CASE list.status # "used"
    <3>1. one.outcome = list.status
      BY <2>1, <2>2, ListRanks
    <3>. QED
      BY <1>1, <1>3, <2>1, <2>2, <3>1
  <2>3. CASE list.status = "used" /\ one = Told("untrusted_registry", 0, 0)
    <3>1. one.outcome = "untrusted_registry"
      BY <2>3 DEF Told
    <3>. QED
      BY <1>1, <1>3, <2>1, <2>3, <3>1, RankIs
  <2>4. CASE list.status = "used" /\ \E i \in 1..Len(list.entries) :
                                       EntrySays(one, i, 1, list, body, receipt, profiles, t)
    <3>1. PICK i \in 1..Len(list.entries) : EntrySays(one, i, 1, list, body, receipt, profiles, t)
      BY <2>4
    <3>2. one.outcome = Judged(i) /\ list.entries[i].origin = body.origin
      BY <3>1 DEF EntrySays, Told
    <3>. QED
      BY <1>1, <1>3, <2>1, <2>4, <3>2
  <2>. QED
    BY <2>1, <2>2, <2>3, <2>4, ListIs
<1>6. ASSUME NEW i \in DOMAIN list.entries
      PROVE  Rank(says.outcome) <= Rank(EvaluateBody(body, <<Alone(list, i)>>, receipt, profiles, t).outcome)
  <2>1. PICK alone : alone = Alone(list, i)
    OBVIOUS
  <2>2. alone \in ListStates /\ alone.status = list.status
    BY <2>1, AloneIs
  <2>3. Len(alone.entries) = 1 /\ alone.entries[1] = list.entries[i] /\ 1..1 = {1}
    BY <2>1, AloneIs
  <2>4. PICK one : one = ListSays(1, alone, body, receipt, profiles, t)
    OBVIOUS
  <2>5. EvaluateBody(body, <<alone>>, receipt, profiles, t) = one
    BY <1>1, <2>2, <2>4
  <2>6. CASE list.status # "used"
    <3>1. one.outcome = list.status
      BY <2>2, <2>4, <2>6, ListRanks
    <3>. QED
      BY <1>3, <2>1, <2>5, <2>6, <3>1
  <2>7. CASE list.status = "used" /\ one = Told("untrusted_registry", 0, 0)
    <3>1. one.outcome = "untrusted_registry"
      BY <2>7 DEF Told
    <3>. QED
      BY <1>3, <2>1, <2>5, <2>7, <3>1, RankIs
  <2>8. CASE list.status = "used" /\ \E n \in 1..Len(alone.entries) :
                                       EntrySays(one, n, 1, alone, body, receipt, profiles, t)
    <3>1. EntrySays(one, 1, 1, alone, body, receipt, profiles, t)
      BY <2>3, <2>8
    <3>2. one.outcome = Judged(i) /\ list.entries[i].origin = body.origin
      BY <2>3, <3>1 DEF EntrySays, Told
    <3>. QED
      BY <1>3, <1>4, <2>1, <2>5, <2>8, <3>2
  <2>. QED
    BY <2>2, <2>4, <2>6, <2>7, <2>8, ListIs
<1>. QED
  BY <1>2, <1>5, <1>6

\* Of the lists as they are selected.
LEMMA GroundIsOne ==
  ASSUME ReportInv, NEW body, NEW receipt, NEW profiles, NEW t,
         receipt = NoReceipt \/ receipt.registry = body.origin,
         NEW told, told = EvaluateBody(body, lists, receipt, profiles, t)
  PROVE  /\ told.outcome = "trusted" =>
              /\ lists[told.pin].by = Pins[told.pin].issuer
              /\ EvaluateBody(body, <<Alone(lists[told.pin], told.index)>>, receipt, profiles, t).outcome
                   = "trusted"
         /\ \A pin \in DOMAIN lists :
              /\ Rank(told.outcome)
                   <= Rank(EvaluateBody(body, <<lists[pin]>>, receipt, profiles, t).outcome)
              /\ \A i \in DOMAIN lists[pin].entries :
                   Rank(told.outcome)
                     <= Rank(EvaluateBody(body, <<Alone(lists[pin], i)>>, receipt, profiles, t).outcome)
         /\ Rank(told.outcome) <= Rank(EvaluateBody(body, lists, NoReceipt, profiles, t).outcome)
<1>1. PICK k \in Nat : k = Len(lists) /\ DOMAIN lists = 1..k
  BY DEF ReportInv
<1>2. /\ lists \in Seq(ListStates) /\ \A pin \in 1..k : lists[pin] \in ListStates
      /\ \A pin \in 1..k : lists[pin].status = "used" => lists[pin].by = Pins[pin].issuer
  BY <1>1 DEF ReportInv
<1>3. CASE body.authority # body.origin
  <2>1. \A selected, r : EvaluateBody(body, selected, r, profiles, t) = Told("untrusted_registry", 0, 0)
    BY <1>3 DEF EvaluateBody
  <2>2. Told("untrusted_registry", 0, 0).outcome = "untrusted_registry"
    BY DEF Told
  <2>. HIDE DEF Told
  <2>. QED
    BY <2>1, <2>2, RankIs
<1>4. CASE body.authority = body.origin
  <2>. DEFINE Says(n, r) == ListSays(n, lists[n], body, r, profiles, t)
  <2>1. /\ k = 0 => told = Told("list_invalid", 0, 0)
        /\ k # 0 => \E n \in 1..k : told = Says(n, receipt)
        /\ \A n \in 1..k : Rank(told.outcome) <= Rank(Says(n, receipt).outcome)
    BY <1>1, <1>2, <1>4, EvaluateIs
  <2>2. ASSUME told.outcome = "trusted"
        PROVE  /\ lists[told.pin].by = Pins[told.pin].issuer
               /\ EvaluateBody(body, <<Alone(lists[told.pin], told.index)>>, receipt, profiles, t).outcome
                    = "trusted"
    <3>1. k # 0
      BY <2>1, <2>2 DEF Told
    <3>2. PICK n \in 1..k : told = Says(n, receipt)
      BY <2>1, <3>1
    <3>3. PICK list \in ListStates : list = lists[n]
      BY <1>2
    <3>4. list.status = "used"
      BY <2>2, <3>2, <3>3, ListRanks
    <3>5. told # Told("untrusted_registry", 0, 0)
      BY <2>2 DEF Told
    <3>6. PICK i \in 1..Len(list.entries) :
            EntrySays(told, i, n, list, body, receipt, profiles, t)
      BY <3>2, <3>3, <3>4, <3>5, ListIs
    <3>7. /\ told.pin = n /\ told.index = i
          /\ EntryOutcome(list.entries[i], body, receipt, profiles, t) = "trusted"
          /\ list.entries[i].origin = body.origin
      BY <2>2, <3>6 DEF EntrySays, Told
    <3>8. lists[n].by = Pins[n].issuer
      BY <1>2, <3>3, <3>4
    <3>9. EvaluateBody(body, <<Alone(list, i)>>, receipt, profiles, t).outcome = "trusted"
      <4>1. PICK alone : alone = Alone(list, i)
        OBVIOUS
      <4>2. i \in DOMAIN list.entries
        BY DEF ListStates
      <4>3. /\ alone \in ListStates /\ alone.status = "used"
            /\ Len(alone.entries) = 1 /\ alone.entries[1] = list.entries[i]
        BY <3>4, <4>1, <4>2, AloneIs
      <4>4. PICK one : one = ListSays(1, alone, body, receipt, profiles, t)
        OBVIOUS
      <4>5. EvaluateBody(body, <<alone>>, receipt, profiles, t) = one
        BY <1>4, <4>3, <4>4, OneListSays
      <4>6. Rank(one.outcome) <= Rank("trusted")
        <5>1. \A m \in 1..Len(alone.entries) : alone.entries[m].origin = body.origin =>
                Rank(one.outcome) <= Rank(EntryOutcome(alone.entries[m], body, receipt, profiles, t))
          BY <4>3, <4>4, ListIs
        <5>. QED
          BY <3>7, <4>3, <5>1
      <4>7. one.outcome \in Judgements
        <5>1. CASE one = Told("untrusted_registry", 0, 0)
          BY <5>1 DEF Told, Judgements
        <5>2. ASSUME NEW m, EntrySays(one, m, 1, alone, body, receipt, profiles, t)
              PROVE  one.outcome \in Judgements
          <6>1. one.outcome = EntryOutcome(alone.entries[m], body, receipt, profiles, t)
            BY <5>2 DEF EntrySays, Told
          <6>. QED
            BY <6>1, EntryJudges
        <5>. QED
          BY <4>3, <4>4, <5>1, <5>2, ListIs
      <4>8. one.outcome = "trusted"
        BY <4>6, <4>7, RankIs DEF Judgements
      <4>. QED
        BY <4>1, <4>5, <4>8
    <3>. QED
      BY <3>3, <3>7, <3>8, <3>9
  <2>3. ASSUME NEW pin \in 1..k
        PROVE  /\ Rank(told.outcome)
                    <= Rank(EvaluateBody(body, <<lists[pin]>>, receipt, profiles, t).outcome)
               /\ \A i \in DOMAIN lists[pin].entries :
                    Rank(told.outcome)
                      <= Rank(EvaluateBody(body, <<Alone(lists[pin], i)>>, receipt, profiles, t).outcome)
    <3>1. PICK list \in ListStates : list = lists[pin]
      BY <1>2
    <3>2. PICK n \in 1..k : told = Says(n, receipt)
      BY <2>1
    <3>3. Rank(told.outcome) \in 1..5
      BY <1>2, <3>2, ListRanks
    <3>4. /\ Rank(told.outcome) <= Rank(ListSays(pin, list, body, receipt, profiles, t).outcome)
          /\ Rank(ListSays(pin, list, body, receipt, profiles, t).outcome) \in 1..5
      BY <2>1, <3>1, ListRanks
    <3>5. PICK best \in 1..5 : best = Rank(ListSays(pin, list, body, receipt, profiles, t).outcome)
      BY <3>4
    <3>6. /\ best <= Rank(EvaluateBody(body, <<list>>, receipt, profiles, t).outcome)
          /\ \A i \in DOMAIN list.entries :
               best <= Rank(EvaluateBody(body, <<Alone(list, i)>>, receipt, profiles, t).outcome)
      BY <1>4, <3>5, OneIsNoBetter
    <3>7. Rank(told.outcome) <= best
      BY <3>1, <3>4, <3>5
    <3>8. Rank(EvaluateBody(body, <<list>>, receipt, profiles, t).outcome) \in 1..5
      BY <1>4, OneListRanks
    <3>9. ASSUME NEW i \in DOMAIN list.entries
          PROVE  Rank(told.outcome)
                   <= Rank(EvaluateBody(body, <<Alone(list, i)>>, receipt, profiles, t).outcome)
      <4>1. Alone(list, i) \in ListStates
        BY AloneIs
      <4>2. PICK other \in ListStates : other = Alone(list, i)
        BY <4>1
      <4>3. Rank(EvaluateBody(body, <<other>>, receipt, profiles, t).outcome) \in 1..5
        BY <1>4, OneListRanks
      <4>. QED
        BY <3>3, <3>6, <3>7, <4>2, <4>3
    <3>. QED
      BY <3>1, <3>3, <3>6, <3>7, <3>8, <3>9
  <2>4. Rank(told.outcome) <= Rank(EvaluateBody(body, lists, NoReceipt, profiles, t).outcome)
    <3>1. PICK bare : bare = EvaluateBody(body, lists, NoReceipt, profiles, t)
      OBVIOUS
    <3>2. /\ k = 0 => bare = Told("list_invalid", 0, 0)
          /\ k # 0 => \E n \in 1..k : bare = Says(n, NoReceipt)
      BY <1>1, <1>2, <1>4, <3>1, EvaluateIs
    <3>3. CASE k = 0
      <4>1. told.outcome = "list_invalid" /\ bare.outcome = "list_invalid"
        BY <2>1, <3>2, <3>3 DEF Told
      <4>. QED
        BY <3>1, <4>1, RankIs
    <3>4. CASE k # 0
      <4>1. PICK n \in 1..k : bare = Says(n, NoReceipt)
        BY <3>2, <3>4
      <4>2. PICK says : says = Says(n, receipt)
        OBVIOUS
      <4>3. PICK list \in ListStates : list = lists[n]
        BY <1>2
      <4>4. Rank(told.outcome) <= Rank(says.outcome) /\ Rank(says.outcome) \in 1..5
        BY <2>1, <4>2, <4>3, ListRanks
      <4>5. Rank(says.outcome) <= Rank(bare.outcome)
        <5>1. CASE list.status # "used"
          BY <4>1, <4>2, <4>3, <5>1, ListRanks, RankIs
        <5>2. CASE list.status = "used" /\ bare = Told("untrusted_registry", 0, 0)
          <6>1. bare.outcome = "untrusted_registry"
            BY <5>2 DEF Told
          <6>2. Rank(says.outcome) <= 4
            BY <4>2, <4>3, <5>2, ListRanks
          <6>. QED
            BY <6>1, <6>2, RankIs
        <5>3. CASE list.status = "used" /\ \E i \in 1..Len(list.entries) :
                     EntrySays(bare, i, n, list, body, NoReceipt, profiles, t)
          <6>1. PICK i \in 1..Len(list.entries) :
                  EntrySays(bare, i, n, list, body, NoReceipt, profiles, t)
            BY <5>3
          <6>2. PICK entry : entry = list.entries[i]
            OBVIOUS
          <6>3. /\ bare.outcome = EntryOutcome(entry, body, NoReceipt, profiles, t)
                /\ entry.origin = body.origin
            BY <6>1, <6>2 DEF EntrySays, Told
          <6>4. Rank(says.outcome) <= Rank(EntryOutcome(entry, body, receipt, profiles, t))
            BY <4>2, <4>3, <5>3, <6>2, <6>3, ListIs
          <6>5. Rank(EntryOutcome(entry, body, receipt, profiles, t)) <= Rank(bare.outcome)
            BY <6>3, ReceiptHelps
          <6>6. /\ EntryOutcome(entry, body, receipt, profiles, t) \in Judgements
                /\ bare.outcome \in Judgements
            BY <6>3, EntryJudges
          <6>7. /\ Rank(EntryOutcome(entry, body, receipt, profiles, t)) \in 1..5
                /\ Rank(bare.outcome) \in 1..5
            BY <6>6, RankIs DEF Judgements
          <6>. QED
            BY <4>4, <6>4, <6>5, <6>7
        <5>. QED
          BY <4>1, <4>3, <5>1, <5>2, <5>3, ListIs
      <4>6. Rank(told.outcome) \in 1..5 /\ Rank(bare.outcome) \in 1..5
        <5>1. \E m \in 1..k : told = Says(m, receipt)
          BY <2>1, <3>4
        <5>. QED
          BY <1>2, <4>1, <5>1, ListRanks
      <4>. QED
        BY <3>1, <4>4, <4>5, <4>6
    <3>. QED
      BY <3>3, <3>4
  <2>. QED
    BY <1>1, <2>2, <2>3, <2>4
<1>. QED
  BY <1>3, <1>4

\* Trust rests on one entry of one list of the pinned issuer; no further list, entry or
\* receipt takes it away.
THEOREM TrustRestsOnOne == TrustSpec => []TrustHasOneGround
<1>1. ReportInv => TrustHasOneGround
  <2>. SUFFICES ASSUME ReportInv, NEW body \in TrustBodies,
                       NEW receipt \in Receipts(body) \cup {NoReceipt}
                PROVE  LET rank == Rank(Outcome(body, lists, receipt))
                           told == EvaluateBody(body, lists, receipt, capabilities[body.origin], today)
                       IN  /\ told.outcome = "trusted" =>
                                /\ lists[told.pin].by = Pins[told.pin].issuer
                                /\ Outcome(body, <<Alone(lists[told.pin], told.index)>>, receipt) = "trusted"
                           /\ \A pin \in DOMAIN lists :
                                /\ rank <= Rank(Outcome(body, <<lists[pin]>>, receipt))
                                /\ \A i \in DOMAIN lists[pin].entries :
                                     rank <= Rank(Outcome(body, <<Alone(lists[pin], i)>>, receipt))
                           /\ rank <= Rank(Outcome(body, lists, NoReceipt))
    BY DEF TrustHasOneGround
  <2>1. receipt = NoReceipt \/ receipt.registry = body.origin
    BY DEF Receipts
  <2>2. PICK profiles, t : profiles = capabilities[body.origin] /\ t = today
    OBVIOUS
  <2>3. PICK told : told = EvaluateBody(body, lists, receipt, profiles, t)
    OBVIOUS
  <2>. QED
    BY <2>1, <2>2, <2>3, GroundIsOne DEF Outcome
<1>. QED
  BY <1>1, InitReport, NextReport, PTL DEF TrustSpec
=============================================================================
