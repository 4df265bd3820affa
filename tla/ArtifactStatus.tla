--------------------------- MODULE ArtifactStatus ---------------------------
(***************************************************************************)
(* What a holder makes of an artifact's body when it relies on it          *)
(* (a2a.py artifact_status, section 8 step 6): from a retrieval, a bundle  *)
(* and entries of the recall feed (recall.py verify_change), which it got  *)
(* at different moments and which may be late, repeated or false.          *)
(***************************************************************************)
EXTENDS Naturals, Sequences, Functions

CONSTANTS
  Successors,           \* the later versions that may supersede the body
  MaxEvents, MaxFeed    \* bounds of the model

NoOne == "no one"

VARIABLES
  events,       \* what the registry recorded of the body: retracted or republished
  successors,   \* the later versions that name it as superseded
  retrieval,    \* how many events the last retrieval carried, and its status
  bundle,       \* how many the holder's bundle carries, and which later versions
  feed          \* the entries of the feed, as they came

statusVars == <<events, successors, retrieval, bundle, feed>>

Retrieved(count, superseded, by) == [events |-> count, superseded |-> superseded, by |-> by]
Bundled(count, held, versions) == [events |-> count, held |-> held, successors |-> versions]

-----------------------------------------------------------------------------
(* The registry and the feed (external) *)

Happen(type) ==
  /\ Len(events) < MaxEvents /\ events' = Append(events, type)
  /\ UNCHANGED <<successors, retrieval, bundle, feed>>
Supersede(version) ==
  /\ version \notin successors /\ successors' = successors \cup {version}
  /\ UNCHANGED <<events, retrieval, bundle, feed>>
\* The status of a superseded body names a later version, or none.
Retrieve(by) ==
  /\ retrieval' = Retrieved(Len(events), successors # {}, by)
  /\ UNCHANGED <<events, successors, bundle, feed>>
Collect ==
  /\ bundle' = Bundled(Len(events), TRUE, successors)
  /\ UNCHANGED <<events, successors, retrieval, feed>>

\* An entry is about the event at its index, which may not be the registry's, or about
\* a later version, which may be no one.
Entry(kind, index, by, genuine) ==
  [kind |-> kind, index |-> index, by |-> by, genuine |-> genuine]
Notify(entry) ==
  /\ Len(feed) < MaxFeed /\ feed' = Append(feed, entry)
  /\ UNCHANGED <<events, successors, retrieval, bundle>>
Entries ==
  {Entry("lifecycle", i, NoOne, genuine) : i \in DOMAIN events, genuine \in BOOLEAN}
  \cup {Entry("superseded", 0, version, TRUE) : version \in successors}
  \cup {Entry("superseded", 0, NoOne, FALSE)}

-----------------------------------------------------------------------------
(* artifact_status *)

\* The retrieval is the fresher view and replaces the bundle's, unless it carries no events.
View == IF retrieval.events > 0 THEN retrieval.events ELSE bundle.events
HasEvidence == bundle.held \/ retrieval.events > 0

FoldedFrom(count) ==
  IF count > 0 /\ events[count] = "retracted" THEN "retracted" ELSE "not_retracted"

\* verify_change: the served list has the entry's event at its index; the later version
\* was retrieved and names the body.
EntryCounts(entry) ==
  /\ entry.genuine
  /\ IF entry.kind = "lifecycle" THEN entry.index <= View ELSE entry.by \in bundle.successors

\* What an accepted entry changes; the last one says who superseded the body.
\* Faulty variant: the entry's own event decides.
AppliedByEvent(status, entry) ==
  IF ~EntryCounts(entry) THEN [status EXCEPT !.rejected = @ \cup {entry}]
  ELSE IF entry.kind = "lifecycle" THEN [status EXCEPT !.retraction = FoldedFrom(entry.index)]
  ELSE [status EXCEPT !.superseded = TRUE, !.by = entry.by]
Applied(status, entry) ==
  IF ~EntryCounts(entry) THEN [status EXCEPT !.rejected = @ \cup {entry}]
  ELSE IF entry.kind = "lifecycle" THEN [status EXCEPT !.retraction = FoldedFrom(View)]
  ELSE [status EXCEPT !.superseded = TRUE, !.by = entry.by]

\* Before the feed is heard.
Unheard ==
  [retraction |-> IF HasEvidence THEN FoldedFrom(View) ELSE "unsettled",
   superseded |-> retrieval.superseded, by |-> retrieval.by, rejected |-> {}]

\* Entries are only verified against evidence; without any the call fails.
Status(entries) ==
  LET after[n \in 0..Len(entries)] ==
        IF n = 0 THEN Unheard ELSE Applied(after[n - 1], entries[n])
  IN  IF entries # <<>> /\ ~HasEvidence THEN [Unheard EXCEPT !.retraction = "refused"]
      ELSE after[Len(entries)]

-----------------------------------------------------------------------------
StatusInit ==
  /\ events = <<>> /\ successors = {} /\ feed = <<>>
  /\ retrieval = Retrieved(0, FALSE, NoOne) /\ bundle = Bundled(0, FALSE, {})
StatusNext ==
  \/ \E type \in {"retracted", "republished"} : Happen(type)
  \/ \E version \in Successors : Supersede(version)
  \/ \E by \in successors \cup {NoOne} : Retrieve(by)
  \/ Collect
  \/ \E entry \in Entries : Notify(entry)
StatusSpec == StatusInit /\ [][StatusNext]_statusVars

-----------------------------------------------------------------------------
\* Who may be reported to have superseded the body: whoever accepted entries name and, if
\* they name no one, whoever the retrieval does.
Naming(entries) == {entry \in entries : entry.kind = "superseded" /\ EntryCounts(entry)}
NamedBy(entries) ==
  IF Naming(entries) = {} THEN {retrieval.by} ELSE {entry.by : entry \in Naming(entries)}
But(status) == [status EXCEPT !.by = NoOne]

\* The order in which entries of the feed come, and how often each does, changes nothing
\* but which later version is named, when accepted entries name several (the last one
\* heard is); and no event that an accepted entry is about is later than the state of
\* retraction the status reports.
StatusIsUnordered ==
  /\ \A k \in 0..(Len(feed) + 1) : \A other \in [1..k -> Range(feed)] :
       Range(other) = Range(feed) =>
         /\ But(Status(other)) = But(Status(feed))
         /\ Status(other).by \in IF HasEvidence THEN NamedBy(Range(feed)) ELSE {retrieval.by}
  /\ \E k \in 0..Len(events) :
       /\ Status(feed).retraction \in {FoldedFrom(k), "unsettled", "refused"}
       /\ \A entry \in Range(feed) \ Status(feed).rejected : HasEvidence => entry.index <= k
=============================================================================
