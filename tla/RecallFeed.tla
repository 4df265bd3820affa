----------------------------- MODULE RecallFeed -----------------------------
(***************************************************************************)
(* Retraction recall: one RecallConsumer (acdp_verifier/recall.py) pulling *)
(* one registry's GET /changes feed.                                       *)
(*                                                                         *)
(* The registry is external: it records changes, may reset its sequence    *)
(* (seq is then reused), may stop placing old cursors, and answers a pull  *)
(* with a page or an error.  The consumer is translated from the class,    *)
(* with on_page and on_error cut into one step per entry and one step per  *)
(* re-verified context, because the registry keeps moving while the        *)
(* caller's evidence_for and reverify callbacks run.                       *)
(*                                                                         *)
(* A change is named by its place in the sequence `changes` of everything  *)
(* the registry ever recorded; the code sees only its seq.                 *)
(***************************************************************************)
EXTENDS Integers, FiniteSets, Sequences

CONSTANTS
  Watched,      \* contexts the consumer relies on (RecallConsumer.watched)
  Neighbours,   \* other contexts that share a bucket with a watched one
  Strangers,    \* contexts outside every watched bucket
  Forms,        \* what the registry may record: subset of AllForms
  Filtered,     \* RecallConsumer.exact is set (a bucket watch, section 6.1)
  MaxLimit,     \* largest `limit` the caller asks for
  PageCapacity, \* entries that fit in MAX_PAGE_BYTES
  MaxInFlight,  \* 1: the caller waits for each answer; 2: a hint overlaps a poll
  PageMayFail,  \* evidence_for or reverify may raise inside on_page
  MaxChanges, MaxEpoch, MaxFaults   \* bounds of the model

AllForms == {"valid", "forged", "malformed"}
Contexts == Watched \cup Neighbours \cup Strangers

ASSUME ContextsAssumption == Watched \cap (Neighbours \cup Strangers) = {}
ASSUME FormsAssumption == Forms \subseteq AllForms
ASSUME SwitchAssumption == Filtered \in BOOLEAN /\ PageMayFail \in BOOLEAN
ASSUME LimitAssumption ==
  {MaxLimit, PageCapacity, MaxInFlight} \subseteq Nat \ {0}
ASSUME BoundAssumption == {MaxChanges, MaxEpoch, MaxFaults} \subseteq Nat

VARIABLES
  changes,   \* registry: every change recorded, oldest first
  epoch,     \* registry: which sequence is running (a reset starts the next)
  base,      \* registry: changes recorded before this sequence began
  oldest,    \* registry: cursors below this position cannot be placed
  inflight,  \* answers on their way to the consumer
  cursor,    \* RecallConsumer.cursor
  processed, \* RecallConsumer.processed (this authority's seqs)
  atHead,    \* RecallConsumer.at_head
  results,   \* RecallConsumer.results, as the caller has received them
  mode,      \* where the consumer's single thread is
  reply,     \* the answer being worked on
  todo,      \* on_page: the page's entries still to be processed
  page,      \* on_page: the local list `page`
  left,      \* on_error: watched contexts still to be re-verified
  saved,     \* the cursor the caller persisted
  seen,      \* history: length of `changes` when each context was last re-verified
  gaps,      \* history: changes that a (re)join of the feed jumped over
  checks,    \* history: verify_change calls per change since the last resync, and
             \* how many of them the raising reverify callback undid
  faults     \* history: faults spent so far

registry == <<changes, epoch, base, oldest>>
handling == <<mode, reply, todo, page, left>>
history  == <<seen, gaps, checks>>
vars == <<registry, inflight, cursor, processed, atHead, results, handling,
          saved, history, faults>>

-----------------------------------------------------------------------------
(* Values *)

Change == [epoch : Nat, seq : Nat, ctx : Contexts, form : AllForms]

\* An opaque cursor string.  `after` is the position a persisted cursor stands
\* for; None and "head" carry none, and there it only remembers, for the
\* properties, how far the consumer had verified when it took that cursor.
Cursor == [kind : {"none", "head", "at"}, epoch : Nat, after : Nat]
NoCursor == [kind |-> "none", epoch |-> 0, after |-> 0]
HeadCursor(p) == [kind |-> "head", epoch |-> 0, after |-> p]

Codes == {"", "cursor_expired", "invalid_cursor", "rate_limited"}
Reply == [kind : {"page", "error"}, since : Cursor, limit : Nat, entries : SUBSET Nat,
          next : Cursor, more : BOOLEAN, gap : SUBSET Nat, head : Nat, code : Codes]

ErrorReply(since, code) ==
  [kind |-> "error", since |-> since, limit |-> 0, entries |-> {}, next |-> since,
   more |-> FALSE, gap |-> {}, head |-> 0, code |-> code]
NoReply == ErrorReply(NoCursor, "")

Result == [at : Nat, accepted : BOOLEAN]

Checks == [calls : Nat, raised : Nat]
Unchecked == [calls |-> 0, raised |-> 0]

Recorded == 1..Len(changes)

-----------------------------------------------------------------------------
(* The registry's answer to GET /changes *)

Placeable(c) == c.kind = "at" => c.epoch = epoch /\ c.after >= oldest

\* The position from which the registry serves: behind the cursor, at the
\* oldest kept entry when there is no cursor, at the end for "head".
StartOf(c) ==
  IF c.kind = "at" THEN c.after ELSE IF c.kind = "none" THEN oldest ELSE Len(changes)

\* The registry applies the watch filter of request_params: with buckets, a
\* candidate set that still holds the neighbours.
Candidates == IF Filtered THEN Watched \cup Neighbours ELSE Contexts

\* A page covers the positions from+1..to.  Delivery is at least once (from may
\* lie one before the cursor), the registry clamps `limit` and a bucket filter
\* thins pages, so a short or empty page may still have more behind it.
PageOf(c, limit, from, to) ==
  [kind |-> "page", since |-> c, limit |-> limit,
   entries |-> {a \in (from + 1)..to : changes[a].ctx \in Candidates},
   next |-> [kind |-> "at", epoch |-> epoch, after |-> to],
   more |-> to < Len(changes),
   gap |-> (c.after + 1)..StartOf(c),
   head |-> Len(changes), code |-> ""]

Pages(c, limit) ==
  {PageOf(c, limit, from, to) :
     from \in {StartOf(c)} \cup {f \in {StartOf(c) - 1} : c.kind = "at" /\ f >= base},
     to \in {t \in StartOf(c)..Len(changes) : t > StartOf(c) \/ t = Len(changes)}}

Answers(c, limit) ==
  IF Placeable(c) THEN {p \in Pages(c, limit) : Cardinality(p.entries) <= limit}
  ELSE {ErrorReply(c, code) : code \in {"cursor_expired", "invalid_cursor"}}

-----------------------------------------------------------------------------
(* Registry steps (external) *)

Record(c, f) ==
  /\ Len(changes) < MaxChanges
  /\ changes' = Append(changes, [epoch |-> epoch, seq |-> Len(changes) + 1 - base,
                                 ctx |-> c, form |-> f])
  /\ UNCHANGED <<epoch, base, oldest, inflight, cursor, processed, atHead, results,
                 handling, saved, history, faults>>

ResetSequence ==
  /\ epoch < MaxEpoch
  /\ epoch' = epoch + 1
  /\ base' = Len(changes)
  /\ oldest' = Len(changes)
  /\ UNCHANGED <<changes, inflight, cursor, processed, atHead, results, handling,
                 saved, history, faults>>

ExpireCursors ==
  /\ oldest < Len(changes)
  /\ \E p \in (oldest + 1)..Len(changes) : oldest' = p
  /\ UNCHANGED <<changes, epoch, base, inflight, cursor, processed, atHead, results,
                 handling, saved, history, faults>>

-----------------------------------------------------------------------------
(* Pulling: request_params, on_hint, retry_smaller and the network *)

\* A poll, or the pull on_hint returns for an authenticated hint: both ask from
\* the consumer's own cursor, never from the hint's head_cursor.
Pull(limit) ==
  /\ mode = "idle"
  /\ Cardinality(inflight) < MaxInFlight
  /\ \E r \in Answers(cursor, limit) : inflight' = inflight \cup {r}
  /\ UNCHANGED <<registry, cursor, processed, atHead, results, handling, saved,
                 history, faults>>

PullRefused ==
  /\ mode = "idle"
  /\ faults < MaxFaults
  /\ Cardinality(inflight) < MaxInFlight
  /\ inflight' = inflight \cup {ErrorReply(cursor, "rate_limited")}
  /\ faults' = faults + 1
  /\ UNCHANGED <<registry, cursor, processed, atHead, results, handling, saved, history>>

LoseReply ==
  /\ faults < MaxFaults
  /\ \E r \in inflight : inflight' = inflight \ {r}
  /\ faults' = faults + 1
  /\ UNCHANGED <<registry, cursor, processed, atHead, results, handling, saved, history>>

AcceptsPage(r) == Cardinality(r.entries) <= PageCapacity

\* Faulty variant: the oversized page is dropped, and the next poll is the same
\* request again.
RetryUnchanged(r) ==
  /\ mode = "idle"
  /\ r.kind = "page" /\ ~AcceptsPage(r)
  /\ inflight' = inflight \ {r}
  /\ UNCHANGED <<registry, cursor, processed, atHead, results, handling, saved,
                 history, faults>>

\* accepts_page is false: retry_smaller asks again from the same cursor with
\* half the limit (it raises at limit 1, which a page that small never reaches).
RetrySmaller(r) ==
  /\ mode = "idle"
  /\ r.kind = "page" /\ ~AcceptsPage(r)
  /\ r.limit > 1
  /\ \E s \in Answers(cursor, r.limit \div 2) : inflight' = (inflight \ {r}) \cup {s}
  /\ UNCHANGED <<registry, cursor, processed, atHead, results, handling, saved,
                 history, faults>>

-----------------------------------------------------------------------------
(* on_page *)

\* Faulty variant: the cursor moves when the page arrives, not after all of it.
BeginPageMovingCursor(r) ==
  /\ mode = "idle"
  /\ r.kind = "page" /\ AcceptsPage(r)
  /\ mode' = "page"
  /\ reply' = r
  /\ cursor' = r.next
  /\ inflight' = inflight \ {r}
  /\ todo' = r.entries
  /\ page' = {}
  /\ UNCHANGED <<registry, processed, atHead, results, left, saved, history, faults>>

BeginPage(r) ==
  /\ mode = "idle"
  /\ r.kind = "page" /\ AcceptsPage(r)
  /\ mode' = "page"
  /\ reply' = r
  /\ inflight' = inflight \ {r}
  /\ todo' = r.entries
  /\ page' = {}
  /\ UNCHANGED <<registry, cursor, processed, atHead, results, left, saved, history,
                 faults>>

IsProcessed(a) == changes[a].seq \in processed
LocalMatch(a) == Filtered => changes[a].ctx \in Watched

SkipProcessed(a) ==
  /\ IsProcessed(a)
  /\ todo' = todo \ {a}
  /\ UNCHANGED <<registry, inflight, cursor, processed, atHead, results, mode, reply,
                 page, left, saved, history, faults>>

\* Faulty variant: the entry is not remembered.
ForgetProcessed(a) ==
  /\ todo' = todo \ {a}
  /\ processed' = processed \ {changes[a].seq}

MarkProcessed(a) ==
  /\ todo' = todo \ {a}
  /\ processed' = processed \cup {changes[a].seq}

SkipNeighbour(a) ==
  /\ ~IsProcessed(a) /\ ~LocalMatch(a)
  /\ MarkProcessed(a)
  /\ UNCHANGED <<registry, inflight, cursor, atHead, results, mode, reply, page, left,
                 saved, history, faults>>

\* verify_change: a schema violation names nothing to re-verify; a forged entry,
\* or a sound one that lagging evidence does not bear out, names its context.
NamesContext(a) == changes[a].form # "malformed"
MayAccept(a) == changes[a].form = "valid"

VerifyAccept(a) ==
  /\ ~IsProcessed(a) /\ LocalMatch(a) /\ MayAccept(a)
  /\ page' = page \cup {[at |-> a, accepted |-> TRUE]}
  /\ checks' = [checks EXCEPT ![a].calls = @ + 1]
  /\ MarkProcessed(a)
  /\ UNCHANGED <<registry, inflight, cursor, atHead, results, mode, reply, left, saved,
                 seen, gaps, faults>>

Reverified(a) ==
  IF NamesContext(a) THEN [seen EXCEPT ![changes[a].ctx] = Len(changes)] ELSE seen

VerifyReject(a) ==
  /\ ~IsProcessed(a) /\ LocalMatch(a)
  /\ seen' = Reverified(a)
  /\ page' = page \cup {[at |-> a, accepted |-> FALSE]}
  /\ checks' = [checks EXCEPT ![a].calls = @ + 1]
  /\ MarkProcessed(a)
  /\ UNCHANGED <<registry, inflight, cursor, atHead, results, mode, reply, left, saved,
                 gaps, faults>>

\* A callback raises: evidence_for before the entry is verified, or reverify after a
\* rejected entry was verified and before it is added to `processed`.  on_page unwinds,
\* its local list is gone, what it had already added to `processed` stays.
EvidenceRaises == UNCHANGED checks
ReverifyRaises(a) ==
  /\ NamesContext(a)
  /\ checks' = [checks EXCEPT ![a] = [calls |-> @.calls + 1, raised |-> @.raised + 1]]
FailPage(a) ==
  /\ PageMayFail /\ faults < MaxFaults
  /\ ~IsProcessed(a) /\ LocalMatch(a)
  /\ EvidenceRaises \/ ReverifyRaises(a)
  /\ mode' = "idle"
  /\ todo' = {} /\ page' = {} /\ reply' = NoReply
  /\ faults' = faults + 1
  /\ UNCHANGED <<registry, inflight, cursor, processed, atHead, results, left, saved,
                 seen, gaps>>

\* The entries are taken in the order of the response, which is the registry's to
\* choose: any order.
PageStep ==
  /\ mode = "page"
  /\ \E a \in todo : \/ SkipProcessed(a) \/ SkipNeighbour(a)
                     \/ VerifyAccept(a) \/ VerifyReject(a) \/ FailPage(a)

\* Faulty variants of the end of on_page: the cursor taken is the feed's head instead
\* of next_cursor; a page shorter than the requested limit is taken for the head.
EndPageWith(next, head) ==
  /\ mode = "page" /\ todo = {}
  /\ results' = results \cup page
  /\ cursor' = next
  /\ atHead' = head
  /\ gaps' = gaps \cup reply.gap
  /\ mode' = "idle"
  /\ page' = {} /\ reply' = NoReply
  /\ UNCHANGED <<registry, inflight, processed, todo, left, saved, seen, checks, faults>>
EndPageAtHeadCursor == EndPageWith([reply.next EXCEPT !.after = reply.head], ~reply.more)
EndPageShortIsHead == EndPageWith(reply.next, Cardinality(reply.entries) < reply.limit)

EndPage ==
  /\ mode = "page" /\ todo = {}
  /\ results' = results \cup page
  /\ cursor' = reply.next
  /\ atHead' = ~reply.more
  /\ gaps' = gaps \cup reply.gap
  /\ mode' = "idle"
  /\ page' = {} /\ reply' = NoReply
  /\ UNCHANGED <<registry, inflight, processed, todo, left, saved, seen, checks,
                 faults>>

-----------------------------------------------------------------------------
(* on_error *)

Persisted == cursor.kind = "at"
\* Faulty variants: every error resyncs; an invalid_cursor never does.
AnyErrorResyncs(code) == code # ""
OnlyExpiryResyncs(code) == code = "cursor_expired"

ForcesResync(code) == code = "cursor_expired" \/ (code = "invalid_cursor" /\ Persisted)

IgnoreError(r) ==
  /\ mode = "idle"
  /\ r.kind = "error" /\ ~ForcesResync(r.code)
  /\ inflight' = inflight \ {r}
  /\ UNCHANGED <<registry, cursor, processed, atHead, results, handling, saved, history,
                 faults>>

\* Faulty variant: resume at head without re-verifying the watched contexts.
BeginResyncUnverified(r) ==
  /\ mode = "idle"
  /\ r.kind = "error" /\ ForcesResync(r.code)
  /\ inflight' = inflight \ {r}
  /\ mode' = "resync"
  /\ reply' = [r EXCEPT !.head = Len(changes)]
  /\ left' = {}
  /\ UNCHANGED <<registry, cursor, processed, atHead, results, todo, page, saved,
                 history, faults>>

BeginResync(r) ==
  /\ mode = "idle"
  /\ r.kind = "error" /\ ForcesResync(r.code)
  /\ inflight' = inflight \ {r}
  /\ mode' = "resync"
  /\ reply' = [r EXCEPT !.head = Len(changes)]
  /\ left' = Watched
  /\ UNCHANGED <<registry, cursor, processed, atHead, results, todo, page, saved,
                 history, faults>>

ReverifyWatched(c) ==
  /\ mode = "resync"
  /\ seen' = [seen EXCEPT ![c] = Len(changes)]
  /\ left' = left \ {c}
  /\ UNCHANGED <<registry, inflight, cursor, processed, atHead, results, mode, reply,
                 todo, page, saved, gaps, checks, faults>>

FailResync ==
  /\ mode = "resync" /\ left # {} /\ faults < MaxFaults
  /\ mode' = "idle"
  /\ left' = {} /\ reply' = NoReply
  /\ faults' = faults + 1
  /\ UNCHANGED <<registry, inflight, cursor, processed, atHead, results, todo, page,
                 saved, history>>

\* Faulty variants: the dedup state survives the resync; the resync does not wait
\* for every watched context.
EndResyncKeepingDedup ==
  /\ mode = "resync" /\ left = {}
  /\ cursor' = HeadCursor(reply.head)
  /\ atHead' = FALSE
  /\ checks' = [a \in DOMAIN checks |-> Unchecked]
  /\ mode' = "idle" /\ reply' = NoReply
  /\ UNCHANGED <<registry, inflight, processed, results, todo, page, left, saved, seen,
                 gaps, faults>>
EndResyncEarly ==
  /\ mode = "resync"
  /\ processed' = {}
  /\ cursor' = HeadCursor(reply.head)
  /\ atHead' = FALSE
  /\ checks' = [a \in DOMAIN checks |-> Unchecked]
  /\ mode' = "idle" /\ reply' = NoReply /\ left' = {}
  /\ UNCHANGED <<registry, inflight, results, todo, page, saved, seen, gaps, faults>>

EndResync ==
  /\ mode = "resync" /\ left = {}
  /\ processed' = {}
  /\ cursor' = HeadCursor(reply.head)
  /\ atHead' = FALSE
  /\ checks' = [a \in DOMAIN checks |-> Unchecked]
  /\ mode' = "idle" /\ reply' = NoReply
  /\ UNCHANGED <<registry, inflight, results, todo, page, left, saved, seen, gaps,
                 faults>>

-----------------------------------------------------------------------------
(* The caller's persistence: the cursor alone survives a crash *)

Persist ==
  /\ mode = "idle" /\ saved # cursor
  /\ saved' = cursor
  /\ UNCHANGED <<registry, inflight, cursor, processed, atHead, results, handling,
                 history, faults>>

Crash ==
  /\ faults < MaxFaults
  /\ cursor' = saved
  /\ processed' = {} /\ atHead' = FALSE /\ inflight' = {}
  /\ mode' = "idle" /\ reply' = NoReply /\ todo' = {} /\ page' = {} /\ left' = {}
  /\ checks' = [a \in DOMAIN checks |-> Unchecked]
  /\ faults' = faults + 1
  /\ UNCHANGED <<registry, results, saved, seen, gaps>>

-----------------------------------------------------------------------------
(* Specification *)

Init ==
  /\ changes = <<>> /\ epoch = 1 /\ base = 0 /\ oldest = 0
  /\ inflight = {}
  /\ cursor = NoCursor /\ saved = NoCursor
  /\ processed = {} /\ atHead = FALSE /\ results = {}
  /\ mode = "idle" /\ reply = NoReply /\ todo = {} /\ page = {} /\ left = {}
  /\ seen = [c \in Contexts |-> 0] /\ gaps = {}
  /\ checks = [a \in 1..MaxChanges |-> Unchecked]
  /\ faults = 0

Registry ==
  \/ \E c \in Contexts, f \in Forms : Record(c, f)
  \/ ResetSequence
  \/ ExpireCursors

Receive ==
  \E r \in inflight : RetrySmaller(r) \/ BeginPage(r) \/ IgnoreError(r) \/ BeginResync(r)

Resync == (\E c \in left : ReverifyWatched(c)) \/ EndResync \/ FailResync

Consumer ==
  \/ \E limit \in 1..MaxLimit : Pull(limit)
  \/ Receive
  \/ PageStep
  \/ EndPage
  \/ Resync

Next == Registry \/ Consumer \/ PullRefused \/ LoseReply \/ Persist \/ Crash

Spec == Init /\ [][Next]_vars

\* The caller keeps polling and finishes what it started, and the registry
\* answers; recording, resets, expiry, faults and persistence owe nothing.
Fairness == WF_vars(Consumer)
FairSpec == Spec /\ Fairness

-----------------------------------------------------------------------------
(* Properties *)

\* Type correctness of the registry, the consumer and the history variables.
TypeOK ==
  /\ changes \in Seq(Change)
  /\ {epoch, base, oldest, faults} \subseteq Nat
  /\ base <= Len(changes) /\ oldest \in base..Len(changes)
  /\ inflight \subseteq Reply
  /\ cursor \in Cursor /\ saved \in Cursor
  /\ processed \subseteq Nat
  /\ atHead \in BOOLEAN
  /\ results \subseteq Result /\ page \subseteq Result
  /\ mode \in {"idle", "page", "resync"}
  /\ reply \in Reply
  /\ todo \subseteq Recorded
  /\ left \subseteq Watched
  /\ mode # "page" => todo = {} /\ page = {}
  /\ mode # "resync" => left = {}
  /\ seen \in [Contexts -> Nat] /\ gaps \subseteq Nat
  /\ checks \in [1..MaxChanges -> Checks]

Needed(a) == changes[a].ctx \in Watched

\* The caller was given the verified outcome of change a, or of nothing but its
\* malformed entry, or re-verified its context after a was recorded.
Told(set, a) ==
  \/ [at |-> a, accepted |-> TRUE] \in set
  \/ changes[a].form = "malformed" /\ [at |-> a, accepted |-> FALSE] \in set
Heard(a) == Told(results, a) \/ seen[changes[a].ctx] >= a

Covered(p) == \A a \in Recorded : a <= p /\ Needed(a) => Heard(a) \/ a \in gaps

\* No change that concerns a watched context ever lies behind the cursor, nor
\* behind the persisted one, unheard, except those a (re)join of the feed
\* jumped over: pages, dedup, resyncs and crashes together lose nothing else.
NothingMissed == Covered(cursor.after) /\ Covered(saved.after)

\* When on_page meets an entry whose seq is already processed, it really is the
\* same change again: a seq reused after a reset is never taken for a duplicate.
DedupIsSound ==
  mode = "page" =>
    \A a \in todo : IsProcessed(a) /\ Needed(a) => Heard(a) \/ Told(page, a)

\* Between two resyncs a change that was verified is never verified again, however often
\* it is delivered, except for each time that re-verifying its context raised: the retried
\* page verifies it once more, since only a finished entry is added to `processed`.
VerifiedOnce == \A a \in DOMAIN checks : checks[a].calls <= 1 + checks[a].raised

\* A resync, which jumps the feed, happens only for a cursor that the registry
\* can indeed no longer place; a passing refusal never causes one.
ResyncIsNeeded == mode = "resync" => cursor.kind = "at" /\ ~Placeable(cursor)

\* A gap is never wider than the unavoidable: what a rejoin jumps over was
\* recorded after the consumer began to re-verify its watched contexts.
GapAfterReverification ==
  [][gaps' # gaps /\ cursor.kind = "head" =>
       \A a \in gaps' \ gaps : a > cursor.after
                               /\ \A c \in Watched : seen[c] >= cursor.after]_vars

\* at_head is claimed only when everything the registry had recorded by the time
\* it served the page has been heard or was jumped over.
HeadMeansCaughtUp ==
  [][mode = "page" /\ mode' = "idle" /\ atHead' =>
       \A a \in Recorded : a <= reply.head /\ Needed(a) => Heard(a)' \/ a \in gaps']_vars

\* Both at once, whatever the order in which overlapping answers arrive: no change is
\* passed over, and the head is claimed only by a consumer that has caught up.
CaughtUpAtHead == []NothingMissed /\ HeadMeansCaughtUp

\* Every recorded change of a watched context is eventually heard or jumped over.
EventuallyHeard ==
  \A n \in 1..MaxChanges :
    (n \in Recorded /\ Needed(n)) ~> (n \in Recorded /\ (Heard(n) \/ n \in gaps))

\* The consumer keeps the promise of RecallContract: every step it takes is a
\* step of the contract or leaves what the contract speaks of unchanged.
Contract ==
  INSTANCE RecallContract WITH
    needed <- {a \in Recorded : Needed(a)},
    position <- cursor.after,
    joining <- cursor.kind # "at",
    known <- {a \in Recorded : Heard(a)},
    gaps <- gaps
KeepsContract == Contract!Spec

\* Once the registry is quiet the consumer ends up at the head of the feed.
EventuallyAtHead == <>[](atHead /\ cursor.after = Len(changes))
=============================================================================
