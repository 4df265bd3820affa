-------------------------- MODULE RecallFeedProofs --------------------------
(***************************************************************************)
(* Proofs about RecallFeed, for every value of the constants.              *)
(*                                                                         *)
(* FeedInv holds of every caller: cursors, answers and the page at hand    *)
(* are sound.  HeardInv adds that nothing behind a cursor is unheard; it   *)
(* needs callbacks that do not raise inside on_page and, where the         *)
(* registry may reset its sequence, a caller that waits for each answer.   *)
(* Together they show that the consumer implements RecallContract.         *)
(***************************************************************************)
EXTENDS RecallFeed, FiniteSetTheorems, TLAPS

\* What an answer carries lies in the recorded changes, in flight or at hand.
RepliesInRange == \A r \in inflight : r.entries \subseteq Recorded

TypeInv == TypeOK /\ RepliesInRange

LEMMA NoReplyType == NoReply \in Reply
  BY DEF NoReply, ErrorReply, NoCursor, Reply, Cursor, Codes

LEMMA ErrorReplyType ==
  ASSUME NEW c \in Cursor, NEW code \in Codes
  PROVE  ErrorReply(c, code) \in Reply /\ ErrorReply(c, code).entries = {}
  BY DEF ErrorReply, Reply

LEMMA PageReplyType ==
  ASSUME NEW since \in Cursor, NEW limit \in Nat, NEW entries \in SUBSET Nat,
         NEW next \in Cursor, NEW more \in BOOLEAN, NEW gap \in SUBSET Nat, NEW head \in Nat
  PROVE  [kind |-> "page", since |-> since, limit |-> limit, entries |-> entries,
          next |-> next, more |-> more, gap |-> gap, head |-> head, code |-> ""] \in Reply
  BY DEF Reply, Codes

\* Every answer to a pull is a reply about changes that were recorded.
LEMMA AnswersType ==
  ASSUME TypeOK, NEW c \in Cursor, NEW limit \in Nat, NEW r \in Answers(c, limit)
  PROVE  r \in Reply /\ r.entries \subseteq Recorded
<1>1. CASE ~Placeable(c)
  <2>1. PICK code \in {"cursor_expired", "invalid_cursor"} : r = ErrorReply(c, code)
    BY <1>1 DEF Answers
  <2>2. code \in Codes
    BY DEF Codes
  <2>. QED
    BY <2>1, <2>2, ErrorReplyType
<1>2. CASE Placeable(c)
  <2>1. r \in Pages(c, limit)
    BY <1>2 DEF Answers
  <2>2. StartOf(c) \in Nat /\ Len(changes) \in Nat /\ base \in Nat /\ epoch \in Nat
    BY DEF TypeOK, StartOf, Cursor
  <2>3. PICK from \in {StartOf(c)} \cup {f \in {StartOf(c) - 1} : c.kind = "at" /\ f >= base},
             to \in {t \in StartOf(c)..Len(changes) : t > StartOf(c) \/ t = Len(changes)} :
               r = PageOf(c, limit, from, to)
    BY <2>1 DEF Pages
  <2>4. from \in Nat /\ to \in Nat /\ to <= Len(changes)
    BY <2>2, <2>3
  <2>5. {a \in (from + 1)..to : changes[a].ctx \in Candidates} \subseteq Recorded
    BY <2>2, <2>4 DEF Recorded
  <2>6. (c.after + 1)..StartOf(c) \subseteq Nat
    BY <2>2 DEF Cursor
  <2>7. [kind |-> "at", epoch |-> epoch, after |-> to] \in Cursor
    BY <2>2, <2>4 DEF Cursor
  <2>8. {a \in (from + 1)..to : changes[a].ctx \in Candidates} \in SUBSET Nat
    BY <2>5, <2>2 DEF Recorded
  <2>9. r.entries \subseteq Recorded
    BY <2>3, <2>5 DEF PageOf
  <2>10. (to < Len(changes)) \in BOOLEAN
    OBVIOUS
  <2>11. r \in Reply
    BY <2>2, <2>3, <2>6, <2>7, <2>8, <2>10, PageReplyType DEF PageOf
  <2>. QED
    BY <2>9, <2>11
<1>. QED
  BY <1>1, <1>2

LEMMA ChangeType ==
  ASSUME TypeOK, NEW a \in Recorded
  PROVE  /\ changes[a].epoch \in Nat /\ changes[a].seq \in Nat
         /\ changes[a].ctx \in Contexts /\ changes[a].form \in AllForms
<1>1. changes[a] \in Change
  BY DEF TypeOK, Recorded
<1>. QED
  BY <1>1 DEF Change

LEMMA CheckedType ==
  ASSUME checks \in [1..MaxChanges -> Checks], NEW a,
         \/ checks' = [checks EXCEPT ![a].calls = @ + 1]
         \/ checks' = [checks EXCEPT ![a] = [calls |-> @.calls + 1, raised |-> @.raised + 1]]
  PROVE  checks' \in [1..MaxChanges -> Checks]
<1>1. CASE a \in 1..MaxChanges
  BY <1>1 DEF Checks
<1>2. CASE a \notin 1..MaxChanges
  BY <1>2
<1>. QED
  BY <1>1, <1>2

LEMMA InitTypeInv == Init => TypeInv
<1>. SUFFICES ASSUME Init PROVE TypeInv
  OBVIOUS
<1>1. seen \in [Contexts -> Nat] /\ checks \in [1..MaxChanges -> Checks]
  BY DEF Init, Checks, Unchecked
<1>2. changes \in Seq(Change) /\ Len(changes) = 0
  BY DEF Init
<1>3. NoCursor \in Cursor
  BY DEF NoCursor, Cursor
<1>4. epoch = 1 /\ base = 0 /\ oldest = 0 /\ faults = 0
  BY DEF Init
<1>5. cursor \in Cursor /\ saved \in Cursor /\ reply \in Reply
  BY <1>3, NoReplyType DEF Init
<1>6. /\ inflight = {} /\ processed = {} /\ results = {} /\ page = {} /\ todo = {}
      /\ left = {} /\ gaps = {} /\ mode = "idle" /\ atHead \in BOOLEAN
  BY DEF Init
<1>7. {epoch, base, oldest, faults} \subseteq Nat
  BY <1>4
<1>8. base <= Len(changes) /\ oldest \in base..Len(changes)
  BY <1>2, <1>4
<1>. QED
  BY <1>1, <1>2, <1>5, <1>6, <1>7, <1>8 DEF TypeInv, TypeOK, RepliesInRange

LEMMA RegistryTypeInv == TypeInv /\ Registry => TypeInv'
<1>. SUFFICES ASSUME TypeInv, Registry PROVE TypeInv'
  OBVIOUS
<1>. USE DEF TypeInv, TypeOK, RepliesInRange, Recorded
<1>1. ASSUME NEW c \in Contexts, NEW f \in Forms, Record(c, f) PROVE TypeInv'
  <2>1. [epoch |-> epoch, seq |-> Len(changes) + 1 - base, ctx |-> c, form |-> f] \in Change
    BY FormsAssumption DEF Change
  <2>2. changes' \in Seq(Change) /\ Len(changes') = Len(changes) + 1
    BY <1>1, <2>1 DEF Record
  <2>. QED
    BY <1>1, <2>2 DEF Record, handling, history
<1>2. CASE ResetSequence
  BY <1>2 DEF ResetSequence, handling, history
<1>3. CASE ExpireCursors
  BY <1>3 DEF ExpireCursors, handling, history
<1>. QED
  BY <1>1, <1>2, <1>3 DEF Registry

LEMMA NetworkTypeInv ==
  ASSUME TypeInv,
         \/ \E limit \in 1..MaxLimit : Pull(limit)
         \/ \E r \in inflight : RetrySmaller(r)
         \/ PullRefused
         \/ LoseReply
  PROVE  TypeInv'
<1>. USE DEF TypeInv, TypeOK, RepliesInRange, Recorded
<1>1. ASSUME NEW limit \in 1..MaxLimit, Pull(limit) PROVE TypeInv'
  <2>1. PICK r \in Answers(cursor, limit) : inflight' = inflight \cup {r}
    BY <1>1 DEF Pull
  <2>2. limit \in Nat
    BY LimitAssumption
  <2>3. r \in Reply /\ r.entries \subseteq Recorded
    BY <2>2, AnswersType
  <2>. QED
    BY <1>1, <2>1, <2>3 DEF Pull, registry, handling, history
<1>2. ASSUME NEW r \in inflight, RetrySmaller(r) PROVE TypeInv'
  <2>1. PICK s \in Answers(cursor, r.limit \div 2) : inflight' = (inflight \ {r}) \cup {s}
    BY <1>2 DEF RetrySmaller
  <2>2. r.limit \div 2 \in Nat
    BY DEF Reply
  <2>3. s \in Reply /\ s.entries \subseteq Recorded
    BY <2>2, AnswersType
  <2>. QED
    BY <1>2, <2>1, <2>3 DEF RetrySmaller, registry, handling, history
<1>3. CASE PullRefused
  <2>1. /\ ErrorReply(cursor, "rate_limited") \in Reply
        /\ ErrorReply(cursor, "rate_limited").entries = {}
    BY ErrorReplyType DEF Codes
  <2>. QED
    BY <1>3, <2>1 DEF PullRefused, registry, handling, history
<1>4. CASE LoseReply
  BY <1>4 DEF LoseReply, registry, handling, history
<1>. QED
  BY <1>1, <1>2, <1>3, <1>4

LEMMA PageTypeInv ==
  ASSUME TypeInv, (\E r \in inflight : BeginPage(r)) \/ PageStep \/ EndPage
  PROVE  TypeInv'
<1>. USE DEF TypeInv, TypeOK, RepliesInRange, Recorded, registry, handling, history
<1>1. ASSUME NEW r \in inflight, BeginPage(r) PROVE TypeInv'
  BY <1>1 DEF BeginPage
<1>2. ASSUME NEW a \in todo, mode = "page", SkipProcessed(a) PROVE TypeInv'
  BY <1>2 DEF SkipProcessed
<1>3. ASSUME NEW a \in todo, mode = "page", SkipNeighbour(a) PROVE TypeInv'
  <2>1. changes[a].seq \in Nat
    BY ChangeType
  <2>. QED
    BY <1>3, <2>1 DEF SkipNeighbour, MarkProcessed
<1>4. ASSUME NEW a \in todo, mode = "page", VerifyAccept(a) PROVE TypeInv'
  <2>1. changes[a].seq \in Nat /\ [at |-> a, accepted |-> TRUE] \in Result
    BY ChangeType DEF Result
  <2>2. checks' \in [1..MaxChanges -> Checks]
    BY <1>4, CheckedType DEF VerifyAccept
  <2>. QED
    BY <1>4, <2>1, <2>2 DEF VerifyAccept, MarkProcessed
<1>5. ASSUME NEW a \in todo, mode = "page", VerifyReject(a) PROVE TypeInv'
  <2>1. changes[a].seq \in Nat /\ [at |-> a, accepted |-> FALSE] \in Result
    BY ChangeType DEF Result
  <2>2. checks' \in [1..MaxChanges -> Checks]
    BY <1>5, CheckedType DEF VerifyReject
  <2>3. seen' \in [Contexts -> Nat]
    BY <1>5, ChangeType DEF VerifyReject, Reverified
  <2>. QED
    BY <1>5, <2>1, <2>2, <2>3 DEF VerifyReject, MarkProcessed
<1>6. ASSUME NEW a \in todo, mode = "page", FailPage(a) PROVE TypeInv'
  <2>1. checks' \in [1..MaxChanges -> Checks]
    BY <1>6, CheckedType DEF FailPage, EvidenceRaises, ReverifyRaises
  <2>. QED
    BY <1>6, <2>1, NoReplyType DEF FailPage
<1>7. CASE EndPage
  BY <1>7, NoReplyType DEF EndPage, Reply
<1>. QED
  BY <1>1, <1>2, <1>3, <1>4, <1>5, <1>6, <1>7 DEF PageStep

LEMMA ErrorTypeInv ==
  ASSUME TypeInv,
         (\E r \in inflight : IgnoreError(r) \/ BeginResync(r)) \/ Resync \/ Persist \/ Crash
  PROVE  TypeInv'
<1>. USE DEF TypeInv, TypeOK, RepliesInRange, Recorded, registry, handling, history
<1>1. ASSUME NEW r \in inflight, IgnoreError(r) PROVE TypeInv'
  BY <1>1 DEF IgnoreError
<1>2. ASSUME NEW r \in inflight, BeginResync(r) PROVE TypeInv'
  <2>1. r \in Reply /\ Len(changes) \in Nat
    OBVIOUS
  <2>2. [r EXCEPT !.head = Len(changes)] \in Reply
    BY <2>1 DEF Reply
  <2>. QED
    BY <1>2, <2>2 DEF BeginResync
<1>3. ASSUME NEW c \in left, ReverifyWatched(c) PROVE TypeInv'
  <2>1. c \in Contexts
    BY DEF Contexts
  <2>2. seen' \in [Contexts -> Nat]
    BY <1>3, <2>1 DEF ReverifyWatched
  <2>. QED
    BY <1>3, <2>2 DEF ReverifyWatched
<1>4. CASE FailResync
  BY <1>4, NoReplyType DEF FailResync
<1>5. CASE EndResync
  <2>1. HeadCursor(reply.head) \in Cursor
    BY DEF HeadCursor, Cursor, Reply
  <2>2. checks' \in [1..MaxChanges -> Checks]
    BY <1>5 DEF EndResync, Checks, Unchecked
  <2>. QED
    BY <1>5, <2>1, <2>2, NoReplyType DEF EndResync
<1>6. CASE Persist
  BY <1>6 DEF Persist
<1>7. CASE Crash
  <2>1. checks' \in [1..MaxChanges -> Checks]
    BY <1>7 DEF Crash, Checks, Unchecked
  <2>2. cursor' \in Cursor /\ reply' \in Reply /\ faults' \in Nat
    BY <1>7, NoReplyType DEF Crash
  <2>3. mode' = "idle" /\ processed' = {} /\ atHead' = FALSE /\ inflight' = {}
    BY <1>7 DEF Crash
  <2>4. todo' = {} /\ page' = {} /\ left' = {}
    BY <1>7 DEF Crash
  <2>5. UNCHANGED <<changes, epoch, base, oldest, results, saved, seen, gaps>>
    BY <1>7 DEF Crash
  <2>. QED
    BY <2>1, <2>2, <2>3, <2>4, <2>5
<1>. QED
  BY <1>1, <1>2, <1>3, <1>4, <1>5, <1>6, <1>7 DEF Resync

LEMMA NextTypeInv == TypeInv /\ [Next]_vars => TypeInv'
<1>1. ASSUME TypeInv, UNCHANGED vars PROVE TypeInv'
  BY <1>1 DEF TypeInv, TypeOK, RepliesInRange, Recorded, vars, registry, handling, history
<1>. QED
  BY <1>1, RegistryTypeInv, NetworkTypeInv, PageTypeInv, ErrorTypeInv
     DEF Next, Consumer, Receive

\* Type correctness, whatever the constants, overlapping pulls and raising
\* callbacks included.
THEOREM TypeCorrect == Spec => []TypeOK
<1>1. Spec => []TypeInv
  BY InitTypeInv, NextTypeInv, PTL DEF Spec
<1>2. TypeInv => TypeOK
  BY DEF TypeInv
<1>. QED
  BY <1>1, <1>2, PTL

-----------------------------------------------------------------------------
(* The feed invariant: it holds for every caller.  What is said of a caller *)
(* that waits for each answer is in WaitingInv.                             *)

\* Sequences never overlap: within one epoch a seq names one change.
SeqNames ==
  /\ epoch >= 1
  /\ \A a \in Recorded :
       /\ changes[a].epoch \in 1..epoch
       /\ a > base <=> changes[a].epoch = epoch
       /\ a > base => changes[a].seq = a - base
  /\ \A a, b \in Recorded :
       changes[a].epoch = changes[b].epoch /\ changes[a].seq = changes[b].seq => a = b

SeenInv == \A c \in Contexts : seen[c] <= Len(changes)

\* A cursor is of a sequence that has begun, or of none; and "head" is asked for
\* only after the watched contexts were re-verified.
CursorSound(c) ==
  /\ c.after <= Len(changes)
  /\ IF c.kind = "at" THEN c.epoch \in 1..epoch ELSE c.epoch = 0
  /\ c.kind = "none" => c.after = 0
  /\ c.kind = "head" => \A w \in Watched : seen[w] >= c.after

\* What a page brings: everything needed from where it was asked to where it
\* leads is among its entries or in the gap it admits, all of one epoch.
PageSound(r) ==
  /\ r.next.kind = "at" /\ r.next.epoch \in 1..epoch
  /\ r.since.after <= r.next.after /\ r.next.after <= Len(changes)
  /\ r.since.kind = "at" => r.next.epoch = r.since.epoch /\ r.gap = {}
  /\ \A a \in r.gap : r.since.after < a /\ a <= r.next.after
  /\ ~r.more => r.next.after = r.head
  /\ \A a \in r.entries : a \in Recorded /\ changes[a].epoch = r.next.epoch
  /\ \A a \in Recorded :
       a <= r.next.after /\ Needed(a) => a <= r.since.after \/ a \in r.gap \/ a \in r.entries

AnswerSound(r) ==
  /\ CursorSound(r.since)
  /\ r.kind = "page" => PageSound(r)
  /\ r.code \in {"cursor_expired", "invalid_cursor"} => ~Placeable(r.since)

WorkInv ==
  /\ mode = "page" => AnswerSound(reply) /\ reply.kind = "page" /\ todo \subseteq reply.entries
  /\ mode = "resync" => /\ cursor.after <= reply.head /\ reply.head <= Len(changes)
                        /\ \A c \in Watched \ left : seen[c] >= reply.head

\* The waiting caller: one answer at most, asked from the cursor still held.
WaitingInv ==
  MaxInFlight = 1 =>
    /\ \A r, s \in inflight : r = s
    /\ mode # "idle" => inflight = {}
    /\ \A r \in inflight : r.since = cursor
    /\ mode = "page" => reply.since = cursor
    /\ mode = "resync" => ~Placeable(cursor)
    /\ saved.after <= cursor.after

FeedInv ==
  /\ TypeInv /\ SeqNames /\ SeenInv /\ WorkInv /\ WaitingInv
  /\ epoch = 1 \/ epoch <= MaxEpoch
  /\ CursorSound(cursor) /\ CursorSound(saved)
  /\ \A r \in inflight : AnswerSound(r)

\* What no step ever takes back: the registry's past, what the consumer was told and
\* verified, and that a cursor has expired.
Grows ==
  /\ Len(changes') >= Len(changes) /\ epoch' >= epoch
  /\ \A a \in Recorded : a \in Recorded' /\ changes'[a] = changes[a]
  /\ \A c \in Contexts : seen'[c] >= seen[c]
  /\ results \subseteq results' /\ gaps \subseteq gaps'
  /\ \A c \in Cursor : c.epoch <= epoch /\ ~Placeable(c) => ~Placeable(c)'

LEMMA AppendKeeps ==
  ASSUME NEW s \in Seq(Change), NEW e \in Change
  PROVE  /\ Len(Append(s, e)) = Len(s) + 1
         /\ \A i \in 1..Len(s) : Append(s, e)[i] = s[i]
         /\ Append(s, e)[Len(s) + 1] = e
  OBVIOUS

\* What Record appends.
Recording(c, f) == [epoch |-> epoch, seq |-> Len(changes) + 1 - base, ctx |-> c, form |-> f]

LEMMA RecordAppends ==
  ASSUME TypeInv, NEW c \in Contexts, NEW f \in Forms, Record(c, f)
  PROVE  /\ Len(changes) \in Nat /\ Len(changes') = Len(changes) + 1
         /\ Recorded' = Recorded \cup {Len(changes) + 1}
         /\ \A a \in Recorded : changes'[a] = changes[a]
         /\ changes'[Len(changes) + 1] = Recording(c, f)
         /\ UNCHANGED <<epoch, base, oldest, inflight, cursor, processed, results, handling,
                        saved, seen, gaps, checks>>
<1>1. changes \in Seq(Change) /\ {epoch, base} \subseteq Nat /\ base <= Len(changes)
  BY DEF TypeInv, TypeOK
<1>2. Recording(c, f) \in Change
  BY <1>1, FormsAssumption DEF Recording, Change
<1>3. changes' = Append(changes, Recording(c, f))
  BY DEF Record, Recording
<1>4. Len(changes) \in Nat
  BY <1>1
<1>5. /\ Len(changes') = Len(changes) + 1
      /\ \A a \in Recorded : changes'[a] = changes[a]
      /\ changes'[Len(changes) + 1] = Recording(c, f)
  BY <1>1, <1>2, <1>3, AppendKeeps DEF Recorded
<1>6. Recorded' = Recorded \cup {Len(changes) + 1}
  BY <1>4, <1>5 DEF Recorded
<1>. QED
  BY <1>4, <1>5, <1>6 DEF Record, history

LEMMA RegistryGrows ==
  ASSUME TypeInv, Registry
  PROVE  Grows
<1>1. /\ {epoch, base, oldest} \subseteq Nat /\ Len(changes) \in Nat /\ oldest <= Len(changes)
      /\ \A c \in Contexts : seen[c] \in Nat
  BY DEF TypeInv, TypeOK
<1>2. ASSUME NEW c \in Contexts, NEW f \in Forms, Record(c, f) PROVE Grows
  BY <1>1, <1>2, RecordAppends DEF Grows, Placeable
<1>3. CASE ResetSequence
  <2>1. \A c \in Cursor : c.after \in Nat /\ c.epoch \in Nat
    BY DEF Cursor
  <2>2. /\ epoch' = epoch + 1 /\ oldest' = Len(changes)
        /\ UNCHANGED <<changes, results, seen, gaps>>
    BY <1>3 DEF ResetSequence, history
  <2>. QED
    BY <1>1, <2>1, <2>2 DEF Grows, Placeable, Recorded
<1>4. CASE ExpireCursors
  <2>1. \A c \in Cursor : c.after \in Nat
    BY DEF Cursor
  <2>2. /\ oldest' \in Nat /\ oldest' > oldest
        /\ UNCHANGED <<changes, epoch, results, seen, gaps>>
    BY <1>1, <1>4 DEF ExpireCursors, history
  <2>. QED
    BY <1>1, <2>1, <2>2 DEF Grows, Placeable, Recorded
<1>. QED
  BY <1>2, <1>3, <1>4 DEF Registry

LEMMA NextGrows ==
  ASSUME TypeInv, SeenInv, [Next]_vars
  PROVE  Grows
<1>. USE DEF registry, handling, history
<1>1. CASE Registry
  BY <1>1, RegistryGrows
<1>2. ASSUME UNCHANGED registry, results \subseteq results', gaps \subseteq gaps',
             \A c \in Contexts : seen'[c] >= seen[c]
      PROVE  Grows
  <2>1. Len(changes) \in Nat /\ epoch \in Nat
    BY DEF TypeInv, TypeOK
  <2>. QED
    BY <1>2, <2>1 DEF Grows, Placeable, Recorded
<1>3. \A c \in Contexts : seen[c] \in Nat /\ seen[c] <= Len(changes) /\ seen[c] >= seen[c]
  BY DEF TypeInv, TypeOK, SeenInv
<1>4. CASE UNCHANGED <<registry, results, seen, gaps>>
  BY <1>2, <1>3, <1>4
<1>5. ASSUME NEW c, seen' = [seen EXCEPT ![c] = Len(changes)]
      PROVE  \A d \in Contexts : seen'[d] >= seen[d]
  BY <1>3, <1>5 DEF TypeInv, TypeOK
<1>6. CASE PageStep
  <2>1. ASSUME NEW a \in todo, VerifyReject(a) PROVE Grows
    <3>1. UNCHANGED <<registry, results, gaps>>
      BY <2>1 DEF VerifyReject
    <3>2. \A d \in Contexts : seen'[d] >= seen[d]
      <4>1. CASE NamesContext(a)
        BY <1>5, <2>1, <4>1 DEF VerifyReject, Reverified
      <4>2. CASE ~NamesContext(a)
        BY <1>3, <2>1, <4>2 DEF VerifyReject, Reverified
      <4>. QED
        BY <4>1, <4>2
    <3>. QED
      BY <1>2, <3>1, <3>2
  <2>2. ASSUME NEW a \in todo,
               SkipProcessed(a) \/ SkipNeighbour(a) \/ VerifyAccept(a) \/ FailPage(a)
        PROVE  UNCHANGED <<registry, results, seen, gaps>>
    BY <2>2 DEF SkipProcessed, SkipNeighbour, VerifyAccept, FailPage
  <2>. QED
    BY <1>4, <1>6, <2>1, <2>2 DEF PageStep
<1>7. CASE EndPage
  <2>1. /\ results' = results \cup page /\ gaps' = gaps \cup reply.gap /\ seen' = seen
        /\ UNCHANGED registry
    BY <1>7 DEF EndPage
  <2>. QED
    BY <1>2, <1>3, <2>1
<1>8. CASE Resync
  <2>1. ASSUME NEW c \in left, ReverifyWatched(c) PROVE Grows
    <3>1. UNCHANGED <<registry, results, gaps>> /\ seen' = [seen EXCEPT ![c] = Len(changes)]
      BY <2>1 DEF ReverifyWatched
    <3>. QED
      BY <1>2, <1>5, <3>1
  <2>2. CASE EndResync \/ FailResync
    BY <1>4, <2>2 DEF EndResync, FailResync
  <2>. QED
    BY <1>8, <2>1, <2>2 DEF Resync
<1>9. CASE Receive
  <2>1. ASSUME NEW r \in inflight,
               RetrySmaller(r) \/ BeginPage(r) \/ IgnoreError(r) \/ BeginResync(r)
        PROVE  UNCHANGED <<registry, results, seen, gaps>>
    BY <2>1 DEF RetrySmaller, BeginPage, IgnoreError, BeginResync
  <2>. QED
    BY <1>4, <1>9, <2>1 DEF Receive
<1>10. CASE (\E limit \in 1..MaxLimit : Pull(limit)) \/ PullRefused \/ LoseReply
  BY <1>4, <1>10 DEF Pull, PullRefused, LoseReply
<1>11. CASE Persist \/ Crash
  BY <1>4, <1>11 DEF Persist, Crash
<1>12. CASE UNCHANGED vars
  BY <1>4, <1>12 DEF vars
<1>. QED
  BY <1>1, <1>6, <1>7, <1>8, <1>9, <1>10, <1>11, <1>12 DEF Next, Consumer

\* What is sound stays sound.
LEMMA CursorStays ==
  ASSUME TypeInv, TypeInv', Grows, NEW c \in Cursor, CursorSound(c)
  PROVE  CursorSound(c)'
<1>1. /\ Len(changes) \in Nat /\ Len(changes') \in Nat /\ epoch \in Nat /\ epoch' \in Nat
      /\ \A w \in Watched : seen[w] \in Nat /\ seen'[w] \in Nat
  BY DEF TypeInv, TypeOK, Contexts
<1>2. c.after \in Nat /\ c.epoch \in Nat
  BY DEF Cursor
<1>3. \A w \in Watched : seen'[w] >= seen[w]
  BY DEF Grows, Contexts
<1>4. Len(changes') >= Len(changes) /\ epoch' >= epoch
  BY DEF Grows
<1>. QED
  BY <1>1, <1>2, <1>3, <1>4 DEF CursorSound

LEMMA AnswerStays ==
  ASSUME TypeInv, TypeInv', Grows, NEW r \in Reply, AnswerSound(r)
  PROVE  AnswerSound(r)'
<1>1. /\ Len(changes) \in Nat /\ Len(changes') \in Nat /\ epoch \in Nat /\ epoch' \in Nat
      /\ Len(changes') >= Len(changes) /\ epoch' >= epoch
  BY DEF TypeInv, TypeOK, Grows
<1>2. r.since \in Cursor /\ r.next \in Cursor
  BY DEF Reply
<1>3. /\ r.since.after \in Nat /\ r.next.after \in Nat /\ r.since.epoch \in Nat
      /\ r.next.epoch \in Nat
  BY <1>2 DEF Cursor
<1>4. CursorSound(r.since)'
  BY <1>2, CursorStays DEF AnswerSound
<1>5. ASSUME r.kind = "page" PROVE PageSound(r)'
  <2>1. PageSound(r)
    BY <1>5 DEF AnswerSound
  <2>2. r.next.epoch \in 1..epoch' /\ r.next.after <= Len(changes')
    BY <1>1, <1>3, <2>1 DEF PageSound
  <2>3. \A a \in r.entries : a \in Recorded' /\ changes'[a].epoch = r.next.epoch
    BY <2>1 DEF PageSound, Grows
  <2>4. ASSUME NEW a \in Recorded', a <= r.next.after, Needed(a)'
        PROVE  a <= r.since.after \/ a \in r.gap \/ a \in r.entries
    <3>1. a \in Recorded
      BY <1>1, <1>3, <2>1, <2>4 DEF PageSound, Recorded
    <3>2. Needed(a)
      BY <2>4, <3>1 DEF Needed, Grows
    <3>. QED
      BY <2>1, <2>4, <3>1, <3>2 DEF PageSound
  <2>. QED
    BY <2>1, <2>2, <2>3, <2>4 DEF PageSound
<1>6. ASSUME r.code \in {"cursor_expired", "invalid_cursor"} PROVE ~Placeable(r.since)'
  <2>1. ~Placeable(r.since) /\ r.since.kind = "at"
    BY <1>6 DEF AnswerSound, Placeable
  <2>2. r.since.epoch <= epoch
    BY <1>1, <1>3, <2>1 DEF AnswerSound, CursorSound
  <2>. QED
    BY <1>2, <2>1, <2>2 DEF Grows
<1>. QED
  BY <1>4, <1>5, <1>6 DEF AnswerSound

\* Every answer is asked from the given cursor, and sound.
LEMMA AnswersSound ==
  ASSUME TypeInv, SeqNames, NEW c \in Cursor, CursorSound(c), NEW limit \in Nat,
         NEW r \in Answers(c, limit)
  PROVE  r.since = c /\ AnswerSound(r)
<1>1. CASE ~Placeable(c)
  BY <1>1 DEF Answers, ErrorReply, AnswerSound
<1>2. CASE Placeable(c)
  <2>1. r \in Pages(c, limit)
    BY <1>2 DEF Answers
  <2>2. /\ Len(changes) \in Nat /\ base \in Nat /\ oldest \in Nat /\ epoch \in Nat
        /\ base <= oldest /\ oldest <= Len(changes)
    BY DEF TypeInv, TypeOK
  <2>3. c.after \in Nat /\ c.after <= Len(changes) /\ c.kind \in {"none", "head", "at"}
    BY DEF Cursor, CursorSound
  <2>4. StartOf(c) \in Nat /\ StartOf(c) <= Len(changes) /\ base <= StartOf(c)
    BY <1>2, <2>2, <2>3 DEF StartOf, Placeable
  <2>5. PICK from \in {StartOf(c)} \cup {f \in {StartOf(c) - 1} : c.kind = "at" /\ f >= base},
             to \in {t \in StartOf(c)..Len(changes) : t > StartOf(c) \/ t = Len(changes)} :
               r = PageOf(c, limit, from, to)
    BY <2>1 DEF Pages
  <2>6. /\ from \in Nat /\ to \in Nat /\ base <= from /\ from <= StartOf(c)
        /\ StartOf(c) <= to /\ to <= Len(changes)
    BY <2>2, <2>4, <2>5
  <2>7. /\ r.since = c /\ r.next.kind = "at" /\ r.next.epoch = epoch /\ r.next.after = to
        /\ r.gap = (c.after + 1)..StartOf(c) /\ r.kind = "page" /\ r.code = ""
        /\ r.head = Len(changes)
    BY <2>5 DEF PageOf
  <2>18. r.entries = {a \in (from + 1)..to : changes[a].ctx \in Candidates}
    BY <2>5 DEF PageOf
  <2>19. r.more <=> to < Len(changes)
    BY <2>5 DEF PageOf
  <2>8. c.kind = "at" => epoch = c.epoch /\ StartOf(c) = c.after
    BY <1>2 DEF Placeable, StartOf
  <2>9. ASSUME NEW a \in r.entries PROVE a \in Recorded /\ changes[a].epoch = epoch
    <3>1. a \in (from + 1)..to
      BY <2>18, <2>9
    <3>2. a \in Recorded /\ a > base
      BY <2>2, <2>6, <3>1 DEF Recorded
    <3>. QED
      BY <3>2 DEF SeqNames
  <2>10. ASSUME NEW a \in Recorded, a <= to, Needed(a)
         PROVE  a <= c.after \/ a \in r.gap \/ a \in r.entries
    <3>1. changes[a].ctx \in Candidates
      BY <2>10, ChangeType DEF Needed, Candidates, TypeInv
    <3>2. a \in Nat
      BY <2>2 DEF Recorded
    <3>3. CASE a <= StartOf(c)
      <4>1. a <= c.after \/ a \in (c.after + 1)..StartOf(c)
        BY <2>3, <2>4, <3>2, <3>3
      <4>. QED
        BY <2>7, <4>1
    <3>4. CASE ~(a <= StartOf(c))
      <4>1. a \in (from + 1)..to
        BY <2>4, <2>6, <2>10, <3>2, <3>4
      <4>. QED
        BY <2>18, <3>1, <4>1
    <3>. QED
      BY <3>3, <3>4
  <2>11. c.after <= StartOf(c)
    <3>1. CASE c.kind = "none"
      BY <2>2, <2>3, <3>1 DEF StartOf, CursorSound
    <3>2. CASE c.kind # "none"
      BY <2>2, <2>3, <3>2 DEF StartOf
    <3>. QED
      BY <3>1, <3>2
  <2>12. epoch \in 1..epoch
    BY <2>2 DEF SeqNames
  <2>13. ASSUME NEW a \in r.gap PROVE a \in Int /\ c.after < a /\ a <= to /\ a <= StartOf(c)
    <3>1. a \in (c.after + 1)..StartOf(c)
      BY <2>7
    <3>. QED
      BY <2>3, <2>4, <2>6, <3>1
  <2>14. c.kind = "at" => r.gap = {}
    BY <2>3, <2>8, <2>13
  <2>15. ~r.more => to = Len(changes)
    BY <2>2, <2>6, <2>19
  <2>16. c.after <= to
    BY <2>3, <2>4, <2>6, <2>11
  <2>17. PageSound(r)
    BY <2>6, <2>7, <2>8, <2>9, <2>10, <2>12, <2>13, <2>14, <2>15, <2>16 DEF PageSound
  <2>. QED
    BY <2>7, <2>17 DEF AnswerSound
<1>. QED
  BY <1>1, <1>2

\* The answers on their way after a step: those of before, and sound ones.  A caller
\* that waits still waits for one at most.
AnswersStaySound ==
  /\ \A r \in inflight' : r \in inflight \/ AnswerSound(r)'
  /\ MaxInFlight = 1 => /\ \A r, s \in inflight' : r = s
                        /\ mode' # "idle" => inflight' = {}
                        /\ \A r \in inflight' : r.since = cursor'

LEMMA InflightStaysSound ==
  ASSUME FeedInv, TypeInv', Grows, AnswersStaySound
  PROVE  \A r \in inflight' : AnswerSound(r)'
<1>1. \A r \in inflight : r \in Reply /\ AnswerSound(r)
  BY DEF FeedInv, TypeInv, TypeOK
<1>. QED
  BY <1>1, AnswerStays DEF FeedInv, AnswersStaySound

\* A step that neither moves the cursors nor the consumer's thread.
LEMMA QuietFeed ==
  ASSUME FeedInv, TypeInv', Grows, SeqNames', SeenInv', epoch' = 1 \/ epoch' <= MaxEpoch,
         UNCHANGED <<cursor, saved, handling>>, AnswersStaySound
  PROVE  FeedInv'
<1>. USE DEF handling
<1>1. /\ TypeInv /\ WorkInv /\ WaitingInv /\ CursorSound(cursor) /\ CursorSound(saved)
      /\ cursor \in Cursor /\ saved \in Cursor /\ reply \in Reply
      /\ \A c \in Watched : c \in Contexts
  BY DEF FeedInv, TypeInv, TypeOK, Contexts
<1>2. CursorSound(cursor)' /\ CursorSound(saved)'
  <2>1. \A c \in Cursor : CursorSound(c) => CursorSound(c)'
    BY <1>1, CursorStays
  <2>. QED
    BY <1>1, <2>1 DEF CursorSound
<1>3. WorkInv'
  <2>1. CASE mode = "page"
    <3>1. AnswerSound(reply) /\ reply.kind = "page" /\ todo \subseteq reply.entries
      BY <1>1, <2>1 DEF WorkInv
    <3>2. \A r \in Reply : AnswerSound(r) => AnswerSound(r)'
      BY <1>1, AnswerStays
    <3>3. AnswerSound(reply)'
      BY <1>1, <3>1, <3>2 DEF AnswerSound, PageSound, CursorSound
    <3>. QED
      BY <2>1, <3>1, <3>3 DEF WorkInv
  <2>2. CASE mode = "resync"
    <3>1. /\ cursor.after <= reply.head /\ reply.head <= Len(changes)
          /\ \A c \in Watched \ left : seen[c] >= reply.head
      BY <1>1, <2>2 DEF WorkInv
    <3>2. /\ Len(changes') >= Len(changes) /\ Len(changes) \in Nat /\ Len(changes') \in Nat
          /\ reply.head \in Nat
          /\ \A c \in Watched : seen'[c] >= seen[c] /\ seen[c] \in Nat /\ seen'[c] \in Nat
      BY <1>1 DEF Grows, TypeInv, TypeOK, Reply
    <3>. QED
      BY <2>2, <3>1, <3>2 DEF WorkInv
  <2>. QED
    BY <2>1, <2>2 DEF WorkInv
<1>4. WaitingInv'
  <2>1. cursor.kind = "at" => cursor.epoch <= epoch
    BY <1>1 DEF CursorSound, TypeInv, TypeOK
  <2>2. ~Placeable(cursor) => ~Placeable(cursor)'
    <3>1. ~Placeable(cursor) => cursor.kind = "at"
      BY DEF Placeable
    <3>2. \A c \in Cursor : c.epoch <= epoch /\ ~Placeable(c) => ~Placeable(c)'
      BY DEF Grows
    <3>. QED
      BY <1>1, <2>1, <3>1, <3>2 DEF Placeable
  <2>. QED
    BY <1>1, <2>2 DEF WaitingInv, AnswersStaySound
<1>5. \A r \in inflight' : AnswerSound(r)'
  BY InflightStaysSound
<1>. QED
  BY <1>2, <1>3, <1>4, <1>5 DEF FeedInv

LEMMA RegistryFeed ==
  ASSUME FeedInv, TypeInv', Grows, Registry
  PROVE  FeedInv'
<1>. USE DEF registry, history
<1>1. /\ TypeInv /\ SeqNames /\ SeenInv /\ WaitingInv /\ (epoch = 1 \/ epoch <= MaxEpoch)
      /\ Len(changes) \in Nat /\ base \in Nat /\ epoch \in Nat /\ base <= Len(changes)
      /\ \A c \in Contexts : seen[c] \in Nat
  BY DEF FeedInv, TypeInv, TypeOK
<1>2. UNCHANGED <<inflight, cursor, saved, handling, seen>>
  BY DEF Registry, Record, ResetSequence, ExpireCursors
<1>3. AnswersStaySound
  BY <1>1, <1>2 DEF AnswersStaySound, WaitingInv, handling
<1>4. SeenInv'
  BY <1>1, <1>2 DEF SeenInv, Grows, TypeInv, TypeOK
<1>5. epoch' = 1 \/ epoch' <= MaxEpoch
  <2>1. CASE ResetSequence
    BY <1>1, <2>1, BoundAssumption DEF ResetSequence
  <2>2. CASE ~ResetSequence
    BY <1>1, <2>2 DEF Registry, Record, ExpireCursors
  <2>. QED
    BY <2>1, <2>2
<1>6. SeqNames'
  <2>1. ASSUME NEW c \in Contexts, NEW f \in Forms, Record(c, f) PROVE SeqNames'
    <3>. DEFINE last == Len(changes) + 1
    <3>1. /\ Recorded' = Recorded \cup {last}
          /\ \A a \in Recorded : changes'[a] = changes[a]
          /\ changes'[last] = Recording(c, f)
          /\ UNCHANGED <<epoch, base>>
      BY <1>1, <2>1, RecordAppends
    <3>2. \A a \in Recorded : a \in Nat /\ a < last
      BY <1>1 DEF Recorded
    <3>3. /\ changes'[last].epoch = epoch /\ changes'[last].seq = last - base
          /\ last \in Nat /\ last > base /\ epoch \in 1..epoch
      BY <1>1, <3>1 DEF Recording, SeqNames
    <3>. HIDE DEF last
    <3>4. ASSUME NEW a \in Recorded'
          PROVE  /\ changes'[a].epoch \in 1..epoch
                 /\ a > base <=> changes'[a].epoch = epoch
                 /\ a > base => changes'[a].seq = a - base
      <4>1. CASE a = last
        BY <3>3, <4>1
      <4>2. CASE a \in Recorded
        BY <1>1, <3>1, <4>2 DEF SeqNames
      <4>. QED
        BY <3>1, <4>1, <4>2
    <3>5. ASSUME NEW a \in Recorded, changes[a].epoch = epoch, changes[a].seq = last - base
          PROVE  FALSE
      <4>1. a > base /\ changes[a].seq = a - base
        BY <1>1, <3>5 DEF SeqNames
      <4>. QED
        BY <1>1, <3>2, <3>3, <3>5, <4>1
    <3>6. ASSUME NEW a \in Recorded', NEW b \in Recorded',
                 changes'[a].epoch = changes'[b].epoch, changes'[a].seq = changes'[b].seq
          PROVE  a = b
      <4>1. CASE a \in Recorded /\ b \in Recorded
        BY <1>1, <3>1, <3>6, <4>1 DEF SeqNames
      <4>2. CASE a = last /\ b \in Recorded
        BY <3>1, <3>3, <3>5, <3>6, <4>2
      <4>3. CASE a \in Recorded /\ b = last
        BY <3>1, <3>3, <3>5, <3>6, <4>3
      <4>. QED
        BY <3>1, <4>1, <4>2, <4>3
    <3>. QED
      BY <1>1, <3>1, <3>4, <3>6 DEF SeqNames
  <2>2. CASE ResetSequence
    <3>1. epoch' = epoch + 1 /\ base' = Len(changes) /\ changes' = changes
      BY <2>2 DEF ResetSequence
    <3>. QED
      BY <1>1, <3>1 DEF SeqNames, Recorded
  <2>3. CASE ExpireCursors
    BY <1>1, <2>3 DEF ExpireCursors, SeqNames, Recorded
  <2>. QED
    BY <2>1, <2>2, <2>3 DEF Registry
<1>. QED
  BY <1>2, <1>3, <1>4, <1>5, <1>6, QuietFeed

LEMMA NetworkFeed ==
  ASSUME FeedInv, TypeInv', Grows,
         \/ \E limit \in 1..MaxLimit : Pull(limit)
         \/ \E r \in inflight : RetrySmaller(r) \/ IgnoreError(r)
         \/ PullRefused
         \/ LoseReply
         \/ UNCHANGED vars
  PROVE  FeedInv'
<1>. USE DEF registry, handling, history
<1>1. /\ TypeInv /\ SeqNames /\ SeenInv /\ WaitingInv /\ (epoch = 1 \/ epoch <= MaxEpoch)
      /\ cursor \in Cursor /\ CursorSound(cursor) /\ inflight \subseteq Reply
  BY DEF FeedInv, TypeInv, TypeOK
<1>2. MaxInFlight = 1 /\ Cardinality(inflight) < MaxInFlight => inflight = {}
  <2>1. SUFFICES ASSUME MaxInFlight = 1, NEW r \in inflight
                 PROVE  ~(Cardinality(inflight) < 1)
    OBVIOUS
  <2>2. inflight = {r}
    BY <1>1, <2>1 DEF WaitingInv
  <2>3. Cardinality({r}) = 1
    BY FS_Singleton
  <2>. QED
    BY <2>2, <2>3
<1>3. UNCHANGED <<registry, cursor, saved, handling, seen>>
  BY DEF Pull, RetrySmaller, IgnoreError, PullRefused, LoseReply, vars
<1>4. \A r : AnswerSound(r) => AnswerSound(r)'
  BY <1>3 DEF AnswerSound, CursorSound, PageSound, Recorded, Needed, Placeable
<1>5. AnswersStaySound
  <2>1. ASSUME NEW limit \in 1..MaxLimit, Pull(limit) PROVE AnswersStaySound
    <3>1. PICK r \in Answers(cursor, limit) : inflight' = inflight \cup {r}
      BY <2>1 DEF Pull
    <3>2. r.since = cursor /\ AnswerSound(r)
      BY <1>1, LimitAssumption, AnswersSound
    <3>3. MaxInFlight = 1 => inflight' = {r} /\ mode' = "idle"
      BY <1>2, <2>1, <3>1 DEF Pull
    <3>4. \A q \in inflight' : q \in inflight \/ AnswerSound(q)'
      BY <1>4, <3>1, <3>2
    <3>. QED
      BY <1>3, <3>2, <3>3, <3>4 DEF AnswersStaySound
  <2>2. ASSUME NEW r \in inflight, RetrySmaller(r) PROVE AnswersStaySound
    <3>1. PICK s \in Answers(cursor, r.limit \div 2) : inflight' = (inflight \ {r}) \cup {s}
      BY <2>2 DEF RetrySmaller
    <3>2. r.limit \div 2 \in Nat
      BY <1>1 DEF Reply
    <3>3. s.since = cursor /\ AnswerSound(s)
      BY <1>1, <3>2, AnswersSound
    <3>4. MaxInFlight = 1 => inflight' = {s} /\ mode' = "idle"
      BY <1>1, <2>2, <3>1 DEF RetrySmaller, WaitingInv
    <3>5. \A q \in inflight' : q \in inflight \/ AnswerSound(q)'
      BY <1>4, <3>1, <3>3
    <3>. QED
      BY <1>3, <3>3, <3>4, <3>5 DEF AnswersStaySound
  <2>3. CASE PullRefused
    <3>. DEFINE refusal == ErrorReply(cursor, "rate_limited")
    <3>1. /\ inflight' = inflight \cup {refusal}
          /\ MaxInFlight = 1 => inflight' = {refusal} /\ mode' = "idle"
      BY <1>2, <2>3 DEF PullRefused
    <3>2. refusal.since = cursor /\ refusal.kind = "error" /\ refusal.code = "rate_limited"
      BY DEF ErrorReply
    <3>3. AnswerSound(refusal)
      BY <1>1, <3>2 DEF AnswerSound
    <3>. HIDE DEF refusal
    <3>4. \A q \in inflight' : q \in inflight \/ AnswerSound(q)'
      BY <1>4, <3>1, <3>3
    <3>. QED
      BY <1>3, <3>1, <3>2, <3>4 DEF AnswersStaySound
  <2>4. CASE inflight' \subseteq inflight
    BY <1>1, <1>3, <2>4 DEF AnswersStaySound, WaitingInv
  <2>5. ASSUME NEW r \in inflight, IgnoreError(r) PROVE inflight' \subseteq inflight
    BY <2>5 DEF IgnoreError
  <2>6. CASE LoseReply \/ UNCHANGED vars
    BY <2>4, <2>6 DEF LoseReply, vars
  <2>. QED
    BY <2>1, <2>2, <2>3, <2>4, <2>5, <2>6
<1>6. SeqNames' /\ SeenInv' /\ (epoch' = 1 \/ epoch' <= MaxEpoch)
  BY <1>1, <1>3 DEF SeqNames, SeenInv, Recorded
<1>. QED
  BY <1>3, <1>5, <1>6, QuietFeed

\* What FeedInv says of cursors and answers after a step that leaves the registry alone.
LEMMA KeptSound ==
  ASSUME FeedInv, TypeInv', Grows, UNCHANGED registry
  PROVE  /\ \A c \in Cursor : CursorSound(c) => CursorSound(c)'
         /\ \A r \in Reply : AnswerSound(r) => AnswerSound(r)'
         /\ \A r \in inflight : AnswerSound(r)'
         /\ SeqNames' /\ (epoch' = 1 \/ epoch' <= MaxEpoch)
         /\ \A c : Placeable(c)' <=> Placeable(c)
<1>. USE DEF registry
<1>1. TypeInv /\ SeqNames /\ inflight \subseteq Reply /\ \A r \in inflight : AnswerSound(r)
  BY DEF FeedInv, TypeInv, TypeOK
<1>2. SeqNames' /\ (epoch' = 1 \/ epoch' <= MaxEpoch)
  BY <1>1 DEF FeedInv, SeqNames, Recorded
<1>3. \A c : Placeable(c)' <=> Placeable(c)
  BY DEF Placeable
<1>. QED
  BY <1>1, <1>2, <1>3, CursorStays, AnswerStays

LEMMA PageFeed ==
  ASSUME FeedInv, TypeInv', Grows, (\E r \in inflight : BeginPage(r)) \/ PageStep \/ EndPage
  PROVE  FeedInv'
<1>. USE DEF history
<1>1. /\ TypeInv /\ TypeOK /\ SeenInv /\ WorkInv /\ WaitingInv
      /\ CursorSound(cursor) /\ CursorSound(saved) /\ \A r \in inflight : AnswerSound(r)
      /\ cursor \in Cursor /\ saved \in Cursor /\ reply \in Reply /\ inflight \subseteq Reply
      /\ Len(changes) \in Nat /\ \A c \in Contexts : seen[c] \in Nat
  <2>1. /\ TypeInv /\ SeenInv /\ WorkInv /\ WaitingInv
        /\ CursorSound(cursor) /\ CursorSound(saved) /\ \A r \in inflight : AnswerSound(r)
    BY DEF FeedInv
  <2>2. TypeOK
    BY <2>1 DEF TypeInv
  <2>3. /\ cursor \in Cursor /\ saved \in Cursor /\ reply \in Reply /\ inflight \subseteq Reply
        /\ Len(changes) \in Nat /\ \A c \in Contexts : seen[c] \in Nat
    BY <2>2 DEF TypeOK
  <2>. QED
    BY <2>1, <2>2, <2>3
<1>2. UNCHANGED registry
  BY DEF PageStep, BeginPage, EndPage, SkipProcessed, SkipNeighbour, VerifyAccept, VerifyReject,
         FailPage
<1>3. /\ \A c \in Cursor : CursorSound(c) => CursorSound(c)'
      /\ \A r \in Reply : AnswerSound(r) => AnswerSound(r)'
      /\ \A r \in inflight : AnswerSound(r)'
      /\ SeqNames' /\ (epoch' = 1 \/ epoch' <= MaxEpoch)
  BY <1>2, KeptSound
<1>4. ASSUME NEW r \in inflight, BeginPage(r) PROVE FeedInv'
  <2>1. /\ mode = "idle" /\ mode' = "page" /\ reply' = r /\ todo' = r.entries
        /\ inflight' = inflight \ {r} /\ r.kind = "page"
        /\ UNCHANGED <<changes, cursor, saved, seen>>
    BY <1>4 DEF BeginPage, registry
  <2>2. WorkInv'
    BY <1>3, <2>1 DEF WorkInv, AnswerSound, PageSound, CursorSound
  <2>3. WaitingInv'
    BY <1>1, <2>1 DEF WaitingInv
  <2>4. CursorSound(cursor)' /\ CursorSound(saved)' /\ SeenInv'
    BY <1>1, <1>3, <2>1 DEF CursorSound, SeenInv
  <2>. QED
    BY <1>3, <2>1, <2>2, <2>3, <2>4 DEF FeedInv
<1>5. CASE PageStep
  <2>1. PICK a \in todo : \/ SkipProcessed(a) \/ SkipNeighbour(a)
                          \/ VerifyAccept(a) \/ VerifyReject(a) \/ FailPage(a)
    BY <1>5 DEF PageStep
  <2>2. mode = "page" /\ a \in Recorded
    BY <1>1, <1>5 DEF PageStep, TypeOK
  <2>3. UNCHANGED <<changes, inflight, cursor, saved>>
    BY <1>2, <2>1 DEF SkipProcessed, SkipNeighbour, VerifyAccept, VerifyReject, FailPage, registry
  <2>4. SeenInv'
    <3>1. seen' = seen \/ seen' = [seen EXCEPT ![changes[a].ctx] = Len(changes)]
      BY <2>1 DEF SkipProcessed, SkipNeighbour, VerifyAccept, VerifyReject, FailPage, Reverified
    <3>. QED
      BY <1>1, <2>3, <3>1 DEF SeenInv, TypeOK
  <2>5. WorkInv' /\ WaitingInv'
    <3>1. CASE FailPage(a)
      <4>1. mode' = "idle" /\ reply' = NoReply
        BY <3>1 DEF FailPage
      <4>. QED
        BY <1>1, <2>2, <2>3, <4>1 DEF WorkInv, WaitingInv
    <3>2. CASE ~FailPage(a)
      <4>1. mode' = mode /\ reply' = reply /\ todo' = todo \ {a}
        BY <2>1, <3>2
           DEF SkipProcessed, SkipNeighbour, VerifyAccept, VerifyReject, MarkProcessed
      <4>2. AnswerSound(reply) /\ reply.kind = "page" /\ todo \subseteq reply.entries
        BY <1>1, <2>2 DEF WorkInv
      <4>3. AnswerSound(reply)'
        BY <1>1, <1>3, <4>1, <4>2 DEF AnswerSound, PageSound, CursorSound
      <4>. QED
        BY <1>1, <2>2, <2>3, <4>1, <4>2, <4>3 DEF WorkInv, WaitingInv
    <3>. QED
      BY <3>1, <3>2
  <2>6. CursorSound(cursor)' /\ CursorSound(saved)'
    BY <1>1, <1>3, <2>3 DEF CursorSound
  <2>. QED
    BY <1>3, <2>3, <2>4, <2>5, <2>6 DEF FeedInv
<1>6. CASE EndPage
  <2>1. /\ mode = "page" /\ mode' = "idle" /\ cursor' = reply.next
        /\ UNCHANGED <<changes, inflight, saved, seen>>
    BY <1>2, <1>6 DEF EndPage, registry
  <2>2. AnswerSound(reply) /\ reply.kind = "page" /\ PageSound(reply) /\ reply.next \in Cursor
    BY <1>1, <2>1 DEF WorkInv, AnswerSound, Reply
  <2>3. CursorSound(reply.next)
    BY <2>2 DEF PageSound, CursorSound
  <2>4. CursorSound(cursor)' /\ CursorSound(saved)' /\ SeenInv'
    BY <1>1, <1>3, <2>1, <2>2, <2>3 DEF CursorSound, SeenInv
  <2>5. WorkInv'
    BY <2>1 DEF WorkInv
  <2>6. WaitingInv'
    <3>1. MaxInFlight = 1 => /\ inflight = {} /\ reply.since = cursor
                             /\ saved.after <= cursor.after
      BY <1>1, <2>1 DEF WaitingInv
    <3>2. cursor.after \in Nat /\ reply.next.after \in Nat /\ saved.after \in Nat
      BY <1>1, <2>2 DEF Cursor
    <3>3. reply.since.after <= reply.next.after
      BY <2>2 DEF PageSound
    <3>4. MaxInFlight = 1 => saved.after <= reply.next.after
      BY <3>1, <3>2, <3>3
    <3>. QED
      BY <2>1, <3>1, <3>4 DEF WaitingInv
  <2>. QED
    BY <1>3, <2>1, <2>4, <2>5, <2>6 DEF FeedInv
<1>. QED
  BY <1>4, <1>5, <1>6

\* Re-verifying the watched contexts is what makes it safe to resume at "head".
LEMMA ResyncFeed ==
  ASSUME FeedInv, TypeInv', Grows, (\E r \in inflight : BeginResync(r)) \/ Resync
  PROVE  FeedInv'
<1>. USE DEF history
<1>1. /\ TypeInv /\ TypeOK /\ SeenInv /\ WorkInv /\ WaitingInv
      /\ CursorSound(cursor) /\ CursorSound(saved) /\ \A r \in inflight : AnswerSound(r)
      /\ cursor \in Cursor /\ saved \in Cursor /\ reply \in Reply /\ inflight \subseteq Reply
      /\ Len(changes) \in Nat /\ \A c \in Contexts : seen[c] \in Nat
      /\ cursor.after \in Nat /\ saved.after \in Nat /\ reply.head \in Nat
  <2>1. /\ TypeInv /\ SeenInv /\ WorkInv /\ WaitingInv
        /\ CursorSound(cursor) /\ CursorSound(saved) /\ \A r \in inflight : AnswerSound(r)
    BY DEF FeedInv
  <2>2. TypeOK
    BY <2>1 DEF TypeInv
  <2>3. /\ cursor \in Cursor /\ saved \in Cursor /\ reply \in Reply /\ inflight \subseteq Reply
        /\ Len(changes) \in Nat /\ \A c \in Contexts : seen[c] \in Nat
    BY <2>2 DEF TypeOK
  <2>4. cursor.after \in Nat /\ saved.after \in Nat /\ reply.head \in Nat
    BY <2>3 DEF Cursor, Reply
  <2>. QED
    BY <2>1, <2>2, <2>3, <2>4
<1>2. UNCHANGED registry
  BY DEF BeginResync, Resync, ReverifyWatched, EndResync, FailResync
<1>3. /\ \A c \in Cursor : CursorSound(c) => CursorSound(c)'
      /\ \A r \in Reply : AnswerSound(r) => AnswerSound(r)'
      /\ \A r \in inflight : AnswerSound(r)'
      /\ SeqNames' /\ (epoch' = 1 \/ epoch' <= MaxEpoch)
      /\ \A c : Placeable(c)' <=> Placeable(c)
  BY <1>2, KeptSound
<1>4. ASSUME NEW r \in inflight, BeginResync(r) PROVE FeedInv'
  <2>1. /\ mode = "idle" /\ mode' = "resync" /\ inflight' = inflight \ {r}
        /\ reply' = [r EXCEPT !.head = Len(changes)] /\ left' = Watched
        /\ ForcesResync(r.code)
        /\ UNCHANGED <<changes, cursor, saved, seen>>
    BY <1>2, <1>4 DEF BeginResync, registry
  <2>2. reply'.head = Len(changes)
    BY <1>1, <2>1 DEF Reply
  <2>3. WorkInv'
    BY <1>1, <2>1, <2>2 DEF WorkInv, CursorSound
  <2>4. WaitingInv'
    <3>1. ~Placeable(r.since)
      BY <1>1, <2>1 DEF ForcesResync, AnswerSound
    <3>2. MaxInFlight = 1 => /\ inflight' = {} /\ ~Placeable(cursor)
                             /\ saved.after <= cursor.after
      BY <1>1, <2>1, <3>1 DEF WaitingInv
    <3>3. ~Placeable(cursor) => ~Placeable(cursor)'
      BY <1>2, <2>1 DEF Placeable, registry
    <3>. QED
      BY <2>1, <3>2, <3>3 DEF WaitingInv
  <2>5. CursorSound(cursor)' /\ CursorSound(saved)' /\ SeenInv'
    BY <1>1, <1>3, <2>1 DEF CursorSound, SeenInv
  <2>. QED
    BY <1>3, <2>1, <2>3, <2>4, <2>5 DEF FeedInv
<1>5. ASSUME NEW c \in left, ReverifyWatched(c) PROVE FeedInv'
  <2>1. /\ mode = "resync" /\ left' = left \ {c} /\ seen' = [seen EXCEPT ![c] = Len(changes)]
        /\ UNCHANGED <<changes, inflight, cursor, mode, reply, saved>>
    BY <1>2, <1>5 DEF ReverifyWatched, registry
  <2>2. c \in Contexts
    BY <1>1 DEF TypeOK, Contexts
  <2>3. seen'[c] = Len(changes) /\ \A d \in Contexts \ {c} : seen'[d] = seen[d]
    BY <1>1, <2>1, <2>2 DEF TypeOK
  <2>4. SeenInv'
    BY <1>1, <2>1, <2>3 DEF SeenInv
  <2>5. /\ cursor.after <= reply.head /\ reply.head <= Len(changes)
        /\ \A d \in Watched \ left : seen[d] >= reply.head
    BY <1>1, <2>1 DEF WorkInv
  <2>6. \A d \in Watched \ left' : seen'[d] >= reply.head
    BY <1>1, <2>1, <2>3, <2>5 DEF Contexts
  <2>7. WorkInv'
    BY <2>1, <2>5, <2>6 DEF WorkInv
  <2>8. WaitingInv'
    BY <1>1, <1>2, <2>1 DEF WaitingInv, Placeable, registry
  <2>9. CursorSound(cursor)' /\ CursorSound(saved)'
    BY <1>1, <1>3, <2>1 DEF CursorSound
  <2>. QED
    BY <1>3, <2>1, <2>4, <2>7, <2>8, <2>9 DEF FeedInv
<1>6. CASE FailResync
  <2>1. mode = "resync" /\ mode' = "idle" /\ UNCHANGED <<changes, inflight, cursor, saved, seen>>
    BY <1>2, <1>6 DEF FailResync, registry
  <2>2. CursorSound(cursor)' /\ CursorSound(saved)' /\ SeenInv' /\ WorkInv' /\ WaitingInv'
    BY <1>1, <1>3, <2>1 DEF CursorSound, SeenInv, WorkInv, WaitingInv
  <2>. QED
    BY <1>3, <2>1, <2>2 DEF FeedInv
<1>7. CASE EndResync
  <2>1. /\ mode = "resync" /\ mode' = "idle" /\ left = {} /\ cursor' = HeadCursor(reply.head)
        /\ UNCHANGED <<changes, inflight, saved, seen>>
    BY <1>2, <1>7 DEF EndResync, registry
  <2>2. /\ cursor'.kind = "head" /\ cursor'.epoch = 0 /\ cursor'.after = reply.head
    BY <2>1 DEF HeadCursor
  <2>3. /\ cursor.after <= reply.head /\ reply.head <= Len(changes)
        /\ \A c \in Watched : seen[c] >= reply.head
    BY <1>1, <2>1 DEF WorkInv
  <2>4. CursorSound(cursor)' /\ CursorSound(saved)' /\ SeenInv' /\ WorkInv'
    BY <1>1, <1>3, <2>1, <2>2, <2>3 DEF CursorSound, SeenInv, WorkInv
  <2>5. WaitingInv'
    <3>1. MaxInFlight = 1 => inflight = {} /\ saved.after <= cursor.after
      BY <1>1, <2>1 DEF WaitingInv
    <3>2. MaxInFlight = 1 => saved.after <= reply.head
      BY <1>1, <2>3, <3>1
    <3>. QED
      BY <2>1, <2>2, <3>1, <3>2 DEF WaitingInv
  <2>. QED
    BY <1>3, <2>1, <2>4, <2>5 DEF FeedInv
<1>. QED
  BY <1>4, <1>5, <1>6, <1>7 DEF Resync

\* A crash falls back to the persisted cursor, which is as sound.
LEMMA RestartFeed ==
  ASSUME FeedInv, TypeInv', Grows, Persist \/ Crash
  PROVE  FeedInv'
<1>. USE DEF handling, history
<1>1. /\ TypeOK /\ SeenInv /\ WorkInv /\ WaitingInv /\ CursorSound(cursor) /\ CursorSound(saved)
      /\ cursor \in Cursor /\ saved \in Cursor /\ reply \in Reply
      /\ cursor.after \in Nat /\ saved.after \in Nat
  BY DEF FeedInv, TypeInv, TypeOK, Cursor
<1>2. UNCHANGED registry /\ UNCHANGED seen /\ UNCHANGED changes
  BY DEF Persist, Crash, registry
<1>3. /\ \A c \in Cursor : CursorSound(c) => CursorSound(c)'
      /\ \A r \in inflight : AnswerSound(r)'
      /\ \A r \in Reply : AnswerSound(r) => AnswerSound(r)'
      /\ SeqNames' /\ (epoch' = 1 \/ epoch' <= MaxEpoch)
  BY <1>2, KeptSound
<1>4. SeenInv'
  BY <1>1, <1>2 DEF SeenInv
<1>5. CASE Persist
  <2>1. saved' = cursor /\ UNCHANGED <<inflight, cursor, mode, reply, todo, left>>
    BY <1>5 DEF Persist
  <2>2. CursorSound(cursor)' /\ CursorSound(saved)'
    BY <1>1, <1>3, <2>1 DEF CursorSound
  <2>3. mode = "idle"
    BY <1>5 DEF Persist
  <2>4. WorkInv' /\ WaitingInv'
    BY <1>1, <2>1, <2>3 DEF WorkInv, WaitingInv
  <2>. QED
    BY <1>3, <1>4, <2>1, <2>2, <2>4 DEF FeedInv
<1>6. CASE Crash
  <2>1. cursor' = saved /\ saved' = saved /\ inflight' = {} /\ mode' = "idle"
    BY <1>6 DEF Crash
  <2>2. CursorSound(cursor)' /\ CursorSound(saved)'
    BY <1>1, <1>3, <2>1 DEF CursorSound
  <2>3. WorkInv' /\ WaitingInv'
    BY <1>1, <2>1 DEF WorkInv, WaitingInv
  <2>. QED
    BY <1>3, <1>4, <2>1, <2>2, <2>3 DEF FeedInv
<1>. QED
  BY <1>5, <1>6

LEMMA InitFeed == Init => FeedInv
<1>1. SUFFICES ASSUME Init PROVE FeedInv
  OBVIOUS
<1>2. TypeInv
  BY <1>1, InitTypeInv
<1>3. /\ Len(changes) = 0 /\ Recorded = {} /\ epoch = 1 /\ inflight = {} /\ mode = "idle"
      /\ \A c \in Contexts : seen[c] = 0
      /\ cursor = NoCursor /\ saved = NoCursor
  BY <1>1 DEF Init, Recorded
<1>4. NoCursor.kind = "none" /\ NoCursor.epoch = 0 /\ NoCursor.after = 0
  BY DEF NoCursor
<1>. QED
  BY <1>2, <1>3, <1>4 DEF FeedInv, SeqNames, SeenInv, WorkInv, WaitingInv, CursorSound

LEMMA NextFeed == FeedInv /\ [Next]_vars => FeedInv' /\ TypeInv' /\ Grows
<1>1. SUFFICES ASSUME FeedInv, [Next]_vars PROVE FeedInv' /\ TypeInv' /\ Grows
  OBVIOUS
<1>2. TypeInv' /\ Grows
  BY <1>1, NextTypeInv, NextGrows DEF FeedInv
<1>3. CASE Registry
  BY <1>1, <1>2, <1>3, RegistryFeed
<1>4. CASE Consumer
  <2>1. CASE \E limit \in 1..MaxLimit : Pull(limit)
    BY <1>1, <1>2, <2>1, NetworkFeed
  <2>2. ASSUME NEW r \in inflight, RetrySmaller(r) \/ IgnoreError(r) PROVE FeedInv'
    BY <1>1, <1>2, <2>2, NetworkFeed
  <2>3. ASSUME NEW r \in inflight, BeginPage(r) PROVE FeedInv'
    BY <1>1, <1>2, <2>3, PageFeed
  <2>4. ASSUME NEW r \in inflight, BeginResync(r) PROVE FeedInv'
    BY <1>1, <1>2, <2>4, ResyncFeed
  <2>5. CASE PageStep \/ EndPage
    BY <1>1, <1>2, <2>5, PageFeed
  <2>6. CASE Resync
    BY <1>1, <1>2, <2>6, ResyncFeed
  <2>. QED
    BY <1>2, <1>4, <2>1, <2>2, <2>3, <2>4, <2>5, <2>6 DEF Consumer, Receive
<1>5. CASE Persist \/ Crash
  BY <1>1, <1>2, <1>5, RestartFeed
<1>6. CASE PullRefused \/ LoseReply \/ UNCHANGED vars
  BY <1>1, <1>2, <1>6, NetworkFeed
<1>. QED
  BY <1>1, <1>2, <1>3, <1>4, <1>5, <1>6 DEF Next

LEMMA FeedAlways == Spec => []FeedInv
<1>1. FeedInv /\ [Next]_vars => FeedInv'
  BY NextFeed
<1>. QED
  BY <1>1, InitFeed, PTL DEF Spec

\* A caller that waits for each answer resyncs only when its cursor has really
\* expired, whatever the errors it gets and though its callbacks may raise.
THEOREM ResyncHasCause ==
  ASSUME MaxInFlight = 1
  PROVE  Spec => []ResyncIsNeeded
<1>1. FeedInv => ResyncIsNeeded
  BY DEF FeedInv, WaitingInv, ResyncIsNeeded, Placeable
<1>. QED
  BY <1>1, FeedAlways, PTL

\* The same caller jumps, when it rejoins, only over changes recorded after it began
\* to re-verify its watched contexts.
THEOREM GapsFollowReverification ==
  ASSUME MaxInFlight = 1
  PROVE  Spec => GapAfterReverification
<1>1. ASSUME FeedInv, [Next]_vars
      PROVE  [gaps' # gaps /\ cursor.kind = "head" =>
       \A a \in gaps' \ gaps : a > cursor.after
                               /\ \A c \in Watched : seen[c] >= cursor.after]_vars
  <2>1. /\ WorkInv /\ WaitingInv /\ CursorSound(cursor) /\ cursor.after \in Nat
        /\ \A a \in reply.gap : a \in Nat
    BY <1>1 DEF FeedInv, TypeInv, TypeOK, Cursor, Reply
  <2>2. CASE EndPage
    <3>1. reply.since = cursor /\ PageSound(reply) /\ gaps' = gaps \cup reply.gap
      BY <2>1, <2>2 DEF EndPage, WorkInv, WaitingInv, AnswerSound
    <3>2. \A a \in gaps' \ gaps : a > cursor.after
      BY <2>1, <3>1 DEF PageSound
    <3>. QED
      BY <2>1, <3>2 DEF CursorSound
  <2>3. CASE gaps' = gaps
    BY <2>3
  <2>4. EndPage \/ gaps' = gaps
    BY <1>1 DEF Next, Registry, Consumer, Receive, PageStep, Resync, Record, ResetSequence,
                ExpireCursors, Pull, PullRefused, LoseReply, RetrySmaller, BeginPage,
                SkipProcessed, SkipNeighbour, VerifyAccept, VerifyReject, FailPage, IgnoreError,
                BeginResync, ReverifyWatched, FailResync, EndResync, Persist, Crash, vars, history
  <2>. QED
    BY <2>2, <2>3, <2>4
<1>. QED
  BY <1>1, FeedAlways, PTL DEF Spec, GapAfterReverification

-----------------------------------------------------------------------------
(* Nothing missed: what was heard and what was remembered                  *)

Taken(a) == Heard(a) \/ Told(page, a)

\* The epoch the dedup state is about; 0, which no change has, when the consumer
\* has yet to join the feed.
DedupEpoch == IF mode = "page" THEN reply.next.epoch ELSE cursor.epoch

DedupInv ==
  \A s \in processed :
    \E a \in Recorded :
      changes[a].epoch = DedupEpoch /\ changes[a].seq = s /\ (Needed(a) => Taken(a))

\* Wherever the consumer may yet be taken, by the cursor it holds, by the one it
\* persisted or by an answer under way, everything needed up to there is accounted for.
CoveredInv == NothingMissed /\ \A r \in inflight : Covered(r.since.after)

\* The page at hand: what has left `todo` has been taken.
TakenInv ==
  mode = "page" => /\ Covered(reply.since.after)
                   /\ \A a \in reply.entries \ todo : Needed(a) => Taken(a)

HeardInv == DedupInv /\ CoveredInv /\ TakenInv

\* What was heard stays heard, and what was covered stays covered.
LEMMA HeardStays ==
  ASSUME FeedInv, TypeInv', Grows
  PROVE  /\ \A a \in Recorded : /\ a \in Recorded' /\ changes'[a] = changes[a]
                                /\ Needed(a)' <=> Needed(a)
                                /\ Heard(a) => Heard(a)'
         /\ \A p \in Nat : p <= Len(changes) /\ Covered(p) => Covered(p)'
<1>1. /\ TypeInv /\ Len(changes) \in Nat /\ Len(changes') \in Nat
      /\ \A c \in Contexts : seen[c] \in Nat /\ seen'[c] \in Nat
  BY DEF FeedInv, TypeInv, TypeOK
<1>2. ASSUME NEW a \in Recorded
      PROVE  a \in Recorded' /\ changes'[a] = changes[a] /\ (Needed(a)' <=> Needed(a))
  BY <1>2 DEF Grows, Needed
<1>3. ASSUME NEW a \in Recorded, Heard(a) PROVE Heard(a)'
  <2>1. changes'[a] = changes[a] /\ changes[a].ctx \in Contexts /\ a \in Nat
    BY <1>1, <1>2, ChangeType DEF Recorded, TypeInv
  <2>2. CASE Told(results, a)
    <3>1. results \subseteq results'
      BY DEF Grows
    <3>. QED
      BY <2>1, <2>2, <3>1 DEF Heard, Told
  <2>3. CASE seen[changes[a].ctx] >= a
    <3>1. seen'[changes[a].ctx] >= seen[changes[a].ctx]
      BY <2>1 DEF Grows
    <3>2. seen'[changes[a].ctx] >= a
      BY <1>1, <2>1, <2>3, <3>1
    <3>. QED
      BY <2>1, <3>2 DEF Heard
  <2>. QED
    BY <1>3, <2>2, <2>3 DEF Heard
<1>4. ASSUME NEW p \in Nat, p <= Len(changes), Covered(p) PROVE Covered(p)'
  <2>1. SUFFICES ASSUME NEW a \in Recorded', a <= p, Needed(a)'
                 PROVE  Heard(a)' \/ a \in gaps'
    BY DEF Covered
  <2>2. a \in Recorded
    BY <1>1, <1>4, <2>1 DEF Recorded
  <2>3. Heard(a) \/ a \in gaps
    BY <1>2, <1>4, <2>1, <2>2 DEF Covered
  <2>4. gaps \subseteq gaps'
    BY DEF Grows
  <2>. QED
    BY <1>3, <2>2, <2>3, <2>4
<1>. QED
  BY <1>2, <1>3, <1>4

\* Where the consumer holds a place: within what has been recorded.
LEMMA PlacesInRange ==
  ASSUME FeedInv
  PROVE  /\ cursor.after \in Nat /\ cursor.after <= Len(changes)
         /\ saved.after \in Nat /\ saved.after <= Len(changes)
         /\ \A r \in inflight : r.since.after \in Nat /\ r.since.after <= Len(changes)
         /\ mode = "page" => reply.since.after \in Nat /\ reply.since.after <= Len(changes)
         /\ mode = "page" => PageSound(reply) /\ todo \subseteq reply.entries
<1>1. cursor \in Cursor /\ saved \in Cursor /\ reply \in Reply /\ inflight \subseteq Reply
  BY DEF FeedInv, TypeInv, TypeOK
<1>2. \A r \in Reply : r.since.after \in Nat
  BY DEF Reply, Cursor
<1>3. \A r \in inflight : r.since.after \in Nat /\ r.since.after <= Len(changes)
  BY <1>1, <1>2 DEF FeedInv, AnswerSound, CursorSound
<1>4. mode = "page" => /\ AnswerSound(reply) /\ PageSound(reply)
                       /\ todo \subseteq reply.entries
  BY DEF FeedInv, WorkInv, AnswerSound
<1>5. mode = "page" => reply.since.after \in Nat /\ reply.since.after <= Len(changes)
  BY <1>1, <1>2, <1>4 DEF AnswerSound, CursorSound
<1>6. /\ cursor.after \in Nat /\ cursor.after <= Len(changes)
      /\ saved.after \in Nat /\ saved.after <= Len(changes)
  BY <1>1 DEF FeedInv, CursorSound, Cursor
<1>. QED
  BY <1>3, <1>4, <1>5, <1>6

\* What is accounted for stays so when no cursor moves.
LEMMA CoveredStays ==
  ASSUME FeedInv, TypeInv', Grows, CoveredInv, UNCHANGED <<cursor, saved>>,
         \A r \in inflight' : r \in inflight \/ r.since = cursor
  PROVE  CoveredInv'
<1>1. Covered(cursor.after)' /\ Covered(saved.after)'
  <2>1. Covered(cursor.after) /\ Covered(saved.after)
    BY DEF CoveredInv, NothingMissed
  <2>2. \A p \in Nat : p <= Len(changes) /\ Covered(p) => Covered(p)'
    BY HeardStays
  <2>. QED
    BY <2>1, <2>2, PlacesInRange DEF Covered
<1>2. ASSUME NEW r \in inflight' PROVE Covered(r.since.after)'
  <2>1. \A p \in Nat : p <= Len(changes) /\ Covered(p) => Covered(p)'
    BY HeardStays
  <2>2. CASE r \in inflight
    BY <2>1, <2>2, PlacesInRange DEF CoveredInv
  <2>3. CASE r.since = cursor
    BY <2>1, <2>3, PlacesInRange DEF CoveredInv, NothingMissed
  <2>. QED
    BY <2>2, <2>3
<1>. QED
  BY <1>1, <1>2 DEF CoveredInv, NothingMissed

LEMMA DedupStays ==
  ASSUME FeedInv, TypeInv', Grows, DedupInv, DedupEpoch' = DedupEpoch,
         \A a \in Recorded : Taken(a) => Taken(a)',
         \A s \in processed' : s \in processed \/
           \E a \in Recorded :
             changes[a].epoch = DedupEpoch /\ changes[a].seq = s /\ (Needed(a) => Taken(a)')
  PROVE  DedupInv'
<1>1. \A a \in Recorded : /\ a \in Recorded' /\ changes'[a] = changes[a]
                          /\ Needed(a)' <=> Needed(a)
  BY HeardStays
<1>2. SUFFICES ASSUME NEW s \in processed'
               PROVE  \E a \in Recorded' : /\ changes'[a].epoch = DedupEpoch'
                                           /\ changes'[a].seq = s
                                           /\ Needed(a)' => Taken(a)'
  BY DEF DedupInv
<1>3. PICK a \in Recorded : /\ changes[a].epoch = DedupEpoch /\ changes[a].seq = s
                            /\ Needed(a) => Taken(a)'
  BY DEF DedupInv
<1>. QED
  BY <1>1, <1>3

\* A step that takes up no page and ends none.
LEMMA QuietHeard ==
  ASSUME FeedInv, TypeInv', Grows, HeardInv,
         UNCHANGED <<cursor, saved, processed, page>>,
         mode' = "page" <=> mode = "page", mode = "page" => UNCHANGED <<reply, todo>>,
         \A r \in inflight' : r \in inflight \/ r.since = cursor
  PROVE  HeardInv'
<1>1. /\ \A a \in Recorded : /\ a \in Recorded' /\ changes'[a] = changes[a]
                             /\ Needed(a)' <=> Needed(a)
                             /\ Heard(a) => Heard(a)'
      /\ \A p \in Nat : p <= Len(changes) /\ Covered(p) => Covered(p)'
  BY HeardStays
<1>2. \A a \in Recorded : Taken(a) => Taken(a)'
  BY <1>1 DEF Taken, Told
<1>3. DedupInv'
  <2>1. DedupEpoch' = DedupEpoch
    BY DEF DedupEpoch
  <2>. QED
    BY <1>2, <2>1, DedupStays DEF HeardInv
<1>4. CoveredInv'
  BY CoveredStays DEF HeardInv
<1>5. TakenInv'
  <2>1. SUFFICES ASSUME mode = "page", reply' = reply, todo' = todo PROVE TakenInv'
    BY DEF TakenInv
  <2>2. Covered(reply.since.after) /\ \A a \in reply.entries \ todo : Needed(a) => Taken(a)
    BY <2>1 DEF HeardInv, TakenInv
  <2>3. /\ reply.since.after \in Nat /\ reply.since.after <= Len(changes)
        /\ \A a \in reply.entries : a \in Recorded
    BY <2>1, PlacesInRange DEF PageSound
  <2>4. Covered(reply.since.after)'
    <3>1. \E p \in Nat : p = reply.since.after /\ Covered(p)'
      BY <1>1, <2>2, <2>3
    <3>. QED
      BY <2>1, <3>1 DEF Covered
  <2>5. \A a \in reply.entries \ todo : Needed(a)' => Taken(a)'
    BY <1>1, <1>2, <2>2, <2>3
  <2>. QED
    BY <2>1, <2>4, <2>5 DEF TakenInv
<1>. QED
  BY <1>3, <1>4, <1>5 DEF HeardInv

\* A page that is taken up: what is in `processed` is about the epoch of the page, or
\* there is nothing in it.  This is what an answer to an older question breaks when the
\* sequence was reset in between.
LEMMA BeginPageHeard ==
  ASSUME FeedInv, TypeInv', Grows, HeardInv, MaxInFlight = 1 \/ MaxEpoch = 1,
         NEW r \in inflight, BeginPage(r)
  PROVE  HeardInv'
<1>. USE DEF registry, history
<1>1. /\ TypeOK /\ SeqNames /\ WaitingInv /\ CursorSound(cursor) /\ AnswerSound(r)
      /\ (epoch = 1 \/ epoch <= MaxEpoch) /\ DedupInv /\ CoveredInv
  BY DEF FeedInv, TypeInv, HeardInv
<1>2. /\ mode = "idle" /\ mode' = "page" /\ reply' = r /\ todo' = r.entries /\ page' = {}
      /\ inflight' = inflight \ {r} /\ r.kind = "page"
      /\ UNCHANGED <<changes, epoch, cursor, processed, results, saved, seen, gaps>>
  BY DEF BeginPage
<1>3. page = {}
  BY <1>1, <1>2 DEF TypeOK
<1>4. PageSound(r)
  BY <1>1, <1>2 DEF AnswerSound
<1>5. \A a \in Recorded : Taken(a) => Taken(a)'
  BY <1>2, <1>3 DEF Taken, Heard, Told
<1>6. DedupInv'
  <2>1. CASE cursor.kind = "at"
    <3>1. DedupEpoch' = r.next.epoch /\ DedupEpoch = cursor.epoch
      BY <1>2 DEF DedupEpoch
    <3>2. CASE MaxInFlight = 1
      <4>1. DedupEpoch' = DedupEpoch
        BY <1>1, <1>4, <2>1, <3>1, <3>2 DEF WaitingInv, PageSound
      <4>. QED
        BY <1>1, <1>2, <1>5, <4>1, DedupStays
    <3>3. CASE MaxEpoch = 1
      <4>1. epoch = 1
        BY <1>1, <3>3 DEF SeqNames, TypeOK
      <4>2. cursor.epoch \in 1..1 /\ r.next.epoch \in 1..1
        BY <1>1, <1>4, <2>1, <4>1 DEF CursorSound, PageSound
      <4>3. DedupEpoch' = DedupEpoch
        BY <3>1, <4>2
      <4>. QED
        BY <1>1, <1>2, <1>5, <4>3, DedupStays
    <3>. QED
      BY <3>2, <3>3
  <2>2. CASE cursor.kind # "at"
    <3>1. DedupEpoch = 0
      BY <1>1, <1>2, <2>2 DEF DedupEpoch, CursorSound
    <3>2. \A a \in Recorded : changes[a].epoch # 0
      BY <1>1 DEF SeqNames
    <3>3. processed' = {}
      BY <1>1, <1>2, <3>1, <3>2 DEF DedupInv
    <3>. QED
      BY <3>3 DEF DedupInv
  <2>. QED
    BY <2>1, <2>2
<1>7. CoveredInv'
  BY <1>1, <1>2, CoveredStays
<1>8. Covered(r.since.after)'
  <2>1. \A p \in Nat : p <= Len(changes) /\ Covered(p) => Covered(p)'
    BY HeardStays
  <2>. QED
    BY <1>1, <2>1, PlacesInRange DEF CoveredInv
<1>9. TakenInv'
  BY <1>2, <1>8 DEF TakenInv, Covered
<1>. QED
  BY <1>6, <1>7, <1>9 DEF HeardInv

\* An entry met as already processed is the very change that was taken.
LEMMA ProcessedIsTaken ==
  ASSUME FeedInv, DedupInv, mode = "page", NEW a \in todo, IsProcessed(a), Needed(a)
  PROVE  Taken(a)
<1>1. SeqNames /\ PageSound(reply) /\ todo \subseteq reply.entries
  BY PlacesInRange DEF FeedInv
<1>2. a \in Recorded /\ changes[a].epoch = DedupEpoch
  BY <1>1 DEF PageSound, DedupEpoch
<1>3. PICK b \in Recorded : /\ changes[b].epoch = DedupEpoch /\ changes[b].seq = changes[a].seq
                            /\ Needed(b) => Taken(b)
  BY DEF DedupInv, IsProcessed
<1>4. a = b
  BY <1>1, <1>2, <1>3 DEF SeqNames
<1>. QED
  BY <1>3, <1>4

\* One entry of the page, whatever becomes of it, once it is known to be taken.
LEMMA EntryHeard ==
  ASSUME FeedInv, TypeInv', Grows, HeardInv, mode = "page", NEW a \in todo,
         todo' = todo \ {a}, processed' \subseteq processed \cup {changes[a].seq},
         page \subseteq page', Needed(a) => Taken(a)',
         UNCHANGED <<cursor, inflight, mode, reply, saved>>
  PROVE  HeardInv'
<1>1. /\ \A b \in Recorded : /\ b \in Recorded' /\ changes'[b] = changes[b]
                             /\ Needed(b)' <=> Needed(b)
                             /\ Heard(b) => Heard(b)'
      /\ \A p \in Nat : p <= Len(changes) /\ Covered(p) => Covered(p)'
  BY HeardStays
<1>2. \A b \in Recorded : Taken(b) => Taken(b)'
  BY <1>1 DEF Taken, Told
<1>3. /\ PageSound(reply) /\ todo \subseteq reply.entries
      /\ reply.since.after \in Nat /\ reply.since.after <= Len(changes)
      /\ \A b \in reply.entries : b \in Recorded
  BY PlacesInRange DEF PageSound
<1>4. DedupInv'
  <2>1. DedupEpoch' = DedupEpoch /\ DedupEpoch = reply.next.epoch
    BY DEF DedupEpoch
  <2>2. a \in Recorded /\ changes[a].epoch = DedupEpoch
    BY <1>3, <2>1 DEF PageSound
  <2>3. \A s \in processed' : s \in processed \/
          \E b \in Recorded :
            changes[b].epoch = DedupEpoch /\ changes[b].seq = s /\ (Needed(b) => Taken(b)')
    BY <2>2
  <2>. QED
    BY <1>2, <2>1, <2>3, DedupStays DEF HeardInv
<1>5. CoveredInv'
  BY CoveredStays DEF HeardInv
<1>6. TakenInv'
  <2>1. Covered(reply.since.after) /\ \A b \in reply.entries \ todo : Needed(b) => Taken(b)
    BY DEF HeardInv, TakenInv
  <2>2. Covered(reply.since.after)'
    <3>1. \E p \in Nat : p = reply.since.after /\ Covered(p)'
      BY <1>1, <1>3, <2>1
    <3>. QED
      BY <3>1 DEF Covered
  <2>3. \A b \in reply.entries \ todo' : Needed(b)' => Taken(b)'
    BY <1>1, <1>2, <1>3, <2>1
  <2>. QED
    BY <2>2, <2>3 DEF TakenInv
<1>. QED
  BY <1>4, <1>5, <1>6 DEF HeardInv

LEMMA PageHeard ==
  ASSUME FeedInv, TypeInv', Grows, HeardInv, ~PageMayFail, PageStep
  PROVE  HeardInv'
<1>. USE DEF registry
<1>1. TypeInv /\ TypeOK /\ DedupInv
  BY DEF FeedInv, TypeInv, HeardInv
<1>2. PICK a \in todo : \/ SkipProcessed(a) \/ SkipNeighbour(a)
                        \/ VerifyAccept(a) \/ VerifyReject(a) \/ FailPage(a)
  BY DEF PageStep
<1>3. mode = "page" /\ a \in Recorded /\ Len(changes) \in Nat
  BY <1>1 DEF PageStep, TypeOK
<1>4. CASE SkipProcessed(a)
  <2>1. /\ todo' = todo \ {a}
        /\ UNCHANGED <<changes, seen, processed, page, cursor, inflight, results, mode, reply,
                       saved>>
    BY <1>4 DEF SkipProcessed, history
  <2>2. Needed(a) => Taken(a)
    BY <1>1, <1>3, <1>4, ProcessedIsTaken DEF SkipProcessed
  <2>3. Needed(a) => Taken(a)'
    BY <2>1, <2>2 DEF Taken, Heard, Told
  <2>. QED
    BY <1>3, <2>1, <2>3, EntryHeard
<1>5. CASE SkipNeighbour(a)
  <2>1. /\ ~Needed(a) /\ todo' = todo \ {a} /\ processed' = processed \cup {changes[a].seq}
        /\ UNCHANGED <<page, cursor, inflight, mode, reply, saved>>
    BY <1>5 DEF SkipNeighbour, MarkProcessed, LocalMatch, Needed
  <2>. QED
    BY <1>3, <2>1, EntryHeard
<1>6. CASE VerifyAccept(a)
  <2>1. /\ todo' = todo \ {a} /\ processed' = processed \cup {changes[a].seq}
        /\ page' = page \cup {[at |-> a, accepted |-> TRUE]}
        /\ UNCHANGED <<cursor, inflight, mode, reply, saved>>
    BY <1>6 DEF VerifyAccept, MarkProcessed
  <2>2. Taken(a)'
    BY <2>1 DEF Taken, Told
  <2>. QED
    BY <1>3, <2>1, <2>2, EntryHeard
<1>7. CASE VerifyReject(a)
  <2>1. /\ todo' = todo \ {a} /\ processed' = processed \cup {changes[a].seq}
        /\ page' = page \cup {[at |-> a, accepted |-> FALSE]} /\ seen' = Reverified(a)
        /\ UNCHANGED <<changes, cursor, inflight, mode, reply, saved>>
    BY <1>7 DEF VerifyReject, MarkProcessed
  <2>2. Taken(a)'
    <3>1. CASE NamesContext(a)
      <4>1. changes[a].ctx \in Contexts
        BY <1>1, <1>3, ChangeType
      <4>2. seen'[changes[a].ctx] = Len(changes)
        BY <1>1, <2>1, <3>1, <4>1 DEF Reverified, TypeOK
      <4>3. seen'[changes'[a].ctx] >= a
        BY <1>3, <2>1, <4>2 DEF Recorded
      <4>. QED
        BY <4>3 DEF Taken, Heard
    <3>2. CASE ~NamesContext(a)
      BY <2>1, <3>2 DEF Taken, Told, NamesContext
    <3>. QED
      BY <3>1, <3>2
  <2>. QED
    BY <1>3, <2>1, <2>2, EntryHeard
<1>8. CASE FailPage(a)
  BY <1>8 DEF FailPage
<1>. QED
  BY <1>2, <1>4, <1>5, <1>6, <1>7, <1>8

\* At the end of a page everything up to where it leads is accounted for.
LEMMA PageCovers ==
  ASSUME FeedInv, TypeInv', Grows, TakenInv, EndPage
  PROVE  /\ \A a \in Recorded : Taken(a) => Heard(a)'
         /\ cursor' = reply.next /\ Covered(cursor.after)'
<1>1. /\ cursor' = reply.next /\ mode = "page" /\ todo = {} /\ results' = results \cup page
      /\ gaps' = gaps \cup reply.gap /\ UNCHANGED <<changes, seen>>
  BY DEF EndPage, registry
<1>2. \A a \in Recorded : (Needed(a)' <=> Needed(a)) /\ (Heard(a) => Heard(a)')
  BY HeardStays
<1>3. \A a \in Recorded : Taken(a) => Heard(a)'
  BY <1>1, <1>2 DEF Taken, Heard, Told
<1>4. SUFFICES ASSUME NEW a \in Recorded, a <= reply.next.after, Needed(a)
               PROVE  Heard(a)' \/ a \in gaps'
  BY <1>1, <1>2, <1>3 DEF Covered, Recorded
<1>5. a <= reply.since.after \/ a \in reply.gap \/ a \in reply.entries
  BY <1>1, <1>4, PlacesInRange DEF PageSound
<1>6. CASE a <= reply.since.after
  BY <1>1, <1>2, <1>4, <1>6 DEF TakenInv, Covered
<1>7. CASE a \in reply.gap
  BY <1>1, <1>7
<1>8. CASE a \in reply.entries
  BY <1>1, <1>3, <1>4, <1>8 DEF TakenInv
<1>. QED
  BY <1>5, <1>6, <1>7, <1>8

LEMMA EndPageHeard ==
  ASSUME FeedInv, TypeInv', Grows, HeardInv, EndPage
  PROVE  HeardInv'
<1>. USE DEF registry
<1>1. /\ mode = "page" /\ mode' = "idle" /\ cursor' = reply.next
      /\ UNCHANGED <<inflight, processed, saved>>
  BY DEF EndPage
<1>2. \A a \in Recorded : Taken(a) => Taken(a)'
  BY PageCovers DEF HeardInv, Taken
<1>3. DedupInv'
  <2>1. DedupEpoch' = DedupEpoch
    BY <1>1 DEF DedupEpoch
  <2>. QED
    BY <1>1, <1>2, <2>1, DedupStays DEF HeardInv
<1>4. CoveredInv'
  <2>1. \A p \in Nat : p <= Len(changes) /\ Covered(p) => Covered(p)'
    BY HeardStays
  <2>2. Covered(cursor.after)'
    BY PageCovers DEF HeardInv
  <2>3. Covered(saved.after)'
    <3>1. \E p \in Nat : p = saved.after /\ Covered(p)'
      BY <2>1, PlacesInRange DEF HeardInv, CoveredInv, NothingMissed
    <3>. QED
      BY <1>1, <3>1 DEF Covered
  <2>4. \A r \in inflight : Covered(r.since.after)'
    BY <2>1, PlacesInRange DEF HeardInv, CoveredInv
  <2>. QED
    BY <1>1, <2>2, <2>3, <2>4 DEF CoveredInv, NothingMissed
<1>5. TakenInv'
  BY <1>1 DEF TakenInv
<1>. QED
  BY <1>3, <1>4, <1>5 DEF HeardInv

\* A consumer that starts over with an empty dedup set, from a place accounted for.
LEMMA FreshHeard ==
  ASSUME FeedInv, TypeInv', Grows, HeardInv, processed' = {}, mode' # "page",
         saved' = saved, inflight' \subseteq inflight,
         Covered(cursor'.after), cursor'.after \in Nat, cursor'.after <= Len(changes)
  PROVE  HeardInv'
<1>1. \A p \in Nat : p <= Len(changes) /\ Covered(p) => Covered(p)'
  BY HeardStays
<1>2. Covered(cursor.after)'
  <2>1. \E p \in Nat : p = cursor'.after /\ Covered(p)'
    BY <1>1
  <2>. QED
    BY <2>1 DEF Covered
<1>3. Covered(saved.after)'
  <2>1. \E p \in Nat : p = saved.after /\ Covered(p)'
    BY <1>1, PlacesInRange DEF HeardInv, CoveredInv, NothingMissed
  <2>. QED
    BY <2>1 DEF Covered
<1>4. \A r \in inflight : Covered(r.since.after)'
  BY <1>1, PlacesInRange DEF HeardInv, CoveredInv
<1>5. CoveredInv'
  BY <1>2, <1>3, <1>4 DEF CoveredInv, NothingMissed
<1>6. DedupInv' /\ TakenInv'
  BY DEF DedupInv, TakenInv
<1>. QED
  BY <1>5, <1>6 DEF HeardInv

\* At the end of a resync every watched context was re-verified at the head it resumes at.
LEMMA ResyncCovers ==
  ASSUME FeedInv, EndResync
  PROVE  /\ cursor'.after = reply.head /\ cursor'.kind = "head" /\ cursor.after <= reply.head
         /\ reply.head \in Nat /\ reply.head <= Len(changes) /\ Covered(reply.head)
<1>1. mode = "resync" /\ left = {} /\ cursor' = HeadCursor(reply.head)
  BY DEF EndResync
<1>2. reply.head \in Nat /\ Len(changes) \in Nat /\ \A c \in Contexts : seen[c] \in Nat
  BY DEF FeedInv, TypeInv, TypeOK, Reply
<1>3. /\ cursor.after <= reply.head /\ reply.head <= Len(changes)
      /\ \A c \in Watched : seen[c] >= reply.head
  BY <1>1 DEF FeedInv, WorkInv
<1>4. cursor'.after = reply.head /\ cursor'.kind = "head"
  BY <1>1 DEF HeadCursor
<1>5. ASSUME NEW a \in Recorded, a <= reply.head, Needed(a) PROVE Heard(a)
  <2>1. a \in Nat /\ changes[a].ctx \in Watched /\ changes[a].ctx \in Contexts
    BY <1>2, <1>5 DEF Recorded, Needed, Contexts
  <2>2. seen[changes[a].ctx] >= a
    BY <1>2, <1>3, <1>5, <2>1
  <2>. QED
    BY <2>2 DEF Heard
<1>. QED
  BY <1>2, <1>3, <1>4, <1>5 DEF Covered

LEMMA ResyncHeard ==
  ASSUME FeedInv, TypeInv', Grows, HeardInv, (\E r \in inflight : BeginResync(r)) \/ Resync
  PROVE  HeardInv'
<1>1. ASSUME NEW r \in inflight, BeginResync(r) PROVE HeardInv'
  <2>1. /\ mode = "idle" /\ mode' = "resync" /\ inflight' = inflight \ {r}
        /\ UNCHANGED <<cursor, processed, page, saved>>
    BY <1>1 DEF BeginResync
  <2>. QED
    BY <2>1, QuietHeard
<1>2. ASSUME NEW c \in left, ReverifyWatched(c) PROVE HeardInv'
  <2>1. UNCHANGED <<cursor, saved, processed, page, mode, reply, todo, inflight>>
    BY <1>2 DEF ReverifyWatched
  <2>. QED
    BY <2>1, QuietHeard
<1>3. CASE FailResync
  <2>1. /\ mode = "resync" /\ mode' = "idle"
        /\ UNCHANGED <<cursor, saved, processed, page, inflight>>
    BY <1>3 DEF FailResync
  <2>. QED
    BY <2>1, QuietHeard
<1>4. CASE EndResync
  <2>1. processed' = {} /\ mode' = "idle" /\ UNCHANGED <<inflight, saved>>
    BY <1>4 DEF EndResync
  <2>. QED
    BY <1>4, <2>1, ResyncCovers, FreshHeard
<1>. QED
  BY <1>1, <1>2, <1>3, <1>4 DEF Resync

LEMMA RestartHeard ==
  ASSUME FeedInv, TypeInv', Grows, HeardInv, Persist \/ Crash
  PROVE  HeardInv'
<1>1. Covered(cursor.after) /\ Covered(saved.after)
  BY DEF HeardInv, CoveredInv, NothingMissed
<1>2. CASE Persist
  <2>1. /\ saved' = cursor /\ mode = "idle" /\ mode' = mode
        /\ UNCHANGED <<registry, inflight, cursor, processed, page, results, history>>
    BY <1>2 DEF Persist, handling
  <2>2. \A p : Covered(p)' <=> Covered(p)
    BY <2>1 DEF Covered, Recorded, Needed, Heard, Told, registry, history
  <2>3. Covered(cursor.after)' /\ Covered(saved.after)'
    BY <1>1, <2>1, <2>2 DEF Covered
  <2>4. CoveredInv'
    BY <2>1, <2>2, <2>3 DEF CoveredInv, NothingMissed, HeardInv
  <2>5. DedupInv' /\ TakenInv'
    <3>1. DedupEpoch' = DedupEpoch /\ \A a \in Recorded : Taken(a) => Taken(a)'
      BY <2>1 DEF DedupEpoch, Taken, Heard, Told, registry, history
    <3>. QED
      BY <2>1, <3>1, DedupStays DEF HeardInv, TakenInv
  <2>. QED
    BY <2>4, <2>5 DEF HeardInv
<1>3. CASE Crash
  <2>1. processed' = {} /\ mode' = "idle" /\ inflight' = {} /\ cursor' = saved /\ saved' = saved
    BY <1>3 DEF Crash
  <2>. QED
    BY <1>1, <2>1, PlacesInRange, FreshHeard
<1>. QED
  BY <1>2, <1>3

LEMMA InitHeard == Init => HeardInv
<1>1. SUFFICES ASSUME Init PROVE HeardInv
  OBVIOUS
<1>2. Recorded = {} /\ inflight = {} /\ mode = "idle" /\ processed = {}
  BY <1>1 DEF Init, Recorded
<1>. QED
  BY <1>2 DEF HeardInv, DedupInv, CoveredInv, NothingMissed, Covered, TakenInv

LEMMA NextHeard ==
  ASSUME ~PageMayFail, MaxInFlight = 1 \/ MaxEpoch = 1, FeedInv, HeardInv, [Next]_vars
  PROVE  HeardInv'
<1>. USE DEF registry, handling, history
<1>1. TypeInv' /\ Grows
  BY NextFeed
<1>2. CASE Registry
  <2>1. UNCHANGED <<inflight, cursor, saved, processed, page, mode, reply, todo>>
    BY <1>2 DEF Registry, Record, ResetSequence, ExpireCursors
  <2>. QED
    BY <1>1, <2>1, QuietHeard
<1>3. ASSUME NEW limit \in 1..MaxLimit, Pull(limit) PROVE HeardInv'
  <2>1. PICK r \in Answers(cursor, limit) : inflight' = inflight \cup {r}
    BY <1>3 DEF Pull
  <2>2. r.since = cursor
    BY LimitAssumption, AnswersSound DEF FeedInv, TypeInv, TypeOK
  <2>3. UNCHANGED <<cursor, saved, processed, page, mode, reply, todo>>
    BY <1>3 DEF Pull
  <2>. QED
    BY <1>1, <2>1, <2>2, <2>3, QuietHeard
<1>4. ASSUME NEW r \in inflight, RetrySmaller(r) PROVE HeardInv'
  <2>1. PICK s \in Answers(cursor, r.limit \div 2) : inflight' = (inflight \ {r}) \cup {s}
    BY <1>4 DEF RetrySmaller
  <2>2. r.limit \div 2 \in Nat
    BY DEF FeedInv, TypeInv, TypeOK, Reply
  <2>3. s.since = cursor
    BY <2>2, AnswersSound DEF FeedInv, TypeInv, TypeOK
  <2>4. UNCHANGED <<cursor, saved, processed, page, mode, reply, todo>>
    BY <1>4 DEF RetrySmaller
  <2>. QED
    BY <1>1, <2>1, <2>3, <2>4, QuietHeard
<1>5. ASSUME NEW r \in inflight, IgnoreError(r) PROVE HeardInv'
  <2>1. /\ inflight' = inflight \ {r}
        /\ UNCHANGED <<cursor, saved, processed, page, mode, reply, todo>>
    BY <1>5 DEF IgnoreError
  <2>. QED
    BY <1>1, <2>1, QuietHeard
<1>6. CASE PullRefused
  <2>1. /\ inflight' = inflight \cup {ErrorReply(cursor, "rate_limited")}
        /\ UNCHANGED <<cursor, saved, processed, page, mode, reply, todo>>
    BY <1>6 DEF PullRefused
  <2>2. ErrorReply(cursor, "rate_limited").since = cursor
    BY DEF ErrorReply
  <2>. QED
    BY <1>1, <2>1, <2>2, QuietHeard
<1>7. CASE LoseReply \/ UNCHANGED vars
  <2>1. /\ inflight' \subseteq inflight
        /\ UNCHANGED <<cursor, saved, processed, page, mode, reply, todo>>
    BY <1>7 DEF LoseReply, vars
  <2>. QED
    BY <1>1, <2>1, QuietHeard
<1>8. ASSUME NEW r \in inflight, BeginPage(r) PROVE HeardInv'
  BY <1>1, <1>8, BeginPageHeard
<1>9. CASE PageStep \/ EndPage
  BY <1>1, <1>9, PageHeard, EndPageHeard
<1>10. CASE (\E r \in inflight : BeginResync(r)) \/ Resync
  BY <1>1, <1>10, ResyncHeard
<1>11. CASE Persist \/ Crash
  BY <1>1, <1>11, RestartHeard
<1>. QED
  BY <1>2, <1>3, <1>4, <1>5, <1>6, <1>7, <1>8, <1>9, <1>10, <1>11 DEF Next, Consumer, Receive

LEMMA HeardAlways ==
  ASSUME ~PageMayFail, MaxInFlight = 1 \/ MaxEpoch = 1
  PROVE  Spec => [](FeedInv /\ HeardInv)
<1>1. FeedInv /\ HeardInv /\ [Next]_vars => FeedInv' /\ HeardInv'
  BY NextFeed, NextHeard
<1>. QED
  BY <1>1, InitFeed, InitHeard, PTL DEF Spec

\* Nothing that concerns a watched context is ever passed over unheard, whatever resets,
\* expiries, lost answers, oversized pages, crashes and restarts from a persisted cursor
\* happen: for a caller whose callbacks do not raise and that waits for each answer, or
\* whose pulls overlap while the registry does not reset its sequence.
THEOREM NoChangeIsMissed ==
  ASSUME ~PageMayFail, MaxInFlight = 1 \/ MaxEpoch = 1
  PROVE  Spec => []NothingMissed
<1>1. HeardInv => NothingMissed
  BY DEF HeardInv, CoveredInv
<1>. QED
  BY <1>1, HeardAlways, PTL

\* Under the same conditions an entry passed over as already processed is a change whose
\* outcome is known.
THEOREM SkippedWasTaken ==
  ASSUME ~PageMayFail, MaxInFlight = 1 \/ MaxEpoch = 1
  PROVE  Spec => []DedupIsSound
<1>1. ASSUME FeedInv, HeardInv, mode = "page", NEW a \in todo, IsProcessed(a), Needed(a)
      PROVE  Heard(a) \/ Told(page, a)
  BY <1>1, ProcessedIsTaken DEF HeardInv, Taken
<1>2. FeedInv /\ HeardInv => DedupIsSound
  BY <1>1 DEF DedupIsSound
<1>. QED
  BY <1>2, HeardAlways, PTL

\* Under the same conditions the consumer that claims to be at the head has been told
\* of everything recorded by the time the page was served.
THEOREM HeadIsCaughtUp ==
  ASSUME ~PageMayFail, MaxInFlight = 1 \/ MaxEpoch = 1
  PROVE  Spec => CaughtUpAtHead
<1>1. ASSUME FeedInv, HeardInv, [Next]_vars
      PROVE  [mode = "page" /\ mode' = "idle" /\ atHead' =>
       \A a \in Recorded : a <= reply.head /\ Needed(a) => Heard(a)' \/ a \in gaps']_vars
  <2>1. SUFFICES ASSUME Next, mode = "page", mode' = "idle", atHead',
                        NEW a \in Recorded, a <= reply.head, Needed(a)
                 PROVE  Heard(a)' \/ a \in gaps'
    BY <1>1
  <2>2. CASE EndPage
    <3>1. ~reply.more /\ PageSound(reply)
      BY <2>1, <2>2, <1>1, PlacesInRange DEF EndPage
    <3>2. reply.next.after = reply.head
      BY <3>1 DEF PageSound
    <3>3. TypeInv' /\ Grows /\ UNCHANGED changes
      BY <1>1, <2>2, NextFeed DEF EndPage, registry
    <3>4. cursor'.after = reply.head /\ Covered(cursor.after)'
      BY <1>1, <2>2, <3>2, <3>3, PageCovers DEF HeardInv
    <3>. QED
      BY <2>1, <3>3, <3>4 DEF Covered, Recorded, Needed
  <2>3. CASE Crash
    BY <2>1, <2>3 DEF Crash
  <2>4. ASSUME ~EndPage, ~Crash PROVE FALSE
    <3>1. ASSUME NEW b \in todo, FailPage(b) PROVE FALSE
      BY <3>1 DEF FailPage
    <3>. QED
      BY <2>1, <2>4, <3>1
         DEF Next, Registry, Consumer, Receive, PageStep, Resync, Record, ResetSequence,
             ExpireCursors, Pull, PullRefused, LoseReply, RetrySmaller, BeginPage,
             SkipProcessed, SkipNeighbour, VerifyAccept, VerifyReject, IgnoreError,
             BeginResync, ReverifyWatched, FailResync, EndResync, Persist, handling
  <2>. QED
    BY <2>2, <2>3, <2>4
<1>2. HeardInv => NothingMissed
  BY DEF HeardInv, CoveredInv
<1>. QED
  BY <1>1, <1>2, HeardAlways, PTL DEF Spec, CaughtUpAtHead, HeadMeansCaughtUp

-----------------------------------------------------------------------------
(* No change is verified twice                                             *)

\* A change whose calls the callback did not all undo is recorded and its seq remembered.
CheckedWell(counts, known, last, a) ==
  /\ counts.calls <= 1 + counts.raised
  /\ counts.calls > counts.raised => a \in 1..last /\ changes[a].seq \in known
CheckedInv == \A a \in DOMAIN checks : CheckedWell(checks[a], processed, Len(changes), a)

LEMMA NextChecked ==
  ASSUME TypeInv, Grows, CheckedInv, [Next]_vars
  PROVE  CheckedInv'
<1>. USE DEF registry, handling, history
<1>1. /\ checks \in [1..MaxChanges -> Checks] /\ todo \subseteq Recorded
      /\ \A a \in 1..MaxChanges : checks[a].calls \in Nat /\ checks[a].raised \in Nat
  BY DEF TypeInv, TypeOK, Checks
<1>2. \A a \in Recorded : a \in Recorded' /\ changes'[a] = changes[a]
  BY DEF Grows
<1>3. ASSUME NEW b \in 1..MaxChanges, checks'[b] = checks[b], processed \subseteq processed'
      PROVE  CheckedWell(checks[b], processed, Len(changes), b)'
  BY <1>1, <1>2, <1>3 DEF CheckedInv, CheckedWell, Recorded
<1>4. ASSUME checks' = checks, processed \subseteq processed' PROVE CheckedInv'
  BY <1>1, <1>3, <1>4 DEF CheckedInv
<1>5. ASSUME checks' = [a \in DOMAIN checks |-> Unchecked] PROVE CheckedInv'
  BY <1>1, <1>5 DEF CheckedInv, CheckedWell, Unchecked
<1>6. CASE PageStep
  <2>1. PICK a \in todo : \/ SkipProcessed(a) \/ SkipNeighbour(a)
                          \/ VerifyAccept(a) \/ VerifyReject(a) \/ FailPage(a)
    BY <1>6 DEF PageStep
  <2>2. ~IsProcessed(a) /\ a \in 1..MaxChanges => checks[a].calls <= checks[a].raised
    BY <1>1 DEF CheckedInv, CheckedWell, IsProcessed
  <2>3. CASE VerifyAccept(a) \/ VerifyReject(a)
    <3>1. /\ ~IsProcessed(a) /\ checks' = [checks EXCEPT ![a].calls = @ + 1]
          /\ processed' = processed \cup {changes[a].seq}
      BY <2>3 DEF VerifyAccept, VerifyReject, MarkProcessed
    <3>2. SUFFICES ASSUME NEW b \in 1..MaxChanges
                   PROVE  CheckedWell(checks[b], processed, Len(changes), b)'
      BY <1>1, <3>1 DEF CheckedInv
    <3>3. CASE b = a
      <4>1. checks'[b].calls = checks[a].calls + 1 /\ checks'[b].raised = checks[a].raised
        BY <1>1, <3>1, <3>3 DEF Checks
      <4>2. checks[a].calls <= checks[a].raised /\ checks[a].calls \in Nat /\ checks[a].raised \in Nat
        BY <1>1, <2>2, <3>1, <3>3
      <4>3. checks'[b].calls <= 1 + checks'[b].raised
        BY <4>1, <4>2
      <4>4. b \in Recorded' /\ changes'[b].seq \in processed'
        BY <1>1, <1>2, <3>1, <3>3
      <4>. QED
        BY <4>3, <4>4 DEF CheckedWell, Recorded
    <3>4. CASE b # a
      <4>1. checks'[b] = checks[b]
        BY <1>1, <3>1, <3>4
      <4>. QED
        BY <1>3, <3>1, <4>1
    <3>. QED
      BY <3>3, <3>4
  <2>4. CASE FailPage(a) /\ ReverifyRaises(a)
    <3>1. /\ ~IsProcessed(a) /\ processed' = processed
          /\ checks' = [checks EXCEPT ![a] = [calls |-> @.calls + 1, raised |-> @.raised + 1]]
      BY <2>4 DEF FailPage, ReverifyRaises
    <3>2. SUFFICES ASSUME NEW b \in 1..MaxChanges
                   PROVE  CheckedWell(checks[b], processed, Len(changes), b)'
      BY <1>1, <3>1 DEF CheckedInv
    <3>3. CASE b = a
      <4>1. checks'[b] = [calls |-> checks[a].calls + 1, raised |-> checks[a].raised + 1]
        BY <1>1, <3>1, <3>3
      <4>2. checks[a].calls <= checks[a].raised /\ checks[a].calls \in Nat /\ checks[a].raised \in Nat
        BY <1>1, <2>2, <3>1, <3>3
      <4>. QED
        BY <4>1, <4>2 DEF CheckedWell
    <3>4. CASE b # a
      <4>1. checks'[b] = checks[b]
        BY <1>1, <3>1, <3>4
      <4>. QED
        BY <1>3, <3>1, <4>1
    <3>. QED
      BY <3>3, <3>4
  <2>5. CASE SkipProcessed(a) \/ SkipNeighbour(a) \/ (FailPage(a) /\ EvidenceRaises)
    BY <1>4, <2>5 DEF SkipProcessed, SkipNeighbour, FailPage, MarkProcessed, EvidenceRaises
  <2>. QED
    BY <2>1, <2>3, <2>4, <2>5 DEF FailPage
<1>7. CASE EndResync \/ Crash
  BY <1>5, <1>7 DEF EndResync, Crash
<1>8. CASE Registry
  BY <1>4, <1>8 DEF Registry, Record, ResetSequence, ExpireCursors
<1>9. CASE Receive
  <2>1. ASSUME NEW r \in inflight,
               RetrySmaller(r) \/ BeginPage(r) \/ IgnoreError(r) \/ BeginResync(r)
        PROVE  UNCHANGED <<checks, processed>>
    BY <2>1 DEF RetrySmaller, BeginPage, IgnoreError, BeginResync
  <2>. QED
    BY <1>4, <1>9, <2>1 DEF Receive
<1>10. CASE (\E limit \in 1..MaxLimit : Pull(limit)) \/ PullRefused \/ LoseReply
  BY <1>4, <1>10 DEF Pull, PullRefused, LoseReply
<1>11. CASE EndPage \/ Persist \/ UNCHANGED vars
  BY <1>4, <1>11 DEF EndPage, Persist, vars
<1>12. CASE (\E c \in left : ReverifyWatched(c)) \/ FailResync
  BY <1>4, <1>12 DEF ReverifyWatched, FailResync
<1>. QED
  BY <1>6, <1>7, <1>8, <1>9, <1>10, <1>11, <1>12 DEF Next, Consumer, Resync

\* Between two resyncs a change is verified once, and once more for each time that
\* re-verifying its context raised, with overlapping pulls too.
THEOREM NoneVerifiedTwice == Spec => []VerifiedOnce
<1>1. Init => CheckedInv
  <2>1. ASSUME Init PROVE CheckedInv
    BY <2>1 DEF Init, CheckedInv, CheckedWell, Unchecked
  <2>. QED
    BY <2>1
<1>2. FeedInv /\ CheckedInv /\ [Next]_vars => CheckedInv'
  BY NextFeed, NextChecked DEF FeedInv
<1>3. CheckedInv => VerifiedOnce
  BY DEF CheckedInv, CheckedWell, VerifiedOnce
<1>. QED
  BY <1>1, <1>2, <1>3, FeedAlways, PTL DEF Spec

-----------------------------------------------------------------------------
(* The contract is kept                                                    *)

\* The caller is told only of changes that were recorded.
ToldInv == \A x \in results \cup page : x.at \in Recorded

LEMMA NextTold ==
  ASSUME TypeInv, Grows, ToldInv, [Next]_vars
  PROVE  ToldInv'
<1>. USE DEF registry, handling, history
<1>1. Recorded \subseteq Recorded' /\ todo \subseteq Recorded
  BY DEF TypeInv, TypeOK, Grows
<1>2. ASSUME results' \subseteq results \cup page, page' \subseteq page PROVE ToldInv'
  BY <1>1, <1>2 DEF ToldInv
<1>3. CASE PageStep
  <2>1. PICK a \in todo : \/ SkipProcessed(a) \/ SkipNeighbour(a)
                          \/ VerifyAccept(a) \/ VerifyReject(a) \/ FailPage(a)
    BY <1>3 DEF PageStep
  <2>2. CASE VerifyAccept(a) \/ VerifyReject(a)
    <3>1. PICK ok \in BOOLEAN : page' = page \cup {[at |-> a, accepted |-> ok]}
      BY <2>2 DEF VerifyAccept, VerifyReject
    <3>2. results' = results
      BY <2>2 DEF VerifyAccept, VerifyReject
    <3>. QED
      BY <1>1, <3>1, <3>2 DEF ToldInv
  <2>3. CASE SkipProcessed(a) \/ SkipNeighbour(a) \/ FailPage(a)
    BY <1>2, <2>3 DEF SkipProcessed, SkipNeighbour, FailPage
  <2>. QED
    BY <2>1, <2>2, <2>3
<1>4. CASE Registry
  BY <1>2, <1>4 DEF Registry, Record, ResetSequence, ExpireCursors
<1>5. CASE Receive
  <2>1. ASSUME NEW r \in inflight,
               RetrySmaller(r) \/ BeginPage(r) \/ IgnoreError(r) \/ BeginResync(r)
        PROVE  results' = results /\ page' \subseteq page
    BY <2>1 DEF RetrySmaller, BeginPage, IgnoreError, BeginResync
  <2>. QED
    BY <1>2, <1>5, <2>1 DEF Receive
<1>6. CASE (\E limit \in 1..MaxLimit : Pull(limit)) \/ PullRefused \/ LoseReply
  BY <1>2, <1>6 DEF Pull, PullRefused, LoseReply
<1>7. CASE EndPage \/ Persist \/ Crash \/ UNCHANGED vars
  BY <1>2, <1>7 DEF EndPage, Persist, Crash, vars
<1>8. CASE Resync
  BY <1>2, <1>8 DEF Resync, ReverifyWatched, FailResync, EndResync
<1>. QED
  BY <1>3, <1>4, <1>5, <1>6, <1>7, <1>8 DEF Next, Consumer

\* What the contract speaks of.
NeededChanges == {a \in Recorded : Needed(a)}
KnownChanges == {a \in Recorded : Heard(a)}

LEMMA ContractNext ==
  ASSUME MaxInFlight = 1, FeedInv, FeedInv', HeardInv, HeardInv', Grows, ToldInv, [Next]_vars
  PROVE  [Contract!Next]_(Contract!contract)
<1>. USE DEF registry, handling, history, NeededChanges, KnownChanges
<1>1. /\ \A a \in Recorded : /\ a \in Recorded' /\ changes'[a] = changes[a]
                             /\ Needed(a)' <=> Needed(a)
                             /\ Heard(a) => Heard(a)'
      /\ TypeInv /\ TypeInv'
  BY HeardStays DEF FeedInv
<1>2. KnownChanges \subseteq KnownChanges' /\ NeededChanges \subseteq NeededChanges'
  BY <1>1
<1>3. changes' = changes => NeededChanges' = NeededChanges
  BY DEF Recorded, Needed
<1>4. UNCHANGED <<changes, seen, results>> => KnownChanges' = KnownChanges
  BY DEF Recorded, Heard, Told
<1>5. \A p \in Nat : Covered(p) => \A a \in NeededChanges : a <= p =>
                                      a \in KnownChanges \/ a \in gaps
  BY DEF Covered
<1>6. /\ cursor.after \in Nat /\ cursor.after <= Len(changes) /\ Covered(cursor.after)
      /\ saved.after \in Nat /\ saved.after <= Len(changes) /\ Covered(saved.after)
  BY PlacesInRange DEF HeardInv, CoveredInv, NothingMissed
<1>7. CASE UNCHANGED <<changes, cursor, gaps>>
  <2>1. Contract!Learn
    BY <1>2, <1>3, <1>7 DEF Contract!Learn
  <2>. QED
    BY <2>1 DEF Contract!Next
<1>8. ASSUME NEW c \in Contexts, NEW f \in Forms, Record(c, f) PROVE Contract!Record
  <2>1. /\ Recorded' = Recorded \cup {Len(changes) + 1} /\ Len(changes) \in Nat
        /\ UNCHANGED <<cursor, gaps, seen, results>>
    BY <1>1, <1>8, RecordAppends
  <2>2. \A a \in NeededChanges' \ NeededChanges : a = Len(changes) + 1
    BY <1>1, <2>1
  <2>3. \A a \in NeededChanges' \ NeededChanges : a \in Nat /\ a > cursor.after
    BY <1>6, <2>1, <2>2
  <2>4. \A a \in Recorded : Heard(a)' <=> Heard(a)
    BY <1>1, <2>1 DEF Heard, Told
  <2>5. PICK last \in Nat : last = Len(changes) + 1
    BY <2>1
  <2>6. ~Heard(last)'
    <3>1. last \notin Recorded /\ changes'[last].ctx \in Contexts
      <4>1. last \notin Recorded
        BY <2>1, <2>5 DEF Recorded
      <4>2. changes'[last] = Recording(c, f)
        BY <1>1, <1>8, <2>5, RecordAppends
      <4>. QED
        BY <4>1, <4>2 DEF Recording
    <3>2. ~(seen[changes'[last].ctx] >= last)
      BY <1>1, <2>1, <2>5, <3>1 DEF FeedInv, SeenInv, TypeInv, TypeOK
    <3>3. \A ok \in BOOLEAN : [at |-> last, accepted |-> ok] \notin results
      BY <3>1 DEF ToldInv
    <3>. QED
      BY <2>1, <3>2, <3>3 DEF Heard, Told
  <2>7. KnownChanges' = KnownChanges
    <3>1. \A a \in Recorded' : Heard(a)' => a \in Recorded
      BY <2>1, <2>5, <2>6
    <3>. QED
      BY <1>1, <2>4, <3>1
  <2>. QED
    BY <1>2, <2>1, <2>3, <2>7 DEF Contract!Record
<1>9. CASE EndPage
  <2>1. /\ mode = "page" /\ cursor' = reply.next /\ gaps' = gaps \cup reply.gap
        /\ UNCHANGED <<changes, seen>>
    BY <1>9 DEF EndPage
  <2>2. reply.since = cursor /\ PageSound(reply) /\ reply.next \in Cursor
    BY <1>1, <2>1, PlacesInRange DEF FeedInv, WaitingInv, TypeInv, TypeOK, Reply
  <2>3. /\ cursor'.after \in Nat /\ cursor'.after >= cursor.after /\ cursor'.kind = "at"
        /\ cursor.kind = "at" => gaps' = gaps
    BY <2>1, <2>2, <1>6 DEF PageSound, Cursor
  <2>4. \A a \in gaps' \ gaps : cursor.after < a /\ a <= cursor'.after
    BY <2>1, <2>2 DEF PageSound
  <2>5. Covered(cursor.after)'
    BY DEF HeardInv, CoveredInv, NothingMissed
  <2>6. \A a \in NeededChanges' : a <= cursor'.after => a \in KnownChanges' \/ a \in gaps'
    BY <2>5 DEF Covered
  <2>7. gaps \subseteq gaps'
    BY <2>1
  <2>8. CASE cursor.kind = "at"
    <3>1. Contract!Advance
      BY <1>2, <1>3, <2>1, <2>3, <2>6, <2>8 DEF Contract!Advance, Contract!Accounted
    <3>. QED
      BY <3>1 DEF Contract!Next
  <2>9. CASE cursor.kind # "at"
    <3>1. Contract!Join
      BY <1>2, <1>3, <2>1, <2>3, <2>4, <2>6, <2>7, <2>9 DEF Contract!Join, Contract!Accounted
    <3>. QED
      BY <3>1 DEF Contract!Next
  <2>. QED
    BY <2>8, <2>9
<1>10. CASE EndResync
  <2>1. UNCHANGED <<changes, seen, results, gaps>>
    BY <1>10 DEF EndResync
  <2>2. /\ cursor'.after = reply.head /\ cursor'.kind = "head" /\ cursor.after <= reply.head
        /\ reply.head \in Nat /\ Covered(reply.head)
    BY <1>10, ResyncCovers
  <2>3. Contract!Leave
    BY <1>3, <1>4, <1>5, <1>6, <2>1, <2>2 DEF Contract!Leave, Contract!Accounted
  <2>. QED
    BY <2>3 DEF Contract!Next
<1>11. CASE Crash
  <2>1. cursor' = saved /\ UNCHANGED <<changes, seen, results, gaps>>
    BY <1>11 DEF Crash
  <2>2. saved.after <= cursor.after
    BY DEF FeedInv, WaitingInv
  <2>3. Contract!FallBack
    BY <1>3, <1>4, <1>5, <1>6, <2>1, <2>2 DEF Contract!FallBack, Contract!Accounted
  <2>. QED
    BY <2>3 DEF Contract!Next
<1>12. CASE ResetSequence \/ ExpireCursors
  BY <1>7, <1>12 DEF ResetSequence, ExpireCursors
<1>13. CASE PageStep
  <2>1. ASSUME NEW a \in todo,
               \/ SkipProcessed(a) \/ SkipNeighbour(a)
               \/ VerifyAccept(a) \/ VerifyReject(a) \/ FailPage(a)
        PROVE  UNCHANGED <<changes, cursor, gaps>>
    BY <2>1 DEF SkipProcessed, SkipNeighbour, VerifyAccept, VerifyReject, FailPage
  <2>. QED
    BY <1>7, <1>13, <2>1 DEF PageStep
<1>14. CASE Receive
  <2>1. ASSUME NEW r \in inflight,
               RetrySmaller(r) \/ BeginPage(r) \/ IgnoreError(r) \/ BeginResync(r)
        PROVE  UNCHANGED <<changes, cursor, gaps>>
    BY <2>1 DEF RetrySmaller, BeginPage, IgnoreError, BeginResync
  <2>. QED
    BY <1>7, <1>14, <2>1 DEF Receive
<1>15. CASE \/ \E limit \in 1..MaxLimit : Pull(limit)
            \/ PullRefused \/ LoseReply \/ Persist \/ UNCHANGED vars
  BY <1>7, <1>15 DEF Pull, PullRefused, LoseReply, Persist, vars
<1>16. CASE (\E c \in left : ReverifyWatched(c)) \/ FailResync
  BY <1>7, <1>16 DEF ReverifyWatched, FailResync
<1>. QED
  BY <1>8, <1>9, <1>10, <1>11, <1>12, <1>13, <1>14, <1>15, <1>16
     DEF Next, Registry, Consumer, Resync, Contract!Next

\* The consumer implements RecallContract: pages, cursors, dedup, resyncs and restarts
\* come down to learning outcomes, moving on over what is known, and jumping only where
\* it joins, for a caller that waits for each answer and whose callbacks do not raise.
THEOREM ConsumerKeepsContract ==
  ASSUME ~PageMayFail, MaxInFlight = 1
  PROVE  Spec => KeepsContract
<1>1. Init => ToldInv /\ Contract!Init
  <2>1. SUFFICES ASSUME Init PROVE ToldInv /\ Contract!Init
    OBVIOUS
  <2>2. Recorded = {} /\ results = {} /\ page = {} /\ gaps = {} /\ cursor = NoCursor
    BY <2>1 DEF Init, Recorded
  <2>3. NoCursor.after = 0 /\ NoCursor.kind # "at"
    BY DEF NoCursor
  <2>. QED
    BY <2>2, <2>3 DEF ToldInv, Contract!Init
<1>2. FeedInv /\ ToldInv /\ [Next]_vars => ToldInv'
  BY NextFeed, NextTold DEF FeedInv
<1>3. /\ FeedInv /\ HeardInv /\ ToldInv /\ [Next]_vars /\ FeedInv' /\ HeardInv'
      => [Contract!Next]_(Contract!contract)
  BY NextFeed, ContractNext
<1>4. Spec => [](FeedInv /\ HeardInv)
  BY HeardAlways
<1>. QED
  BY <1>1, <1>2, <1>3, <1>4, PTL DEF Spec, KeepsContract, Contract!Spec
=============================================================================
