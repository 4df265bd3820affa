--------------------------- MODULE NodePassProofs ---------------------------
(***************************************************************************)
(* Proofs about LifecyclePass, NodePass and ChainDrift.  What every pass   *)
(* says of a retraction is well typed, an as-of reading is final, and the  *)
(* latest pass admits all that the as-of pass of the moment admits.  An    *)
(* as-of node is final, a refusal holds in every later pass, who does not  *)
(* speak for the producer changes nothing, and what drifts came after T.   *)
(***************************************************************************)
EXTENDS ChainDrift, FixedOrderProofs, FiniteSetTheorems

-----------------------------------------------------------------------------
(* Numbers *)

\* A bounded set of naturals that is not empty has a greatest element.
LEMMA GreatestNatural ==
  ASSUME NEW n \in Nat, NEW S \in SUBSET Nat, S # {}, \A k \in S : k <= n
  PROVE  \E m \in S : \A k \in S : k <= m
<1>. DEFINE T == {j \in Nat : \E k \in S : j = n - k}
<1>1. T \in SUBSET Nat /\ T # {}
  <2>1. PICK k \in S : k <= n
    OBVIOUS
  <2>2. n - k \in Nat
    BY <2>1
  <2>. QED
    BY <2>1, <2>2
<1>2. PICK j \in T : \A i \in T : j <= i
  BY <1>1, LeastNumber
<1>3. PICK m \in S : j = n - m
  OBVIOUS
<1>4. ASSUME NEW k \in S PROVE k <= m
  <2>1. k \in Nat /\ m \in Nat /\ k <= n
    OBVIOUS
  <2>2. n - k \in T
    BY <2>1
  <2>3. n - m <= n - k
    BY <1>2, <1>3, <2>2
  <2>. QED
    BY <2>1, <2>3
<1>. QED
  BY <1>4

\* The indices up to which all are in A are 1..n, for n how many there are.
LEMMA PrefixIsInterval ==
  ASSUME NEW N \in Nat, NEW A,
         NEW C \in SUBSET (1..N), \A i \in 1..N : i \in C <=> 1..i \subseteq A
  PROVE  Cardinality(C) \in 0..N /\ C = 1..Cardinality(C)
<1>. DEFINE n == Cardinality(C)
<1>1. IsFiniteSet(1..N) /\ Cardinality(1..N) = N
  BY FS_Interval
<1>3. IsFiniteSet(C) /\ Cardinality(C) <= N
  BY <1>1, FS_Subset
<1>4. Cardinality(C) \in Nat
  BY <1>3, FS_CardinalityType
<1>5. n \in 0..N
  BY <1>3, <1>4
<1>. HIDE DEF n
<1>6. 1..n \subseteq C
  <2>. SUFFICES ASSUME NEW k \in 1..n, k \notin C PROVE FALSE
    OBVIOUS
  <2>1. k \in Nat /\ 1 <= k /\ k <= n /\ k <= N
    BY <1>5
  <2>2. ASSUME NEW c \in C PROVE c \in 1..(k - 1)
    <3>1. c \in 1..N /\ 1..c \subseteq A
      OBVIOUS
    <3>2. ~(k <= c)
      <4>. SUFFICES ASSUME k <= c PROVE FALSE
        OBVIOUS
      <4>1. 1..k \subseteq 1..c
        BY <2>1, <3>1
      <4>. QED
        BY <2>1, <3>1, <4>1
    <3>. QED
      BY <2>1, <3>1, <3>2
  <2>3. IsFiniteSet(1..(k - 1)) /\ Cardinality(1..(k - 1)) = k - 1
    <3>1. k - 1 \in Int /\ (1 > k - 1 => k - 1 = 0) /\ (k - 1) - 1 + 1 = k - 1
      BY <2>1
    <3>. QED
      BY <3>1, FS_Interval
  <2>4. C \in SUBSET (1..(k - 1))
    BY <2>2
  <2>5. Cardinality(C) <= Cardinality(1..(k - 1))
    BY <2>3, <2>4, FS_Subset
  <2>. QED
    BY <2>1, <2>3, <2>5, <1>4 DEF n
<1>7. IsFiniteSet(1..n) /\ Cardinality(1..n) = n
  <2>1. n \in Int /\ (1 > n => n = 0) /\ n - 1 + 1 = n
    BY <1>5
  <2>. QED
    BY <2>1, FS_Interval
<1>8. C = 1..n
  BY <1>3, <1>6, <1>7, FS_Subset DEF n
<1>. QED
  BY <1>5, <1>8 DEF n

-----------------------------------------------------------------------------
(* What always holds of the world *)

TypeInv ==
  /\ now \in Nat /\ Created <= now /\ lag \in Nat /\ lag <= now
  /\ docs \in [Actors -> Document(Nat)]
  /\ bundle \in [events : Seq(Event), archive : [Actors -> Seq(Snapshot(Nat))]]
  /\ \A actor \in Actors : /\ docs[actor] \in Document(Keys[actor])
                            /\ bundle.archive[actor] \in Seq(Snapshot(Keys[actor]))

\* Events come in the order in which they were accepted, from Created up to now.
EventsInOrder(s) ==
  /\ \A i \in DOMAIN s : Created <= s[i].when /\ s[i].when <= now
  /\ \A i, j \in DOMAIN s : i <= j => s[i].when <= s[j].when

\* Snapshots come in the order in which they were observed, and up to now.
InOrder(s) ==
  /\ \A i \in DOMAIN s : s[i].at <= now
  /\ \A i, j \in DOMAIN s : i <= j => s[i].at <= s[j].at

\* As long as the clock was never set back, a receipt bears the time of acceptance.
ReceiptsKeepTime(s) ==
  \A i \in DOMAIN s : s[i].receipt = NoReceipt \/ s[i].receipt.at = s[i].when

\* Who signs nothing is the registry.
SignedOrOwn(s) == \A i \in DOMAIN s : s[i].key = NoKey => s[i].actor = "registry"

\* A document's current key is its latest, and only grows; a key that is gone from a
\* document does not come back.
KeysGrow(s, doc, first) ==
  /\ doc.current \in doc.methods
  /\ \A k \in doc.methods : k <= doc.current
  /\ \A i \in DOMAIN s : s[i].doc.current \in s[i].doc.methods /\ s[i].doc.current <= doc.current
  /\ \A i \in DOMAIN s : \A k \in s[i].doc.methods : k <= doc.current
  /\ \A i, j \in DOMAIN s : i < j => s[i].doc.current <= s[j].doc.current
  /\ \A i, j \in DOMAIN s : i < j => s[i].doc.methods \cap doc.methods \subseteq s[j].doc.methods
  /\ first \in doc.methods => \A i \in DOMAIN s : first \in s[i].doc.methods

WorldInv ==
  /\ TypeInv
  /\ EventsInOrder(bundle.events)
  /\ SignedOrOwn(bundle.events)
  /\ \A actor \in Actors : InOrder(bundle.archive[actor])
  /\ lag = 0 => ReceiptsKeepTime(bundle.events)
  /\ \A actor \in Actors : KeysGrow(bundle.archive[actor], docs[actor], First(actor))

-----------------------------------------------------------------------------
(* The world keeps it *)

\* The first key is the least of an actor's keys.
LEMMA FirstKey ==
  ASSUME NEW actor \in Actors
  PROVE  /\ First(actor) \in Keys[actor] /\ First(actor) \in Nat \ {NoKey}
         /\ \A k \in Keys[actor] : First(actor) <= k
<1>1. Keys[actor] \in SUBSET Nat /\ Keys[actor] # {} /\ NoKey \notin Keys[actor]
  BY KeysAssumption
<1>2. \E k \in Keys[actor] : \A j \in Keys[actor] : k <= j
  BY <1>1, LeastNumber
<1>. QED
  BY <1>1, <1>2 DEF First

LEMMA WorldInit == Init => WorldInv
<1>. SUFFICES ASSUME Init PROVE WorldInv
  OBVIOUS
<1>. USE DEF Init
<1>1. \A actor \in Actors : docs[actor] \in Document(Keys[actor]) /\ docs[actor] \in Document(Nat)
  BY FirstKey DEF Document
<1>2. TypeInv
  BY <1>1 DEF TypeInv, Created
<1>3. \A actor \in Actors : KeysGrow(bundle.archive[actor], docs[actor], First(actor))
  BY FirstKey DEF KeysGrow
<1>. QED
  BY <1>2, <1>3 DEF WorldInv, EventsInOrder, InOrder, ReceiptsKeepTime, SignedOrOwn

\* The members of the bundle have their types.
LEMMA Members ==
  ASSUME WorldInv
  PROVE  /\ \A i \in DOMAIN bundle.events : bundle.events[i] \in Event
         /\ \A actor \in Actors : \A i \in DOMAIN bundle.archive[actor] :
              bundle.archive[actor][i] \in Snapshot(Keys[actor])
<1>1. bundle.events \in Seq(Event)
  BY DEF WorldInv, TypeInv
<1>2. \A actor \in Actors : bundle.archive[actor] \in Seq(Snapshot(Keys[actor]))
  BY DEF WorldInv, TypeInv
<1>. QED
  BY <1>1, <1>2

\* Time passes, and the clock that was set back stays behind.
LEMMA TickWorld ==
  ASSUME WorldInv, NEW slip \in Slips, Tick(slip)
  PROVE  WorldInv'
<1>. USE DEF Tick
<1>1. slip \in Nat /\ now \in Nat /\ lag \in Nat
  BY SlipsAssumption DEF WorldInv, TypeInv
<1>2. TypeInv'
  BY <1>1 DEF WorldInv, TypeInv, Created
<1>3. EventsInOrder(bundle.events)'
  <2>1. \A i \in DOMAIN bundle.events : bundle.events[i].when \in Nat
    BY Members DEF Event
  <2>. QED
    BY <1>1, <2>1 DEF WorldInv, EventsInOrder
<1>4. \A actor \in Actors : InOrder(bundle.archive[actor])'
  <2>1. \A actor \in Actors : \A i \in DOMAIN bundle.archive[actor] : bundle.archive[actor][i].at \in Nat
    BY Members DEF Snapshot
  <2>. QED
    BY <1>1, <2>1 DEF WorldInv, InOrder
<1>5. (lag = 0 => ReceiptsKeepTime(bundle.events))'
  <2>1. lag' = 0 => lag = 0
    BY <1>1
  <2>. QED
    BY <2>1 DEF WorldInv, ReceiptsKeepTime
<1>6. \A actor \in Actors : KeysGrow(bundle.archive[actor], docs[actor], First(actor))'
  BY DEF WorldInv, KeysGrow, First
<1>. QED
  BY <1>2, <1>3, <1>4, <1>5, <1>6 DEF WorldInv, SignedOrOwn

\* A new key is later than all keys so far.
LEMMA RotateWorld ==
  ASSUME WorldInv, NEW actor \in Actors, NEW k \in Keys[actor], NEW keeps \in BOOLEAN,
         Rotate(actor, k, keeps)
  PROVE  WorldInv'
<1>. DEFINE new == [current |-> k, methods |-> {k} \cup IF keeps THEN docs[actor].methods ELSE {}]
<1>1. docs' = [docs EXCEPT ![actor] = new] /\ now' = now /\ lag' = lag /\ bundle' = bundle
  BY DEF Rotate
<1>2. docs[actor] \in Document(Keys[actor]) /\ docs[actor] \in Document(Nat)
  BY DEF WorldInv, TypeInv
<1>3. new \in Document(Keys[actor]) /\ new \in Document(Nat)
  BY <1>2, KeysAssumption DEF Document
<1>4. TypeInv'
  BY <1>1, <1>3 DEF WorldInv, TypeInv
<1>5. ASSUME NEW a \in Actors PROVE KeysGrow(bundle.archive[a], docs[a], First(a))'
  <2>1. KeysGrow(bundle.archive[a], docs[a], First(a))
    BY DEF WorldInv
  <2>2. First(a)' = First(a)
    BY DEF First
  <2>3. CASE a # actor
    BY <1>1, <2>1, <2>2, <2>3 DEF KeysGrow, WorldInv, TypeInv
  <2>4. CASE a = actor
    <3>. DEFINE s == bundle.archive[a]
                d == docs[a]
    <3>1. docs'[a] = new /\ bundle'.archive[a] = s
      BY <1>1, <2>4 DEF WorldInv, TypeInv
    <3>2. s \in Seq(Snapshot(Nat)) /\ d \in Document(Nat) /\ k \in Nat /\ First(a) \in Nat
      BY <2>4, KeysAssumption, FirstKey DEF WorldInv, TypeInv
    <3>3. \A i \in DOMAIN s : s[i] \in Snapshot(Nat)
      BY <3>2
    <3>4. \A i \in DOMAIN s : s[i].doc.current \in Nat /\ s[i].doc.methods \in SUBSET Nat
      BY <3>3 DEF Snapshot, Document
    <3>5. d.current \in Nat /\ d.methods \in SUBSET Nat
      BY <3>2 DEF Document
    <3>6. \A j \in d.methods : j < k
      BY <2>4 DEF Rotate
    <3>7. d.current < k
      BY <2>1, <3>6 DEF KeysGrow
    <3>8. First(a) <= d.current
      BY <1>2, <2>4, FirstKey DEF Document
    <3>9. new.current = k /\ k \in new.methods /\ new.methods \subseteq {k} \cup d.methods
      BY <2>4
    <3>. HIDE DEF new, s, d
    <3>10. \A m \in new.methods : m <= new.current
      BY <3>2, <3>5, <3>6, <3>9
    <3>11. \A i \in DOMAIN s : s[i].doc.current \in s[i].doc.methods /\ s[i].doc.current <= new.current
      BY <2>1, <3>2, <3>4, <3>5, <3>7, <3>9 DEF KeysGrow, s, d
    <3>12. \A i \in DOMAIN s : \A m \in s[i].doc.methods : m <= d.current
      BY <2>1 DEF KeysGrow, s, d
    <3>13. \A i \in DOMAIN s : \A m \in s[i].doc.methods : m < k
      BY <3>2, <3>4, <3>5, <3>7, <3>12
    <3>14. \A i \in DOMAIN s : \A m \in s[i].doc.methods : m <= new.current
      BY <3>2, <3>4, <3>9, <3>13
    <3>15. \A i, j \in DOMAIN s : i < j => s[i].doc.current <= s[j].doc.current
      BY <2>1 DEF KeysGrow, s, d
    <3>16. \A i, j \in DOMAIN s : i < j => s[i].doc.methods \cap d.methods \subseteq s[j].doc.methods
      BY <2>1 DEF KeysGrow, s, d
    <3>17. \A i, j \in DOMAIN s : i < j => s[i].doc.methods \cap new.methods \subseteq s[j].doc.methods
      <4>1. \A i \in DOMAIN s : k \notin s[i].doc.methods
        BY <3>2, <3>4, <3>13
      <4>. QED
        BY <3>9, <3>16, <4>1
    <3>18. First(a) \in new.methods => \A i \in DOMAIN s : First(a) \in s[i].doc.methods
      <4>1. First(a) \in d.methods => \A i \in DOMAIN s : First(a) \in s[i].doc.methods
        BY <2>1 DEF KeysGrow, s, d
      <4>2. First(a) # k
        BY <3>2, <3>5, <3>7, <3>8
      <4>. QED
        BY <3>9, <4>1, <4>2
    <3>19. KeysGrow(s, new, First(a))
      BY <3>9, <3>10, <3>11, <3>14, <3>15, <3>17, <3>18 DEF KeysGrow
    <3>. QED
      BY <2>2, <3>1, <3>19 DEF KeysGrow
  <2>. QED
    BY <2>3, <2>4
<1>. QED
  BY <1>1, <1>4, <1>5 DEF WorldInv, EventsInOrder, InOrder, ReceiptsKeepTime, SignedOrOwn

\* What is observed is the document of the moment.
LEMMA ObserveWorld ==
  ASSUME WorldInv, NEW actor \in Actors, NEW pins \in BOOLEAN, Observe(actor, pins)
  PROVE  WorldInv'
<1>. DEFINE s == bundle.archive[actor]
            d == docs[actor]
            snapshot == [at |-> now, pinned |-> pins, doc |-> d]
<1>1. /\ now' = now /\ lag' = lag /\ docs' = docs /\ bundle'.events = bundle.events
      /\ bundle'.archive = [bundle.archive EXCEPT ![actor] = Append(s, snapshot)]
      /\ bundle' \in [events : {bundle.events}, archive : {bundle'.archive}]
  BY DEF Observe, WorldInv, TypeInv
<1>2. /\ now \in Nat /\ d \in Document(Keys[actor]) /\ d \in Document(Nat)
      /\ s \in Seq(Snapshot(Keys[actor])) /\ s \in Seq(Snapshot(Nat))
  BY DEF WorldInv, TypeInv
<1>3. snapshot \in Snapshot(Keys[actor]) /\ snapshot \in Snapshot(Nat)
  BY <1>2 DEF Snapshot
<1>4. TypeInv'
  <2>1. Append(s, snapshot) \in Seq(Snapshot(Keys[actor])) /\ Append(s, snapshot) \in Seq(Snapshot(Nat))
    BY <1>2, <1>3
  <2>2. bundle'.archive \in [Actors -> Seq(Snapshot(Nat))]
    BY <1>1, <2>1 DEF WorldInv, TypeInv
  <2>3. \A a \in Actors : bundle'.archive[a] \in Seq(Snapshot(Keys[a]))
    BY <1>1, <2>1 DEF WorldInv, TypeInv
  <2>4. bundle' \in [events : Seq(Event), archive : [Actors -> Seq(Snapshot(Nat))]]
    BY <1>1, <2>2 DEF WorldInv, TypeInv
  <2>. QED
    BY <1>1, <2>3, <2>4 DEF WorldInv, TypeInv
<1>. DEFINE r == Append(s, snapshot)
<1>5. /\ DOMAIN r = 1..(Len(s) + 1) /\ DOMAIN s = 1..Len(s) /\ Len(s) \in Nat
      /\ r[Len(s) + 1] = snapshot /\ \A i \in DOMAIN s : r[i] = s[i]
  BY <1>2
<1>6. \A i \in DOMAIN s : s[i] \in Snapshot(Nat)
  BY <1>2
<1>7. \A i \in DOMAIN s : s[i].at \in Nat /\ s[i].doc.current \in Nat /\ s[i].doc.methods \in SUBSET Nat
  BY <1>6 DEF Snapshot, Document
<1>8. snapshot.at = now /\ snapshot.doc = d
  OBVIOUS
<1>9. InOrder(s) /\ KeysGrow(s, d, First(actor))
  BY DEF WorldInv
<1>10. \A i \in DOMAIN r : i \in DOMAIN s \/ i = Len(s) + 1
  BY <1>5
<1>11. \A i \in DOMAIN s : i < Len(s) + 1
  BY <1>5
<1>. HIDE DEF r, s, d, snapshot
<1>12. ASSUME NEW a \in Actors
       PROVE  InOrder(bundle.archive[a])' /\ KeysGrow(bundle.archive[a], docs[a], First(a))'
  <2>1. First(a)' = First(a)
    BY DEF First
  <2>2. CASE a # actor
    <3>1. bundle'.archive[a] = bundle.archive[a]
      BY <1>1, <2>2 DEF WorldInv, TypeInv
    <3>. QED
      BY <1>1, <2>1, <3>1 DEF WorldInv, InOrder, KeysGrow
  <2>3. CASE a = actor
    <3>1. bundle'.archive[a] = r /\ docs'[a] = d /\ docs[a] = d
      BY <1>1, <2>3 DEF WorldInv, TypeInv, r, s, d, snapshot
    <3>2. \A i \in DOMAIN r : r[i].at <= now
      BY <1>2, <1>5, <1>8, <1>9, <1>10 DEF InOrder
    <3>3. \A i, j \in DOMAIN r : i <= j => r[i].at <= r[j].at
      <4>. SUFFICES ASSUME NEW i \in DOMAIN r, NEW j \in DOMAIN r, i <= j
                    PROVE  r[i].at <= r[j].at
        OBVIOUS
      <4>1. CASE j = Len(s) + 1
        BY <1>5, <1>8, <3>2, <4>1
      <4>2. CASE j \in DOMAIN s
        <5>1. i \in DOMAIN s
          BY <1>5, <4>2
        <5>. QED
          BY <1>5, <1>9, <4>2, <5>1 DEF InOrder
      <4>. QED
        BY <1>10, <4>1, <4>2
    <3>4. InOrder(r)
      BY <3>2, <3>3 DEF InOrder
    <3>5. /\ \A i \in DOMAIN r : r[i].doc.current \in r[i].doc.methods /\ r[i].doc.current <= d.current
          /\ \A i \in DOMAIN r : \A k \in r[i].doc.methods : k <= d.current
      <4>1. d.current <= d.current /\ \A k \in d.methods : k <= d.current
        BY <1>2, <1>9 DEF KeysGrow, Document
      <4>. QED
        BY <1>5, <1>8, <1>9, <1>10, <4>1 DEF KeysGrow
    <3>6. \A i, j \in DOMAIN r : i < j =>
            r[i].doc.current <= r[j].doc.current /\ r[i].doc.methods \cap d.methods \subseteq r[j].doc.methods
      <4>. SUFFICES ASSUME NEW i \in DOMAIN r, NEW j \in DOMAIN r, i < j
                    PROVE  /\ r[i].doc.current <= r[j].doc.current
                           /\ r[i].doc.methods \cap d.methods \subseteq r[j].doc.methods
        OBVIOUS
      <4>1. i \in DOMAIN s
        BY <1>5, <1>10
      <4>2. CASE j = Len(s) + 1
        <5>1. r[j].doc = d
          BY <1>5, <1>8, <4>2
        <5>. QED
          BY <3>5, <5>1
      <4>3. CASE j \in DOMAIN s
        BY <1>5, <1>9, <4>1, <4>3 DEF KeysGrow
      <4>. QED
        BY <1>10, <4>2, <4>3
    <3>7. First(a) \in d.methods => \A i \in DOMAIN r : First(a) \in r[i].doc.methods
      BY <1>5, <1>8, <1>9, <1>10, <2>3 DEF KeysGrow
    <3>8. KeysGrow(r, d, First(a))
      BY <1>9, <3>5, <3>6, <3>7 DEF KeysGrow
    <3>. QED
      BY <1>1, <2>1, <3>1, <3>4, <3>8 DEF InOrder, KeysGrow
  <2>. QED
    BY <2>2, <2>3
<1>13. EventsInOrder(bundle.events)' /\ SignedOrOwn(bundle.events)' /\ (lag = 0 => ReceiptsKeepTime(bundle.events))'
  BY <1>1 DEF WorldInv, EventsInOrder, ReceiptsKeepTime, SignedOrOwn
<1>. QED
  BY <1>4, <1>12, <1>13 DEF WorldInv

\* An event that is accepted is the last, and its receipt is dated by the clock.
LEMMA AcceptWorld ==
  ASSUME WorldInv, NEW type \in Types, NEW actor \in Actors, NEW signed \in BOOLEAN,
         NEW occurred \in Nat, NEW receipted \in BOOLEAN,
         Accept(type, actor, signed, occurred, receipted)
  PROVE  WorldInv'
<1>. DEFINE s == bundle.events
            key == IF signed THEN docs[actor].current ELSE NoKey
            rcpt == IF receipted THEN [at |-> now - lag, key |-> docs["registry"].current] ELSE NoReceipt
            e == [type |-> type, actor |-> actor, occurred |-> occurred, when |-> now,
                  key |-> key, receipt |-> rcpt]
            r == Append(s, e)
<1>1. /\ now' = now /\ lag' = lag /\ docs' = docs
      /\ bundle'.events = r /\ bundle'.archive = bundle.archive
      /\ bundle' \in [events : {r}, archive : {bundle.archive}]
  BY DEF Accept, WorldInv, TypeInv
<1>2. now \in Nat /\ Created <= now /\ lag \in Nat /\ lag <= now /\ s \in Seq(Event)
  BY DEF WorldInv, TypeInv
<1>3. docs[actor].current \in Keys[actor] /\ docs["registry"].current \in Keys["registry"]
  <2>1. docs[actor] \in Document(Keys[actor]) /\ docs["registry"] \in Document(Keys["registry"])
    BY DEF WorldInv, TypeInv, Actors
  <2>. QED
    BY <2>1 DEF Document
<1>4. key \in (UNION {Keys[a] : a \in Actors}) \cup {NoKey}
  <2>1. Keys[actor] \in {Keys[a] : a \in Actors}
    OBVIOUS
  <2>. QED
    BY <1>3, <2>1
<1>5. rcpt \in Receipt \cup {NoReceipt}
  BY <1>2, <1>3 DEF Receipt
<1>. HIDE DEF key, rcpt
<1>6. e \in Event
  BY <1>2, <1>4, <1>5 DEF Event
<1>7. e.when = now /\ e.receipt = rcpt
  OBVIOUS
<1>. HIDE DEF e
<1>8. /\ DOMAIN r = 1..(Len(s) + 1) /\ DOMAIN s = 1..Len(s) /\ Len(s) \in Nat
      /\ r[Len(s) + 1] = e /\ \A i \in DOMAIN s : r[i] = s[i]
  BY <1>2, <1>6
<1>9. r \in Seq(Event)
  BY <1>2, <1>6
<1>10. \A i \in DOMAIN r : i \in DOMAIN s \/ i = Len(s) + 1
  BY <1>8
<1>. HIDE DEF r, s
<1>11. TypeInv'
  <2>1. bundle' \in [events : Seq(Event), archive : [Actors -> Seq(Snapshot(Nat))]]
    BY <1>1, <1>9 DEF WorldInv, TypeInv
  <2>. QED
    BY <1>1, <2>1 DEF WorldInv, TypeInv
<1>12. EventsInOrder(r)
  <2>1. \A i \in DOMAIN r : Created <= r[i].when /\ r[i].when <= now
    BY <1>2, <1>7, <1>8, <1>10 DEF WorldInv, EventsInOrder, s
  <2>2. ASSUME NEW i \in DOMAIN r, NEW j \in DOMAIN r, i <= j
        PROVE  r[i].when <= r[j].when
    <3>1. CASE j = Len(s) + 1
      BY <1>7, <1>8, <2>1, <3>1
    <3>2. CASE j \in DOMAIN s
      <4>1. i \in DOMAIN s
        BY <1>8, <2>2, <3>2
      <4>. QED
        BY <1>8, <2>2, <3>2, <4>1 DEF WorldInv, EventsInOrder, s
    <3>. QED
      BY <1>10, <3>1, <3>2
  <2>. QED
    BY <2>1, <2>2 DEF EventsInOrder
<1>13. ASSUME lag = 0 PROVE ReceiptsKeepTime(r)
  <2>1. e.receipt = NoReceipt \/ e.receipt.at = now
    BY <1>2, <1>7, <1>13 DEF rcpt
  <2>. QED
    BY <1>7, <1>8, <1>10, <1>13, <2>1 DEF WorldInv, ReceiptsKeepTime, s
<1>15. SignedOrOwn(r)
  <2>1. e.key = NoKey => e.actor = "registry"
    <3>1. signed => key # NoKey
      BY <1>3, KeysAssumption DEF key
    <3>2. signed \/ actor = "registry"
      BY DEF Accept
    <3>. QED
      BY <3>1, <3>2 DEF e
  <2>. QED
    BY <1>8, <1>10, <2>1 DEF WorldInv, SignedOrOwn, s
<1>14. \A a \in Actors : InOrder(bundle.archive[a])' /\ KeysGrow(bundle.archive[a], docs[a], First(a))'
  BY <1>1 DEF WorldInv, InOrder, KeysGrow, First
<1>. QED
  BY <1>1, <1>11, <1>12, <1>13, <1>14, <1>15 DEF WorldInv, EventsInOrder, ReceiptsKeepTime, SignedOrOwn

LEMMA NextWorld == WorldInv /\ [Next]_vars => WorldInv'
<1>. SUFFICES ASSUME WorldInv, [Next]_vars PROVE WorldInv'
  OBVIOUS
<1>1. CASE UNCHANGED vars
  BY <1>1 DEF vars, WorldInv, TypeInv, EventsInOrder, InOrder, ReceiptsKeepTime, SignedOrOwn, KeysGrow, First
<1>2. ASSUME NEW slip \in Slips, Tick(slip) PROVE WorldInv'
  BY <1>2, TickWorld
<1>3. ASSUME NEW actor \in Actors, NEW k \in Keys[actor], NEW keeps \in BOOLEAN,
             Rotate(actor, k, keeps)
      PROVE  WorldInv'
  BY <1>3, RotateWorld
<1>4. ASSUME NEW actor \in Actors, NEW pins \in Pins, Observe(actor, pins) PROVE WorldInv'
  BY <1>4, ObserveWorld, PinsAssumption
<1>5. ASSUME NEW type \in Types, NEW actor \in Actors, NEW signed \in BOOLEAN,
             NEW receipted \in BOOLEAN, NEW occurred \in {Created, now},
             Accept(type, actor, signed, occurred, receipted)
      PROVE  WorldInv'
  <2>1. occurred \in Nat
    BY DEF WorldInv, TypeInv, Created
  <2>. QED
    BY <1>5, <2>1, AcceptWorld
<1>. QED
  BY <1>1, <1>2, <1>3, <1>4, <1>5 DEF Next

LEMMA WorldAlways == Spec => []WorldInv
  BY WorldInit, NextWorld, PTL DEF Spec

-----------------------------------------------------------------------------
(* The retraction stage *)

\* Where the clock kept the time, the receipts that verify are in their order.
LEMMA ChecksAreMonotonic ==
  ASSUME WorldInv, lag = 0, NEW pass,
         NEW es, DOMAIN es \subseteq DOMAIN bundle.events,
         \A i \in DOMAIN es : es[i] = bundle.events[i],
         NEW b, b.events = es
  PROVE  /\ Monotonic(EventChecks(b, pass))
         /\ \A i \in DOMAIN es : EventChecks(b, pass)[i].acceptedAt \in {NoTime, es[i].when}
<1>. DEFINE doc == Docs(b, pass)
            checks == EventChecks(b, pass)
<1>1. /\ DOMAIN checks = DOMAIN es
      /\ \A i \in DOMAIN es : checks[i].acceptedAt = ReceiptTime(es[i], doc["registry"])
  BY DEF EventChecks
<1>. HIDE DEF doc, checks
<1>2. \A i \in DOMAIN es : es[i] \in Event
  BY Members
<1>3. ASSUME NEW i \in DOMAIN es PROVE checks[i].acceptedAt \in {NoTime, es[i].when}
  <2>1. es[i].receipt = NoReceipt \/ es[i].receipt.at = es[i].when
    BY DEF WorldInv, ReceiptsKeepTime
  <2>2. ~(Created <= NoReceipt.at)
    BY DEF NoReceipt, NoTime, Created
  <2>. QED
    BY <1>1, <2>1, <2>2 DEF ReceiptTime
<1>4. ASSUME NEW i \in DOMAIN checks, NEW j \in DOMAIN checks, i < j,
             checks[i].acceptedAt # NoTime, checks[j].acceptedAt # NoTime
      PROVE  checks[i].acceptedAt <= checks[j].acceptedAt
  <2>1. checks[i].acceptedAt = es[i].when /\ checks[j].acceptedAt = es[j].when
    BY <1>1, <1>3, <1>4
  <2>2. i \in DOMAIN bundle.events /\ j \in DOMAIN bundle.events /\ i \in Nat /\ j \in Nat
    <3>1. bundle.events \in Seq(Event)
      BY DEF WorldInv, TypeInv
    <3>. QED
      BY <1>1, <3>1
  <2>3. es[i].when <= es[j].when
    BY <1>1, <1>4, <2>2 DEF WorldInv, EventsInOrder
  <2>. QED
    BY <2>1, <2>3
<1>5. Monotonic(checks)
  BY <1>4 DEF Monotonic
<1>. QED
  BY <1>3, <1>5 DEF checks

\* An as-of pass selects the snapshot that it would have selected at T.
LEMMA SelectedThen ==
  ASSUME NEW s, NEW u, NEW t \in Nat,
         DOMAIN u = {i \in DOMAIN s : s[i].at <= t},
         \A i \in DOMAIN u : u[i] = s[i]
  PROVE  Selected(u, t) = Selected(s, t)
<1>1. \A x : Admits(x, t) <=> (x # NoTime /\ x <= t)
  BY DEF Admits, Latest
<1>2. \A i \in DOMAIN s : Admits(s[i].at, t) => i \in DOMAIN u
  BY <1>1
<1>3. \A i, j \in DOMAIN u : Outranks(u, i, j) <=> Outranks(s, i, j)
  BY DEF Outranks
<1>4. Chosen(u, t) = Chosen(s, t)
  BY <1>2, <1>3 DEF Chosen
<1>5. \A i \in Chosen(s, t) : u[i] = s[i]
  BY <1>2 DEF Chosen
<1>6. CASE Chosen(s, t) = {}
  BY <1>4, <1>6 DEF Selected
<1>7. CASE Chosen(s, t) # {}
  <2>1. (CHOOSE i \in Chosen(s, t) : TRUE) \in Chosen(s, t)
    BY <1>7
  <2>. QED
    BY <1>4, <1>5, <1>7, <2>1 DEF Selected
<1>. QED
  BY <1>6, <1>7

\* The events that stand before the first that is not admitted are admitted.
LEMMA PrefixIsAdmitted ==
  ASSUME NEW es \in Seq(Event), NEW admitted
  PROVE  /\ Prefix(es, admitted) \in 0..Len(es)
         /\ {i \in DOMAIN es : 1..i \subseteq admitted} = 1..Prefix(es, admitted)
         /\ 1..Prefix(es, admitted) \subseteq admitted
<1>. DEFINE C == {i \in 1..Len(es) : 1..i \subseteq admitted}
<1>1. DOMAIN es = 1..Len(es) /\ Len(es) \in Nat
  OBVIOUS
<1>2. Prefix(es, admitted) = Cardinality(C)
  BY <1>1 DEF Prefix
<1>3. PICK D : D = C
  OBVIOUS
<1>. HIDE DEF C
<1>7. D \in SUBSET (1..Len(es)) /\ \A i \in 1..Len(es) : i \in D <=> 1..i \subseteq admitted
  BY <1>3 DEF C
<1>4. Cardinality(D) \in 0..Len(es) /\ D = 1..Cardinality(D)
  BY <1>1, <1>7, PrefixIsInterval
<1>5. \A i \in D : i \in 1..i /\ 1..i \subseteq admitted
  BY <1>1, <1>3 DEF C
<1>6. D \subseteq admitted
  BY <1>5
<1>. QED
  BY <1>1, <1>2, <1>3, <1>4, <1>6 DEF C

-----------------------------------------------------------------------------
(* What came after T *)

\* The bundle as it was at T has the events and the snapshots that were there.
LEMMA ByThen ==
  ASSUME NEW t
  PROVE  /\ DOMAIN By(t).events = {i \in DOMAIN bundle.events : bundle.events[i].when <= t}
         /\ \A i \in DOMAIN By(t).events : By(t).events[i] = bundle.events[i]
         /\ \A actor \in Actors :
              /\ DOMAIN By(t).archive[actor] =
                   {i \in DOMAIN bundle.archive[actor] : bundle.archive[actor][i].at <= t}
              /\ \A i \in DOMAIN By(t).archive[actor] :
                   By(t).archive[actor][i] = bundle.archive[actor][i]
  BY DEF By, Upto

\* The documents that an as-of pass selects are those that it would have selected at T.
LEMMA DocsThen ==
  ASSUME NEW t \in Nat, NEW pass, pass.asOf = t, NEW b, b.archive = bundle.archive,
         NEW c, c.archive = By(t).archive
  PROVE  Docs(c, pass) = Docs(b, pass)
<1>1. ASSUME NEW actor \in Actors
      PROVE  Selected(c.archive[actor], t) = Selected(b.archive[actor], t)
  BY ByThen, SelectedThen
<1>. QED
  BY <1>1 DEF Docs, Actors

LEMMA AsOfIsFinalAt ==
  ASSUME WorldInv, lag = 0, NEW t \in Nat, NEW pass, pass.asOf = t,
         pass.required \/ HonestlyDated,
         NEW b, b.archive = bundle.archive, b.events = bundle.events,
         NEW c, c.archive = By(t).archive, c.events = By(t).events
  PROVE  Retraction(b, pass) = Retraction(c, pass)
<1>. DEFINE es == b.events
            then == c.events
            checks == EventChecks(b, pass)
            past == EventChecks(c, pass)
            admitted == AdmittedEvents(es, checks, pass)
            before == AdmittedEvents(then, past, pass)
            n == Prefix(es, admitted)
<1>1. /\ DOMAIN then = {i \in DOMAIN es : es[i].when <= t}
      /\ \A i \in DOMAIN then : then[i] = es[i]
  BY ByThen
<1>2. /\ DOMAIN checks = DOMAIN es /\ DOMAIN past = DOMAIN then
      /\ \A i \in DOMAIN then : past[i] = checks[i]
  <2>1. Docs(c, pass) = Docs(b, pass)
    BY DocsThen
  <2>. QED
    BY <1>1, <2>1 DEF EventChecks
<1>3. Monotonic(checks) /\ Monotonic(past) /\ \A i \in DOMAIN es : checks[i].acceptedAt \in {NoTime, es[i].when}
  BY <1>1, ChecksAreMonotonic
<1>. HIDE DEF checks, past
<1>4. ~IsLatest(pass)
  BY DEF IsLatest, Latest
<1>5. \A i \in DOMAIN es : DatedBy(es[i], checks[i], pass) => i \in DOMAIN then
  <2>. SUFFICES ASSUME NEW i \in DOMAIN es, DatedBy(es[i], checks[i], pass)
                PROVE  es[i].when <= t
    BY <1>1
  <2>1. CASE checks[i].acceptedAt # NoTime
    BY <1>3, <2>1 DEF DatedBy
  <2>2. CASE checks[i].acceptedAt = NoTime
    BY <2>2 DEF DatedBy, HonestlyDated
  <2>. QED
    BY <2>1, <2>2
<1>6. admitted \subseteq DOMAIN then /\ before = admitted
  <2>1. \A i \in DOMAIN then : /\ Attested(past[i]) <=> Attested(checks[i])
                               /\ DatedBy(then[i], past[i], pass) <=> DatedBy(es[i], checks[i], pass)
    BY <1>1, <1>2
  <2>2. admitted \subseteq DOMAIN then
    BY <1>4, <1>5 DEF AdmittedEvents
  <2>3. before \subseteq admitted
    BY <1>1, <1>4, <2>1 DEF AdmittedEvents
  <2>4. admitted \subseteq before
    BY <1>1, <1>4, <2>1, <2>2 DEF AdmittedEvents
  <2>. QED
    BY <2>2, <2>3, <2>4
<1>7. es \in Seq(Event)
  BY DEF WorldInv, TypeInv
<1>. HIDE DEF admitted, before
<1>8. Prefix(then, admitted) = n
  <2>1. \A i \in DOMAIN es : i \in 1..i
    BY <1>7
  <2>2. {i \in DOMAIN then : 1..i \subseteq admitted} = {i \in DOMAIN es : 1..i \subseteq admitted}
    BY <1>1, <1>6, <2>1
  <2>. QED
    BY <2>2 DEF Prefix
<1>9. \A i \in 1..n : then[i] = es[i]
  BY <1>1, <1>6, <1>7, PrefixIsAdmitted
<1>10. RetractedAfter(then, n) <=> RetractedAfter(es, n)
  <2>1. n \in Nat
    BY <1>7, PrefixIsAdmitted
  <2>. HIDE DEF n, es, then
  <2>2. \A i \in 1..n : \A j \in (i + 1)..n : j \in 1..n
    BY <2>1
  <2>. QED
    BY <1>9, <2>2 DEF RetractedAfter
<1>. QED
  BY <1>3, <1>6, <1>8, <1>10 DEF Retraction, Stage, checks, past, admitted, before

\* An as-of reading is final, of any bundle that the world can have come to.
LEMMA PastIsFinal == WorldInv => AsOfIsFinal
<1>. SUFFICES ASSUME WorldInv, lag = 0, NEW pass \in PastPasses, pass.required \/ HonestlyDated
              PROVE  Retraction(bundle, pass) = Retraction(By(pass.asOf), pass)
  BY DEF AsOfIsFinal
<1>1. PICK t \in Created..(now - 1) : pass \in PassesAt(t)
  BY DEF PastPasses
<1>2. t \in Nat /\ pass.asOf = t
  BY <1>1 DEF PassesAt, Created, WorldInv, TypeInv
<1>. QED
  BY <1>2, AsOfIsFinalAt

\* What is admitted by the as-of pass of now is admitted by the latest pass.
LEMMA LatestAdmitsAll ==
  ASSUME WorldInv, NEW pass, pass.asOf = now, NEW last, last = [pass EXCEPT !.asOf = Latest],
         pass \in [asOf : Nat, required : BOOLEAN]
  PROVE  /\ Docs(bundle, last) = Docs(bundle, pass)
         /\ AdmittedEvents(bundle.events, EventChecks(bundle, pass), pass)
              \subseteq AdmittedEvents(bundle.events, EventChecks(bundle, last), last)
<1>1. last.asOf = Latest /\ IsLatest(last) /\ ~IsLatest(pass) /\ now \in Nat
  BY DEF IsLatest, Latest, WorldInv, TypeInv
<1>2. ASSUME NEW actor \in Actors
      PROVE  Selected(bundle.archive[actor], Latest) = Selected(bundle.archive[actor], now)
  <2>. DEFINE s == bundle.archive[actor]
  <2>1. \A i \in DOMAIN s : s[i].at \in Nat /\ s[i].at <= now
    BY Members DEF WorldInv, InOrder, Snapshot
  <2>2. \A i \in DOMAIN s : Admits(s[i].at, Latest) /\ Admits(s[i].at, now)
    BY <2>1 DEF Admits, NoTime
  <2>3. Chosen(s, Latest) = Chosen(s, now)
    BY <2>2 DEF Chosen
  <2>. QED
    BY <2>3 DEF Selected
<1>3. Docs(bundle, last) = Docs(bundle, pass)
  BY <1>1, <1>2 DEF Docs, Actors
<1>. DEFINE es == bundle.events
            checks == EventChecks(bundle, pass)
            later == EventChecks(bundle, last)
<1>4. ASSUME NEW i \in DOMAIN es, Attested(checks[i]) PROVE Attested(later[i])
  <2>1. /\ later[i].unsigned = checks[i].unsigned /\ later[i].acceptedAt = checks[i].acceptedAt
        /\ checks[i].signatureOk => later[i].signatureOk
    BY <1>1, <1>3 DEF EventChecks, SignatureOk, HistoricalCounts
  <2>. QED
    BY <1>4, <2>1 DEF Attested
<1>. QED
  BY <1>1, <1>3, <1>4 DEF AdmittedEvents

\* The more is admitted, the longer is the prefix.
LEMMA PrefixGrows ==
  ASSUME NEW es \in Seq(Event), NEW A, NEW B, A \subseteq B
  PROVE  Prefix(es, A) <= Prefix(es, B)
<1>. DEFINE C == {i \in DOMAIN es : 1..i \subseteq A}
            D == {i \in DOMAIN es : 1..i \subseteq B}
<1>1. C \in SUBSET D
  OBVIOUS
<1>2. IsFiniteSet(D)
  <2>1. DOMAIN es = 1..Len(es) /\ Len(es) \in Nat /\ 1 \in Int
    OBVIOUS
  <2>2. IsFiniteSet(1..Len(es)) /\ D \in SUBSET (1..Len(es))
    BY <2>1, FS_Interval
  <2>. QED
    BY <2>2, FS_Subset
<1>. QED
  BY <1>1, <1>2, FS_Subset DEF Prefix

LEMMA LatestIsMore == WorldInv => LatestAdmitsMore
<1>. SUFFICES ASSUME WorldInv, lag = 0, NEW pass \in PassesAt(now)
              PROVE  Retraction(bundle, pass).admitted
                       <= Retraction(bundle, [pass EXCEPT !.asOf = Latest]).admitted
  BY DEF LatestAdmitsMore
<1>. DEFINE last == [pass EXCEPT !.asOf = Latest]
            es == bundle.events
            admitted == AdmittedEvents(es, EventChecks(bundle, pass), pass)
            more == AdmittedEvents(es, EventChecks(bundle, last), last)
<1>1. now \in Nat /\ es \in Seq(Event)
  BY DEF WorldInv, TypeInv
<1>2. pass.asOf = now /\ pass \in [asOf : Nat, required : BOOLEAN]
  BY <1>1 DEF PassesAt
<1>3. Monotonic(EventChecks(bundle, pass)) /\ Monotonic(EventChecks(bundle, last))
  BY ChecksAreMonotonic
<1>4. admitted \subseteq more
  BY <1>2, LatestAdmitsAll
<1>5. Prefix(es, admitted) <= Prefix(es, more)
  BY <1>1, <1>4, PrefixGrows
<1>6. \A p : Monotonic(EventChecks(bundle, p)) =>
        Retraction(bundle, p).admitted = Prefix(es, AdmittedEvents(es, EventChecks(bundle, p), p))
  BY DEF Retraction, Stage
<1>. QED
  BY <1>3, <1>5, <1>6

-----------------------------------------------------------------------------
(* What a stage says *)

LEMMA StageType ==
  ASSUME WorldInv, NEW pass
  PROVE  Retraction(bundle, pass) \in Stages
<1>. DEFINE es == bundle.events
            N == Len(es)
            checks == EventChecks(bundle, pass)
            admitted == AdmittedEvents(es, checks, pass)
            n == Prefix(es, admitted)
<1>1. es \in Seq(Event) /\ N \in Nat /\ DOMAIN es = 1..N
  BY DEF WorldInv, TypeInv
<1>2. n \in 0..N /\ {i \in DOMAIN es : 1..i \subseteq admitted} = 1..n /\ 1..n \subseteq admitted
  BY <1>1, PrefixIsAdmitted
<1>3. admitted \subseteq 1..N
  BY <1>1 DEF AdmittedEvents
<1>. HIDE DEF checks, admitted, n
<1>4. RetractedAfter(es, n) => n \in 1..N
  BY <1>1, <1>2 DEF RetractedAfter
<1>5. ASSUME admitted \ (1..n) # {} PROVE n \in 0..(N - 2)
  <2>1. PICK i \in admitted : i \notin 1..n
    BY <1>5
  <2>2. i \in Nat /\ n < i /\ i <= N /\ n \in Nat
    <3>1. i \in 1..N /\ i \notin 1..n /\ n \in 0..N /\ N \in Nat
      BY <1>1, <1>2, <1>3, <2>1
    <3>. HIDE DEF N
    <3>. QED
      BY <3>1
  <2>3. n + 1 # i
    <3>. SUFFICES ASSUME n + 1 = i PROVE FALSE
      OBVIOUS
    <3>1. 1..i = (1..n) \cup {i}
      BY <2>2
    <3>2. 1..i \subseteq admitted
      BY <1>2, <2>1, <3>1
    <3>3. i \in 1..n
      BY <1>1, <1>2, <1>3, <2>1, <3>2
    <3>. QED
      BY <2>1, <3>3
  <2>. QED
    BY <1>1, <2>2, <2>3
<1>6. Retraction(bundle, pass) \in
        {Stage("invalid", 0), Stage("unknown", n), Stage("retracted", n), Stage("not_retracted", n)}
      /\ (Retraction(bundle, pass) = Stage("unknown", n) => admitted \ (1..n) # {})
      /\ (Retraction(bundle, pass) = Stage("retracted", n) => RetractedAfter(es, n))
  BY DEF Retraction, Stage, checks, admitted, n
<1>. QED
  BY <1>1, <1>2, <1>4, <1>5, <1>6 DEF Stages, Stage

-----------------------------------------------------------------------------
(* Theorems *)

\* Type correctness of the world, the bundle, and what the latest pass and the as-of
\* pass of the moment say of it: nothing is retracted by no event, and a reading is
\* unknown only where an admitted event follows one that is not.
THEOREM PassTypeCorrect == Spec => []TypeOK
<1>1. WorldInv => TypeOK
  BY StageType DEF WorldInv, TypeInv, TypeOK
<1>. QED
  BY <1>1, WorldAlways, PTL

\* An as-of reading is final, whatever is observed, rotated, accepted and dated back
\* after T, for any keys, bounds and pins.
THEOREM RetractionIsFinal == Spec => []AsOfIsFinal
  BY PastIsFinal, WorldAlways, PTL

\* The latest pass admits all that the as-of pass of the moment admits.
THEOREM LatestPassIsMore == Spec => []LatestAdmitsMore
  BY LatestIsMore, WorldAlways, PTL

-----------------------------------------------------------------------------
(* What always holds of the evidence *)

\* A receipt in the bundle bears the time at which it was issued.
RevocationInv(rev) ==
  /\ rev \in Revocation /\ rev.when <= now
  /\ rev.receipt # NoReceipt => rev.receipt.at = rev.when

NodeInv ==
  /\ WorldInv
  /\ receipt \in {NoReceipt, [at |-> Created, key |-> First("registry")]}
  /\ \A rev \in revocations : RevocationInv(rev)
  /\ \A s \in searches : s \in Search /\ s.at <= now

LEMMA InitNode == NodeInit => NodeInv
  BY WorldInit DEF NodeInit, NodeInv

\* A revocation is dated by its receipt.
LEMMA RevokeNode ==
  ASSUME NodeInv, NEW statement \in Statements, NEW signer, NEW receipted \in BOOLEAN,
         Revoke(statement, signer, receipted)
  PROVE  NodeInv'
<1>. DEFINE rcpt == IF receipted THEN [at |-> now, key |-> docs["registry"].current] ELSE NoReceipt
            new == [says |-> statement, signer |-> signer, when |-> now, receipt |-> rcpt]
<1>1. /\ revocations' = revocations \cup {new} /\ UNCHANGED <<vars, receipt, searches>>
  BY DEF Revoke
<1>2. \A a \in Actors : docs[a].current \in Keys[a] /\ docs[a].current \in Nat /\ now \in Nat
  BY DEF NodeInv, WorldInv, TypeInv, Document
<1>3. rcpt \in Receipt \cup {NoReceipt} /\ (rcpt # NoReceipt => rcpt.at = now)
  BY <1>2 DEF Receipt, Actors
<1>4. signer \in Int
  BY <1>2 DEF Revoke, Actors, StrangersKey, Keyless
<1>. HIDE DEF rcpt
<1>5. RevocationInv(new)
  BY <1>2, <1>3, <1>4 DEF RevocationInv, Revocation, Actors
<1>. HIDE DEF new
<1>6. WorldInv'
  BY <1>1, NextWorld DEF NodeInv
<1>7. ASSUME NEW rev \in revocations' PROVE RevocationInv(rev)'
  <2>1. RevocationInv(rev)
    BY <1>1, <1>5 DEF NodeInv
  <2>. QED
    BY <1>1, <2>1 DEF RevocationInv, Revocation, Receipt, vars
<1>. QED
  BY <1>1, <1>6, <1>7 DEF NodeInv, First, Search, Outcomes, vars

LEMMA NextNode == NodeInv /\ [NodeNext]_nodeVars => NodeInv'
<1>. SUFFICES ASSUME NodeInv, [NodeNext]_nodeVars PROVE NodeInv'
  OBVIOUS
<1>1. ASSUME [Next]_vars, UNCHANGED <<receipt, revocations, searches>> PROVE NodeInv'
  <2>1. WorldInv'
    BY <1>1, NextWorld DEF NodeInv
  <2>2. now' \in Nat /\ now \in Nat /\ now <= now'
    <3>1. now \in Nat /\ now' \in Nat
      BY <2>1 DEF NodeInv, WorldInv, TypeInv
    <3>2. now' = now \/ now' = now + 1
      BY <1>1 DEF Next, Tick, Rotate, Observe, Accept, vars
    <3>. QED
      BY <3>1, <3>2
  <2>3. ASSUME NEW rev \in revocations PROVE RevocationInv(rev)'
    <3>1. RevocationInv(rev) /\ rev.when \in Nat
      BY DEF NodeInv, RevocationInv, Revocation
    <3>. QED
      BY <2>2, <3>1 DEF RevocationInv, Revocation, Receipt
  <2>4. \A s \in searches : s \in Search /\ s.at <= now'
    <3>1. \A s \in searches : s \in Search /\ s.at <= now /\ s.at \in Nat
      BY DEF NodeInv, Search
    <3>. QED
      BY <2>2, <3>1
  <2>. QED
    BY <1>1, <2>1, <2>3, <2>4 DEF NodeInv, First, Search, Outcomes
<1>2. ASSUME NEW statement \in Statements, NEW receipted \in BOOLEAN,
             NEW signer \in {docs[actor].current : actor \in Actors} \cup {StrangersKey, Keyless},
             Revoke(statement, signer, receipted)
      PROVE  NodeInv'
  BY <1>2, RevokeNode
<1>3. ASSUME NEW outcome \in Outcomes, SearchFor(outcome) PROVE NodeInv'
  <2>1. /\ UNCHANGED <<vars, receipt, revocations>>
        /\ searches' = searches \cup {[outcome |-> outcome, at |-> now]}
    BY <1>3 DEF SearchFor
  <2>2. WorldInv'
    BY <2>1, NextWorld DEF NodeInv
  <2>3. \A s \in searches' : s \in Search /\ s.at <= now
    BY <2>1 DEF NodeInv, WorldInv, TypeInv, Search
  <2>. QED
    BY <2>1, <2>2, <2>3 DEF NodeInv, RevocationInv, Revocation, Receipt, First, Search, vars
<1>4. CASE UNCHANGED nodeVars
  BY <1>1, <1>4 DEF nodeVars
<1>. QED
  BY <1>1, <1>2, <1>3, <1>4 DEF NodeNext

LEMMA NextDrift == NodeInv /\ [DriftNext]_nodeVars => NodeInv'
<1>. SUFFICES ASSUME NodeInv, NEW type \in Types, NEW actor \in Actors,
                     Accept(type, actor, TRUE, Created, TRUE),
                     UNCHANGED <<receipt, revocations, searches>>
              PROVE  NodeInv'
  BY NextNode DEF DriftNext
<1>1. WorldInv'
  BY AcceptWorld DEF NodeInv, Created
<1>. QED
  BY <1>1 DEF Accept, NodeInv, RevocationInv, Revocation, Receipt, First, Search, Outcomes

LEMMA NodeAlways == NodeSpec => []NodeInv
  BY InitNode, NextNode, PTL DEF NodeSpec

LEMMA DriftAlways == DriftSpec => []NodeInv
  BY InitNode, NextDrift, PTL DEF DriftSpec

-----------------------------------------------------------------------------
(* What came after T *)

\* A receipt that verifies bears its own date; one that does not bears none.
LEMMA ReceiptDate ==
  ASSUME NEW r, NEW doc
  PROVE  LET stage == ReceiptStage(r, doc)
         IN  \/ stage.value = "ok" /\ r # NoReceipt /\ r.key \in doc.methods /\ stage.at = r.at
             \/ stage.value \in {"absent", "invalid"} /\ stage.at = NoTime /\ stage.status = ""
  BY DEF ReceiptStage

\* What counts in an as-of pass was published by T.
LEMMA CountedWasPublished ==
  ASSUME NodeInv, NEW rev \in revocations, NEW doc, NEW t \in Nat, NEW pass, pass.asOf = t,
         Verified(rev, doc, pass)
  PROVE  rev.when <= t
<1>. DEFINE stage == ReceiptStage(rev.receipt, doc["registry"])
<1>1. stage.at # NoTime /\ stage.at <= t
  BY DEF Verified, DatedIn, Admits, Latest
<1>2. rev.receipt # NoReceipt /\ stage.at = rev.receipt.at
  BY <1>1, ReceiptDate
<1>. QED
  BY <1>1, <1>2 DEF NodeInv, RevocationInv

LEMMA PastNodeIsFinal == NodeInv => NodeIsFinal
<1>. SUFFICES ASSUME NodeInv, lag = 0, \A rev \in revocations : rev.signer # Keyless,
                     NEW t \in Past
              PROVE  NodeAt(Evidence, t) = NodeAt(EvidenceBy(t), t)
  BY DEF NodeIsFinal
<1>. DEFINE pass == [asOf |-> t, required |-> TRUE]
            b == Evidence
            c == EvidenceBy(t)
<1>1. t \in Nat /\ pass.asOf = t /\ pass.required /\ WorldInv
  BY DEF Past, Created, NodeInv, WorldInv, TypeInv
<1>2. /\ b.archive = bundle.archive /\ b.events = bundle.events
      /\ c.archive = By(t).archive /\ c.events = By(t).events
      /\ b.receipt = receipt /\ c.receipt = receipt
      /\ b.revocations = revocations /\ c.revocations = {rev \in revocations : rev.when <= t}
      /\ b.searches = searches /\ c.searches = {s \in searches : s.at <= t}
  BY DEF Evidence, EvidenceBy
<1>. HIDE DEF b, c, pass
<1>3. Docs(c, pass) = Docs(b, pass)
  BY <1>1, <1>2, DocsThen
<1>4. Retraction(c, pass) = Retraction(b, pass)
  BY <1>1, <1>2, AsOfIsFinalAt
<1>5. ASSUME NEW f, NEW doc PROVE Applicable(c, f, doc, pass) = Applicable(b, f, doc, pass)
  <2>1. \A rev \in revocations : Verified(rev, doc, pass) => rev.when <= t
    BY <1>1, CountedWasPublished
  <2>. QED
    BY <1>2, <2>1 DEF Applicable
<1>6. Discovery(c, pass) = Discovery(b, pass)
  <2>1. \A s \in searches : Admits(s.at, t) <=> s.at <= t
    BY <1>1 DEF Admits, NoTime, Latest, NodeInv, Search
  <2>2. {s \in c.searches : Admits(s.at, pass.asOf)} = {s \in b.searches : Admits(s.at, pass.asOf)}
    BY <1>1, <1>2, <2>1
  <2>. QED
    BY <2>2 DEF Discovery
<1>7. ASSUME NEW doc, NEW key, NEW rcpt
      PROVE  RevocationStage(c, doc, key, rcpt, pass) = RevocationStage(b, doc, key, rcpt, pass)
  <2>1. \A rev \in revocations : ~Unevaluable(rev, b, doc, pass) /\ ~Unevaluable(rev, c, doc, pass)
    BY DEF Unevaluable
  <2>. QED
    BY <1>2, <1>5, <1>6, <2>1 DEF RevocationStage
<1>8. Node(c, pass) = Node(b, pass)
  BY <1>2, <1>3, <1>4, <1>7 DEF Node
<1>. QED
  BY <1>8 DEF NodeAt, b, c, pass

-----------------------------------------------------------------------------
(* Who does not speak for the producer *)

LEMMA HintsDoNotCount == NodeInv => HintsAreOnlyHints
<1>. DEFINE heard == {rev \in revocations : /\ rev.says.agent \in Actors
                                            /\ rev.says.controller = "producer"
                                            /\ rev.signer # rev.says.revoked}
<1>. SUFFICES ASSUME NodeInv, NEW t
              PROVE  NodeAt(Evidence, t) = NodeAt([Evidence EXCEPT !.revocations = heard], t)
  BY DEF HintsAreOnlyHints
<1>. DEFINE pass == [asOf |-> t, required |-> TRUE]
            b == Evidence
            c == [Evidence EXCEPT !.revocations = heard]
<1>1. /\ c.archive = b.archive /\ c.events = b.events /\ c.receipt = b.receipt
      /\ c.searches = b.searches /\ b.revocations = revocations /\ c.revocations = heard
  BY DEF Evidence
<1>. HIDE DEF b, c, pass
<1>2. Docs(c, pass) = Docs(b, pass)
  BY <1>1 DEF Docs
<1>3. Retraction(c, pass) = Retraction(b, pass)
  BY <1>1, <1>2 DEF Retraction, EventChecks
<1>4. ASSUME NEW rev \in revocations, NEW doc, SpeaksForProducer(rev), Verified(rev, doc, pass)
      PROVE  rev \in heard
  BY <1>4 DEF SpeaksForProducer, Verified, RegistryAttested, Actors
<1>5. ASSUME NEW rev \in revocations, NEW doc, rev.says.agent = "producer",
             Unevaluable(rev, b, doc, pass)
      PROVE  rev \in heard
  <2>1. rev.says.revoked \in Nat
    BY StatementsAssumption, KeysAssumption DEF NodeInv, RevocationInv, Revocation, Actors
  <2>. QED
    BY <1>5, <2>1 DEF Unevaluable, Keyless, Actors
<1>6. ASSUME NEW f, NEW doc PROVE Applicable(c, f, doc, pass) = Applicable(b, f, doc, pass)
  BY <1>1, <1>4 DEF Applicable
<1>7. \A rev, doc : Unevaluable(rev, c, doc, pass) <=> Unevaluable(rev, b, doc, pass)
  BY <1>1 DEF Unevaluable, KeylessUnevaluable
<1>8. ASSUME NEW doc, NEW key, NEW rcpt
      PROVE  RevocationStage(c, doc, key, rcpt, pass) = RevocationStage(b, doc, key, rcpt, pass)
  <2>1. Discovery(c, pass) = Discovery(b, pass)
    BY <1>1 DEF Discovery
  <2>. QED
    BY <1>1, <1>5, <1>6, <1>7, <2>1 DEF RevocationStage
<1>9. Node(c, pass) = Node(b, pass)
  BY <1>1, <1>2, <1>3, <1>8 DEF Node
<1>. QED
  BY <1>9 DEF NodeAt, b, c, pass

-----------------------------------------------------------------------------
(* Which snapshot speaks *)

\* Of the snapshots that a pass admits there is one that outranks the others.
LEMMA ChosenExists ==
  ASSUME NEW s \in Seq(Snapshot(Nat)), InOrder(s), NEW q,
         NEW i \in DOMAIN s, Admits(s[i].at, q)
  PROVE  Chosen(s, q) # {}
<1>. DEFINE G == {j \in DOMAIN s : Admits(s[j].at, q)}
<1>1. Len(s) \in Nat /\ DOMAIN s = 1..Len(s)
  OBVIOUS
<1>2. \A j \in DOMAIN s : s[j] \in Snapshot(Nat)
  OBVIOUS
<1>3. \A j \in DOMAIN s : s[j].at \in Nat /\ s[j].pinned \in BOOLEAN
  BY <1>2 DEF Snapshot
<1>4. PICK g \in G : \A j \in G : j <= g
  <2>1. G \in SUBSET Nat /\ G # {} /\ \A j \in G : j <= Len(s)
    BY <1>1
  <2>. QED
    BY <1>1, <2>1, GreatestNatural
<1>5. \A j \in G : s[j].at <= s[g].at
  BY <1>4 DEF InOrder
<1>. DEFINE P == {j \in G : s[j].at = s[g].at /\ s[j].pinned}
<1>6. CASE P = {}
  <2>1. ASSUME NEW j \in G \ {g} PROVE Outranks(s, g, j)
    <3>1. j < g /\ s[j].at <= s[g].at
      BY <1>1, <1>4, <1>5
    <3>2. s[j].at = s[g].at => ~s[j].pinned /\ ~s[g].pinned
      BY <1>6
    <3>. QED
      BY <1>3, <3>1, <3>2 DEF Outranks
  <2>. QED
    BY <2>1 DEF Chosen
<1>7. CASE P # {}
  <2>1. PICK m \in P : \A j \in P : j <= m
    <3>1. P \in SUBSET Nat /\ \A j \in P : j <= Len(s)
      BY <1>1
    <3>. QED
      BY <1>1, <1>7, <3>1, GreatestNatural
  <2>2. ASSUME NEW j \in G \ {m} PROVE Outranks(s, m, j)
    <3>1. s[j].at <= s[m].at
      BY <1>5, <2>1
    <3>2. CASE j \in P
      <4>1. j < m
        BY <1>1, <2>1, <3>2
      <4>. QED
        BY <1>1, <2>1, <3>2, <4>1 DEF Outranks
    <3>3. CASE j \notin P
      BY <1>3, <2>1, <3>1, <3>3 DEF Outranks
    <3>. QED
      BY <3>2, <3>3
  <2>. QED
    BY <2>1, <2>2 DEF Chosen
<1>. QED
  BY <1>6, <1>7

\* A later pass selects the same snapshot, or one that was observed after it.
LEMMA ChosenLater ==
  ASSUME NEW s \in Seq(Snapshot(Nat)), InOrder(s), NEW t \in Nat,
         NEW q, q = Latest \/ (q \in Nat /\ t <= q), Chosen(s, t) # {}
  PROVE  \E i, j \in DOMAIN s : i <= j /\ Selected(s, t) = s[i].doc /\ Selected(s, q) = s[j].doc
<1>1. Len(s) \in Nat /\ DOMAIN s = 1..Len(s)
  OBVIOUS
<1>2. \A i \in DOMAIN s : s[i] \in Snapshot(Nat)
  OBVIOUS
<1>3. \A i \in DOMAIN s : s[i].at \in Nat /\ s[i].pinned \in BOOLEAN
  BY <1>2 DEF Snapshot
<1>4. \A i \in DOMAIN s : Admits(s[i].at, t) => Admits(s[i].at, q)
  BY <1>3 DEF Admits, Latest
<1>5. PICK i \in Chosen(s, t) : Selected(s, t) = s[i].doc
  BY DEF Selected
<1>6. i \in DOMAIN s /\ Admits(s[i].at, t)
  BY <1>5 DEF Chosen
<1>7. Chosen(s, q) # {}
  BY <1>4, <1>6, ChosenExists
<1>8. PICK j \in Chosen(s, q) : Selected(s, q) = s[j].doc
  BY <1>7 DEF Selected
<1>9. j \in DOMAIN s
  BY <1>8 DEF Chosen
<1>10. ~(j < i)
  <2>. SUFFICES ASSUME j < i PROVE FALSE
    OBVIOUS
  <2>1. Outranks(s, j, i)
    BY <1>1, <1>4, <1>6, <1>8, <1>9 DEF Chosen
  <2>2. s[j].at <= s[i].at
    BY <1>1, <1>6, <1>9 DEF InOrder
  <2>3. s[j].at = s[i].at
    BY <1>3, <1>6, <1>9, <2>1, <2>2 DEF Outranks
  <2>4. Outranks(s, i, j)
    BY <1>1, <1>5, <1>6, <1>9, <2>3 DEF Chosen
  <2>. QED
    BY <1>1, <1>3, <1>6, <1>9, <2>1, <2>3, <2>4 DEF Outranks
<1>. QED
  BY <1>1, <1>5, <1>6, <1>8, <1>9, <1>10

\* A key that a pass selects and that is in use now is selected by every later pass; the
\* current key only grows, and the first key that is still there is always there.
LEMMA KeysAreSelected ==
  ASSUME WorldInv, NEW actor \in Actors, NEW t \in Nat,
         NEW q, q = Latest \/ (q \in Nat /\ t <= q),
         NEW then, then = Selected(bundle.archive[actor], t),
         NEW last, last = Selected(bundle.archive[actor], q),
         then.methods # {}
  PROVE  /\ \A k \in then.methods \cap docs[actor].methods : k \in last.methods
         /\ then.current \in Keys[actor] /\ last.current \in Keys[actor] /\ then.current <= last.current
         /\ First(actor) \in docs[actor].methods =>
              First(actor) \in then.methods /\ First(actor) \in last.methods
<1>. DEFINE s == bundle.archive[actor]
<1>1. s \in Seq(Snapshot(Nat)) /\ InOrder(s) /\ KeysGrow(s, docs[actor], First(actor))
  BY DEF WorldInv, TypeInv
<1>2. \A i \in DOMAIN s : s[i].doc.current \in Keys[actor] /\ s[i].doc.current \in Nat
  BY Members, KeysAssumption DEF Snapshot, Document
<1>3. DOMAIN s \subseteq Nat
  BY <1>1
<1>4. Chosen(s, t) # {}
  BY DEF Selected, NoDocument
<1>. HIDE DEF s
<1>5. PICK i \in DOMAIN s, j \in DOMAIN s :
        i <= j /\ Selected(s, t) = s[i].doc /\ Selected(s, q) = s[j].doc
  BY <1>1, <1>4, ChosenLater
<1>6. then = s[i].doc /\ last = s[j].doc
  BY <1>5 DEF s
<1>7. CASE i = j
  BY <1>1, <1>2, <1>6, <1>7 DEF KeysGrow
<1>8. CASE i < j
  BY <1>1, <1>2, <1>6, <1>8 DEF KeysGrow
<1>. QED
  BY <1>3, <1>5, <1>7, <1>8

-----------------------------------------------------------------------------
(* A refusal holds *)

\* A revocation that counts as of t counts in every later pass, while the keys that
\* signed it and its receipt are kept.
LEMMA CountsLater ==
  ASSUME NodeInv, KeysKept, NEW rev \in revocations, NEW t \in Nat,
         NEW q, q = Latest \/ (q \in Nat /\ t <= q),
         NEW pass, pass = [asOf |-> t, required |-> TRUE],
         NEW last, last = [asOf |-> q, required |-> TRUE],
         Verified(rev, Docs(Evidence, pass), pass)
  PROVE  /\ Verified(rev, Docs(Evidence, last), last)
         /\ Docs(Evidence, pass)["registry"].methods # {}
<1>. DEFINE doc == Docs(Evidence, pass)
            new == Docs(Evidence, last)
            stage == ReceiptStage(rev.receipt, doc["registry"])
            later == ReceiptStage(rev.receipt, new["registry"])
<1>1. \A actor \in Actors : /\ doc[actor] = Selected(bundle.archive[actor], t)
                            /\ new[actor] = Selected(bundle.archive[actor], q)
  BY DEF Docs, Evidence, Actors
<1>. HIDE DEF doc, new
<1>2. pass.asOf = t /\ last.asOf = q /\ WorldInv /\ "registry" \in Actors
  BY DEF NodeInv, Actors
<1>3. stage.at # NoTime /\ stage.at <= t
  BY <1>2 DEF Verified, DatedIn, Admits, Latest, doc
<1>4. stage.value = "ok" /\ rev.receipt # NoReceipt /\ rev.receipt.key \in doc["registry"].methods
      /\ stage.at = rev.receipt.at
  BY <1>3, ReceiptDate
<1>5. rev.receipt.key \in docs["registry"].methods
  BY <1>4 DEF KeysKept
<1>6. rev.receipt.key \in new["registry"].methods
  BY <1>1, <1>2, <1>4, <1>5, KeysAreSelected
<1>7. later.value = "ok" /\ later.at = stage.at
  BY <1>4, <1>6, ReceiptDate DEF ReceiptStage
<1>8. stage.at \in Nat
  BY <1>4 DEF NodeInv, RevocationInv, Revocation, Receipt
<1>9. DatedIn(later, last)
  BY <1>2, <1>3, <1>7, <1>8 DEF DatedIn, Admits
<1>10. rev.signer # Keyless /\ rev.signer # rev.says.revoked
       /\ (RegistryAttested(rev) \/ rev.says.controller = rev.says.agent)
       /\ SignerKey(rev, doc, pass).status = "resolved"
  BY DEF Verified, doc
<1>11. SignerKey(rev, new, last).status = "resolved"
  <2>1. CASE rev.says.agent = "stranger"
    BY <2>1 DEF SignerKey
  <2>2. CASE rev.says.agent # "stranger"
    <3>. DEFINE a == rev.says.agent
    <3>1. a \in Actors
      BY <2>2, StatementsAssumption DEF NodeInv, RevocationInv, Revocation, Agents
    <3>2. rev.signer \in doc[a].methods
      BY <1>2, <1>10, <2>2 DEF SignerKey, Located, IsLatest
    <3>3. rev.signer \in docs[a].methods
      BY <1>10, <2>2 DEF KeysKept
    <3>4. rev.signer \in new[a].methods
      BY <1>1, <1>2, <3>1, <3>2, <3>3, KeysAreSelected
    <3>. QED
      BY <2>2, <3>4 DEF SignerKey, Located
  <2>. QED
    BY <2>1, <2>2
<1>12. Verified(rev, new, last)
  BY <1>7, <1>9, <1>10, <1>11 DEF Verified
<1>. QED
  BY <1>4, <1>12 DEF doc, new

\* The context's own receipt verifies in every pass that selects the registry's
\* document, and once its key is historical it stays so.
LEMMA ReceiptLater ==
  ASSUME NodeInv, KeysKept, receipt # NoReceipt, NEW t \in Nat,
         NEW q, q = Latest \/ (q \in Nat /\ t <= q),
         NEW then, then = Selected(bundle.archive["registry"], t),
         NEW last, last = Selected(bundle.archive["registry"], q),
         then.methods # {}
  PROVE  /\ ReceiptStage(receipt, then).value = "ok" /\ ReceiptStage(receipt, last).value = "ok"
         /\ ReceiptStage(receipt, last).at = ReceiptStage(receipt, then).at
         /\ ReceiptStage(receipt, last).status = "current" => ReceiptStage(receipt, then).status = "current"
<1>. DEFINE k == First("registry")
<1>1. receipt.key = k /\ "registry" \in Actors /\ WorldInv
  BY DEF NodeInv, Actors
<1>2. k \in docs["registry"].methods
  BY <1>1 DEF KeysKept
<1>3. k \in then.methods /\ k \in last.methods /\ then.current <= last.current
      /\ then.current \in Keys["registry"] /\ last.current \in Keys["registry"]
  BY <1>1, <1>2, KeysAreSelected
<1>4. k <= then.current /\ k \in Nat /\ then.current \in Nat /\ last.current \in Nat
  BY <1>1, <1>3, FirstKey, KeysAssumption
<1>. HIDE DEF k
<1>5. last.current = k => then.current = k
  BY <1>3, <1>4
<1>. QED
  BY <1>1, <1>3, <1>5 DEF ReceiptStage

LEMMA RefusalLasts ==
  ASSUME NodeInv, KeysKept, NEW t \in Nat, NEW q, q = Latest \/ (q \in Nat /\ t <= q),
         NodeAt(Evidence, t).stages.revocation \in Refusing
  PROVE  \/ NodeAt(Evidence, q).verdict = "refused"
         \/ receipt = NoReceipt /\ NodeAt(Evidence, q).verdict = "unknown"
<1>. DEFINE pass == [asOf |-> t, required |-> TRUE]
            last == [asOf |-> q, required |-> TRUE]
            b == Evidence
            doc == Docs(b, pass)
            new == Docs(b, last)
            rcpt == ReceiptStage(receipt, doc["registry"])
            later == ReceiptStage(receipt, new["registry"])
            key == Located(SignedWith, doc["producer"], pass)
            newKey == Located(SignedWith, new["producer"], last)
            f == Fingerprint(key, rcpt)
            g == Fingerprint(newKey, later)
            revs == Applicable(b, f, doc, pass)
            more == Applicable(b, g, new, last)
<1>1. b.receipt = receipt /\ b.revocations = revocations
      /\ doc["registry"] = Selected(bundle.archive["registry"], t)
      /\ new["registry"] = Selected(bundle.archive["registry"], q)
  BY DEF Evidence, Docs
<1>2. /\ NodeAt(b, t).stages.revocation = RevocationStage(b, doc, key, rcpt, pass)
      /\ NodeAt(b, q).stages.key = KeyStage(newKey, later, last)
      /\ NodeAt(b, q).stages.revocation = RevocationStage(b, new, newKey, later, last)
      /\ NodeAt(b, q).verdict = Verdict(NodeAt(b, q).stages)
  BY <1>1 DEF NodeAt, Node
<1>. HIDE DEF b, doc, new, rcpt, later, key, newKey, pass, last
<1>3. revs # {} /\ Placed(rcpt, revs) \in Refusing
  <2>1. Discovery(b, pass) \notin Refusing
    BY DEF Discovery, Refusing
  <2>2. "unevaluable" \notin Refusing
    BY DEF Refusing
  <2>3. RevocationStage(b, doc, key, rcpt, pass) \in Refusing
    BY <1>2 DEF b
  <2>. HIDE DEF f
  <2>. QED
    BY <2>1, <2>2, <2>3 DEF RevocationStage, f
<1>4. \A rev \in revs : /\ rev \in revocations /\ rev.says.revoked = f /\ SpeaksForProducer(rev)
                        /\ Verified(rev, new, last)
  <2>1. \A rev \in revs : /\ rev \in revocations /\ rev.says.revoked = f /\ SpeaksForProducer(rev)
                          /\ Verified(rev, doc, pass)
    BY <1>1 DEF Applicable
  <2>. QED
    BY <2>1, CountsLater DEF doc, new, pass, last, b
<1>5. doc["registry"].methods # {}
  <2>1. \E rev \in revocations : Verified(rev, doc, pass)
    BY <1>1, <1>3 DEF Applicable
  <2>. QED
    BY <2>1, CountsLater DEF doc, pass, b
<1>6. receipt # NoReceipt =>
        rcpt.value = "ok" /\ later.value = "ok" /\ later.at = rcpt.at
        /\ (later.status = "current" => rcpt.status = "current")
  BY <1>1, <1>5, ReceiptLater DEF rcpt, later
<1>7. receipt = NoReceipt => later.value # "ok" /\ later.status # "current"
  BY DEF later, ReceiptStage
<1>8. f = SignedWith
  <2>1. PICK rev \in revs : rev.says.revoked = f
    BY <1>3, <1>4
  <2>2. rev.says.revoked \in Keys["producer"]
    BY <1>4, StatementsAssumption DEF NodeInv, RevocationInv, Revocation
  <2>3. f # NoKey
    BY <2>1, <2>2, KeysAssumption DEF Actors
  <2>. QED
    BY <2>3 DEF Fingerprint
<1>9. CASE g = SignedWith
  <2>1. revs \subseteq more
    BY <1>1, <1>4, <1>8, <1>9 DEF Applicable
  <2>2. Placed(later, more) \in Refusing
    <3>1. CASE later.status # "current"
      BY <3>1 DEF Placed, Refusing
    <3>2. CASE later.status = "current"
      <4>1. later.at = rcpt.at /\ rcpt.status = "current"
        BY <1>6, <1>7, <3>2
      <4>2. \E rev \in revs : ~(rcpt.at < rev.says.since)
        BY <1>3, <4>1 DEF Placed, Refusing
      <4>. QED
        BY <2>1, <3>2, <4>1, <4>2 DEF Placed, Refusing
    <3>. QED
      BY <3>1, <3>2
  <2>. HIDE DEF revs, more
  <2>3. more # {} /\ Placed(later, more) # "pre-compromise"
    BY <1>3, <2>1, <2>2 DEF Refusing
  <2>4. RevocationStage(b, new, newKey, later, last) = Placed(later, more)
    BY <2>3 DEF RevocationStage, more
  <2>5. NodeAt(b, q).stages.revocation \in Refusing
    BY <1>2, <2>2, <2>4
  <2>. QED
    BY <1>2, <2>5 DEF Verdict, b
<1>10. CASE g # SignedWith
  <2>1. newKey.status # "resolved" /\ later.value # "ok"
    BY <1>10 DEF Fingerprint
  <2>2. receipt = NoReceipt
    BY <1>6, <2>1
  <2>3. newKey.status \in {"unresolvable", "unknown"}
    BY <2>1 DEF newKey, Located
  <2>4. NodeAt(b, q).stages.key \in {"unresolvable", "unknown"}
    BY <1>2, <2>1, <2>3 DEF KeyStage
  <2>. QED
    BY <1>2, <2>2, <2>4 DEF Verdict, b
<1>. QED
  BY <1>9, <1>10

LEMMA RefusalIsFinal == NodeInv => RefusalHolds
<1>. SUFFICES ASSUME NodeInv, KeysKept, NEW t \in Past,
                     NodeAt(Evidence, t).stages.revocation \in Refusing,
                     NEW later \in (t..now) \cup {Latest}
              PROVE  \/ NodeAt(Evidence, later).verdict = "refused"
                     \/ receipt = NoReceipt /\ NodeAt(Evidence, later).verdict = "unknown"
  BY DEF RefusalHolds
<1>1. t \in Nat /\ (later = Latest \/ (later \in Nat /\ t <= later))
  BY DEF Past, Created, NodeInv, WorldInv, TypeInv
<1>. QED
  BY <1>1, RefusalLasts

-----------------------------------------------------------------------------
(* What a node says *)

LEMMA NodeType == NodeInv => NodeTypeOK
<1>. SUFFICES ASSUME NodeInv PROVE NodeTypeOK
  OBVIOUS
<1>1. receipt \in Receipt \cup {NoReceipt}
  BY FirstKey DEF NodeInv, Receipt, Created, Actors
<1>2. revocations \subseteq Revocation /\ searches \subseteq Search
  BY DEF NodeInv, RevocationInv
<1>3. ASSUME NEW t \in {now, Latest}
      PROVE  LET stages == NodeAt(Evidence, t).stages
             IN  /\ stages \in NodeStages
                 /\ stages.key # IF t = Latest THEN "unknown" ELSE "unresolvable"
                 /\ stages.revocation \in {"revoked", "pre-compromise"} =>
                      stages.receipt.status = "current"
  <2>. DEFINE pass == [asOf |-> t, required |-> TRUE]
              b == Evidence
              doc == Docs(b, pass)
              rcpt == ReceiptStage(receipt, doc["registry"])
              key == Located(SignedWith, doc["producer"], pass)
              rev == RevocationStage(b, doc, key, rcpt, pass)
              said == Retraction(b, pass).value
              stages == [key |-> KeyStage(key, rcpt, pass), receipt |-> rcpt,
                         revocation |-> rev, retraction |-> said]
  <2>1. NodeAt(b, t).stages = stages
    BY DEF NodeAt, Node, Evidence
  <2>2. said \in {"retracted", "not_retracted", "unknown", "invalid"}
    <3>1. Retraction(b, pass) = Retraction(bundle, pass)
      BY DEF Evidence, Retraction, EventChecks, Docs
    <3>2. Retraction(bundle, pass) \in Stages
      BY StageType DEF NodeInv
    <3>. QED
      BY <3>1, <3>2 DEF Stages, Stage
  <2>3. rcpt \in [value : {"ok"}, status : {"current", "historical"}, at : {Created}]
                \cup [value : {"absent", "invalid"}, status : {""}, at : {NoTime}]
    BY DEF NodeInv, ReceiptStage
  <2>4. IsLatest(pass) <=> t = Latest
    BY DEF IsLatest
  <2>. HIDE DEF doc
  <2>5. /\ KeyStage(key, rcpt, pass)
             \in {"current", "historical_receipt_attested", "unresolvable", "unknown"}
        /\ KeyStage(key, rcpt, pass) # IF t = Latest THEN "unknown" ELSE "unresolvable"
    BY <2>4 DEF KeyStage, Located
  <2>. HIDE DEF rcpt, key, said, pass, b
  <2>6. /\ rev \in Refusing \cup {"pre-compromise", "unevaluable", "unknown", "not-revoked"}
        /\ rev \in {"revoked", "pre-compromise"} => rcpt.status = "current"
    <3>1. \A revs : /\ Placed(rcpt, revs) \in Refusing \cup {"pre-compromise"}
                    /\ Placed(rcpt, revs) # "unplaceable" => rcpt.status = "current"
      BY DEF Placed, Refusing
    <3>2. Discovery(b, pass) \in {"not-revoked", "unknown"}
      BY DEF Discovery
    <3>. QED
      BY <3>1, <3>2 DEF RevocationStage, Refusing
  <2>. HIDE DEF rev
  <2>7. stages \in NodeStages
    BY <2>2, <2>3, <2>5, <2>6 DEF NodeStages
  <2>8. stages.key = KeyStage(key, rcpt, pass) /\ stages.receipt = rcpt /\ stages.revocation = rev
    OBVIOUS
  <2>. HIDE DEF stages
  <2>9. NodeAt(Evidence, t).stages = stages
    BY <2>1 DEF b
  <2>. QED
    BY <2>5, <2>6, <2>7, <2>8, <2>9
<1>. QED
  BY <1>1, <1>2, <1>3 DEF NodeTypeOK

-----------------------------------------------------------------------------
(* Evidence that is dated and current *)

\* The documents of a pass under which the keys of the evidence are in use.
InUse(doc) ==
  \A actor \in Actors : doc[actor].current = First(actor) /\ First(actor) \in doc[actor].methods

\* What the evidence is, said of keys that never rotated and clocks that never slipped.
LEMMA CurrentEvidence ==
  ASSUME NodeInv, DatedAndCurrent
  PROVE  /\ lag = 0 /\ receipt = [at |-> Created, key |-> First("registry")]
         /\ \A actor \in Actors : Docs(Evidence, LatestPass)[actor].current = First(actor)
         /\ \A rev \in revocations :
              /\ rev.receipt # NoReceipt /\ rev.receipt.key = First("registry")
              /\ rev.receipt.at = rev.when /\ rev.signer # Keyless
              /\ rev.says.agent \in Actors => rev.signer = First(rev.says.agent)
         /\ \A i \in DOMAIN bundle.events :
              LET e == bundle.events[i]
              IN  /\ e.receipt # NoReceipt /\ e.receipt.key = First("registry")
                  /\ e.receipt.at = e.when /\ Created <= e.when
                  /\ e.key = First(e.actor) \/ (e.key = NoKey /\ e.actor = "registry")
<1>. DEFINE inUse(actor) == Docs(Evidence, LatestPass)[actor]
<1>1. /\ lag = 0 /\ receipt # NoReceipt /\ inUse("producer").current = SignedWith
      /\ \A r \in {receipt} \cup {rev.receipt : rev \in revocations}
                  \cup {bundle.events[i].receipt : i \in DOMAIN bundle.events} :
           r # NoReceipt /\ r.key = inUse("registry").current
      /\ \A rev \in revocations :
           rev.signer # Keyless /\ (rev.says.agent \in Actors => rev.signer = inUse(rev.says.agent).current)
      /\ \A i \in DOMAIN bundle.events :
           bundle.events[i].key \in {NoKey, inUse(bundle.events[i].actor).current}
  BY DEF DatedAndCurrent
<1>. HIDE DEF inUse
<1>2. receipt = [at |-> Created, key |-> First("registry")]
  BY <1>1 DEF NodeInv
<1>3. inUse("registry").current = First("registry") /\ inUse("producer").current = First("producer")
  BY <1>1, <1>2 DEF SignedWith
<1>4. \A actor \in Actors : inUse(actor).current = First(actor)
  BY <1>3 DEF Actors
<1>5. ASSUME NEW rev \in revocations
      PROVE  /\ rev.receipt # NoReceipt /\ rev.receipt.key = First("registry")
             /\ rev.receipt.at = rev.when /\ rev.signer # Keyless
             /\ rev.says.agent \in Actors => rev.signer = First(rev.says.agent)
  BY <1>1, <1>3, <1>4 DEF NodeInv, RevocationInv
<1>6. ASSUME NEW i \in DOMAIN bundle.events
      PROVE  LET e == bundle.events[i]
             IN  /\ e.receipt # NoReceipt /\ e.receipt.key = First("registry")
                 /\ e.receipt.at = e.when /\ Created <= e.when
                 /\ e.key = First(e.actor) \/ (e.key = NoKey /\ e.actor = "registry")
  <2>. DEFINE e == bundle.events[i]
  <2>1. e.actor \in Actors
    BY Members DEF NodeInv, Event
  <2>2. e.receipt # NoReceipt /\ e.receipt.key = First("registry")
    BY <1>1, <1>3
  <2>3. e.receipt.at = e.when /\ Created <= e.when
    BY <1>1, <2>2 DEF NodeInv, WorldInv, ReceiptsKeepTime, EventsInOrder
  <2>4. e.key = First(e.actor) \/ (e.key = NoKey /\ e.actor = "registry")
    BY <1>1, <1>4, <2>1 DEF NodeInv, WorldInv, SignedOrOwn
  <2>. QED
    BY <2>2, <2>3, <2>4
<1>. QED
  BY <1>1, <1>2, <1>4, <1>5, <1>6 DEF inUse

\* A pass that admits a snapshot of each actor selects the documents that are in use.
LEMMA InUseThen ==
  ASSUME NodeInv, DatedAndCurrent, NEW q, q = Latest \/ q \in Nat,
         NEW pass, pass.asOf = q,
         \A actor \in Actors : Chosen(bundle.archive[actor], q) # {}
  PROVE  InUse(Docs(Evidence, pass))
<1>. SUFFICES ASSUME NEW actor \in Actors
              PROVE  /\ Docs(Evidence, pass)[actor].current = First(actor)
                     /\ First(actor) \in Docs(Evidence, pass)[actor].methods
  BY DEF InUse
<1>. DEFINE s == bundle.archive[actor]
            doc == Docs(Evidence, pass)[actor]
<1>1. /\ doc = Selected(s, q)
      /\ Docs(Evidence, LatestPass)[actor] = Selected(s, Latest)
  BY DEF Docs, Evidence, LatestPass, Actors
<1>2. Selected(s, Latest).current = First(actor)
  BY <1>1, CurrentEvidence
<1>3. s \in Seq(Snapshot(Nat)) /\ InOrder(s) /\ KeysGrow(s, docs[actor], First(actor)) /\ WorldInv
  BY DEF NodeInv, WorldInv, TypeInv
<1>4. \A i \in DOMAIN s : s[i].doc.current \in Keys[actor]
  BY <1>3, Members DEF Snapshot, Document
<1>5. First(actor) \in Nat /\ Keys[actor] \subseteq Nat /\ \A k \in Keys[actor] : First(actor) <= k
  BY FirstKey, KeysAssumption
<1>. HIDE DEF s
<1>6. CASE q = Latest
  <2>1. PICK i \in Chosen(s, q) : Selected(s, q) = s[i].doc
    BY DEF Selected, s
  <2>2. i \in DOMAIN s
    BY <2>1 DEF Chosen
  <2>. QED
    BY <1>1, <1>2, <1>3, <1>6, <2>1, <2>2 DEF KeysGrow
<1>7. CASE q \in Nat
  <2>1. PICK i \in DOMAIN s, j \in DOMAIN s :
          i <= j /\ Selected(s, q) = s[i].doc /\ Selected(s, Latest) = s[j].doc
    BY <1>3, <1>7, ChosenLater DEF s
  <2>2. s[i].doc.current <= s[j].doc.current
    <3>1. s[i].doc.current \in Nat /\ i \in Nat /\ j \in Nat
      BY <1>3, <1>4, <1>5
    <3>2. CASE i = j
      BY <3>1, <3>2
    <3>3. CASE i < j
      BY <1>3, <3>3 DEF KeysGrow
    <3>. QED
      BY <2>1, <3>1, <3>2, <3>3
  <2>3. s[i].doc.current = First(actor)
    BY <1>2, <1>4, <1>5, <2>1, <2>2
  <2>. QED
    BY <1>1, <1>3, <2>1, <2>3 DEF KeysGrow
<1>. QED
  BY <1>6, <1>7

\* Under documents in use every receipt verifies, and every event is attested.
LEMMA AllAttested ==
  ASSUME NodeInv, DatedAndCurrent, NEW pass, InUse(Docs(Evidence, pass))
  PROVE  /\ DOMAIN EventChecks(Evidence, pass) = DOMAIN bundle.events
         /\ \A i \in DOMAIN bundle.events :
              /\ EventChecks(Evidence, pass)[i].acceptedAt = bundle.events[i].when
              /\ bundle.events[i].when # NoTime
              /\ Attested(EventChecks(Evidence, pass)[i])
<1>. DEFINE doc == Docs(Evidence, pass)
            es == bundle.events
            checks == EventChecks(Evidence, pass)
            time(i) == ReceiptTime(es[i], doc["registry"])
<1>1. /\ doc["registry"].current = First("registry") /\ First("registry") \in doc["registry"].methods
      /\ \A actor \in Actors : doc[actor].current = First(actor) /\ First(actor) \in doc[actor].methods
  BY DEF InUse, Actors
<1>2. /\ DOMAIN checks = DOMAIN es
      /\ \A i \in DOMAIN es :
           /\ checks[i].acceptedAt = time(i)
           /\ checks[i].signatureOk = SignatureOk(es[i], doc[es[i].actor], time(i) # NoTime, pass)
           /\ checks[i].unsigned = (es[i].actor = "registry" /\ es[i].key = NoKey)
  BY DEF EventChecks, Evidence
<1>. HIDE DEF doc, checks
<1>3. ASSUME NEW i \in DOMAIN es
      PROVE  checks[i].acceptedAt = es[i].when /\ es[i].when # NoTime /\ Attested(checks[i])
  <2>1. /\ es[i].receipt.key = First("registry") /\ es[i].receipt.at = es[i].when
        /\ Created <= es[i].when
        /\ es[i].key = First(es[i].actor) \/ (es[i].key = NoKey /\ es[i].actor = "registry")
    BY CurrentEvidence
  <2>2. es[i].actor \in Actors /\ es[i].when \in Nat
    BY Members DEF NodeInv, Event
  <2>3. time(i) = es[i].when
    BY <1>1, <2>1 DEF ReceiptTime
  <2>4. es[i].when # NoTime
    BY <2>2 DEF NoTime
  <2>5. es[i].key # NoKey => checks[i].signatureOk
    <3>. SUFFICES ASSUME es[i].key # NoKey PROVE checks[i].signatureOk
      OBVIOUS
    <3>1. es[i].key \in doc[es[i].actor].methods /\ es[i].key = doc[es[i].actor].current
      BY <1>1, <2>1, <2>2
    <3>2. \A receipted : SignatureOk(es[i], doc[es[i].actor], receipted, pass)
      BY <3>1 DEF SignatureOk
    <3>3. checks[i].signatureOk = SignatureOk(es[i], doc[es[i].actor], time(i) # NoTime, pass)
      BY <1>2
    <3>. QED
      BY <3>2, <3>3
  <2>6. ~checks[i].unsigned => checks[i].signatureOk
    <3>1. First(es[i].actor) # NoKey
      BY <2>2, FirstKey
    <3>. QED
      BY <1>2, <2>1, <2>5, <3>1
  <2>. QED
    BY <1>2, <2>3, <2>4, <2>6 DEF Attested
<1>. QED
  BY <1>2, <1>3 DEF checks

\* The retraction is then read from all events that were accepted by T.
LEMMA RetractionInUse ==
  ASSUME NodeInv, DatedAndCurrent, NEW q, q = Latest \/ q \in Nat,
         NEW pass, pass = [asOf |-> q, required |-> TRUE], InUse(Docs(Evidence, pass))
  PROVE  \E n \in 0..Len(bundle.events) :
           /\ \A i \in DOMAIN bundle.events : i <= n <=> (q = Latest \/ bundle.events[i].when <= q)
           /\ Retraction(Evidence, pass).value =
                IF RetractedAfter(bundle.events, n) THEN "retracted" ELSE "not_retracted"
<1>. DEFINE es == bundle.events
            checks == EventChecks(Evidence, pass)
            admitted == AdmittedEvents(es, checks, pass)
            n == Prefix(es, admitted)
<1>1. WorldInv /\ lag = 0 /\ es \in Seq(Event) /\ Len(es) \in Nat /\ DOMAIN es = 1..Len(es)
  BY CurrentEvidence DEF NodeInv, WorldInv, TypeInv
<1>2. Monotonic(checks)
  BY <1>1, ChecksAreMonotonic DEF Evidence
<1>3. \A i \in DOMAIN es : /\ checks[i].acceptedAt = es[i].when /\ es[i].when # NoTime
                           /\ Attested(checks[i])
  BY AllAttested
<1>4. IsLatest(pass) <=> q = Latest
  BY DEF IsLatest
<1>5. Retraction(Evidence, pass) =
        IF ~Monotonic(checks) THEN Stage("invalid", 0)
        ELSE IF ~IsLatest(pass) /\ admitted \ (1..n) # {} THEN Stage("unknown", n)
        ELSE Stage(IF RetractedAfter(es, n) THEN "retracted" ELSE "not_retracted", n)
  BY DEF Retraction, Evidence
<1>. HIDE DEF checks
<1>6. \A i \in DOMAIN es : i \in admitted <=> (q = Latest \/ es[i].when <= q)
  BY <1>3, <1>4 DEF AdmittedEvents, DatedBy
<1>7. admitted \subseteq DOMAIN es
  BY DEF AdmittedEvents
<1>. HIDE DEF admitted
<1>8. n \in 0..Len(es) /\ {i \in DOMAIN es : 1..i \subseteq admitted} = 1..n /\ 1..n \subseteq admitted
  BY <1>1, PrefixIsAdmitted
<1>9. ASSUME NEW i \in admitted PROVE i \in 1..n
  <2>1. ASSUME NEW j \in 1..i PROVE j \in admitted
    <3>1. j \in DOMAIN es /\ j <= i /\ i \in DOMAIN es
      BY <1>1, <1>7
    <3>2. es[j].when <= es[i].when /\ es[j].when \in Nat /\ es[i].when \in Nat
      BY <1>1, <3>1, Members DEF WorldInv, EventsInOrder, Event
    <3>. QED
      BY <1>6, <3>1, <3>2
  <2>. QED
    BY <1>7, <1>8, <2>1
<1>. HIDE DEF n
<1>10. \A i \in DOMAIN es : i <= n <=> (q = Latest \/ es[i].when <= q)
  BY <1>1, <1>6, <1>8, <1>9
<1>11. admitted \ (1..n) = {}
  BY <1>9
<1>12. Retraction(Evidence, pass).value = IF RetractedAfter(es, n) THEN "retracted" ELSE "not_retracted"
  BY <1>2, <1>5, <1>11 DEF Stage
<1>. QED
  BY <1>8, <1>10, <1>12

\* Under documents in use the key and the receipt are current, and the revocations that
\* count are those that speak for the producer and were published by T.
Counting(q) ==
  {rev \in revocations :
     /\ rev.says.revoked = SignedWith /\ SpeaksForProducer(rev) /\ rev.signer # rev.says.revoked
     /\ RegistryAttested(rev) \/ rev.says.controller = rev.says.agent
     /\ q = Latest \/ rev.when <= q}

CurrentReceipt == [value |-> "ok", status |-> "current", at |-> Created]

LEMMA RevocationInUse ==
  ASSUME NodeInv, DatedAndCurrent, NEW q, q = Latest \/ q \in Nat,
         NEW pass, pass = [asOf |-> q, required |-> TRUE], InUse(Docs(Evidence, pass))
  PROVE  LET stages == Node(Evidence, pass).stages
         IN  /\ stages.key = "current" /\ stages.receipt = CurrentReceipt
             /\ stages.revocation = IF Counting(q) # {} THEN Placed(CurrentReceipt, Counting(q))
                                    ELSE Discovery(Evidence, pass)
<1>. DEFINE b == Evidence
            doc == Docs(b, pass)
            rcpt == ReceiptStage(receipt, doc["registry"])
            key == Located(SignedWith, doc["producer"], pass)
<1>1. /\ doc["registry"].current = First("registry") /\ First("registry") \in doc["registry"].methods
      /\ doc["producer"].current = SignedWith /\ SignedWith \in doc["producer"].methods
      /\ \A actor \in Actors : doc[actor].current = First(actor) /\ First(actor) \in doc[actor].methods
  BY DEF InUse, Actors, SignedWith
<1>2. b.receipt = receipt /\ b.revocations = revocations
  BY DEF Evidence
<1>3. /\ Node(b, pass).stages.key = KeyStage(key, rcpt, pass)
      /\ Node(b, pass).stages.receipt = rcpt
      /\ Node(b, pass).stages.revocation = RevocationStage(b, doc, key, rcpt, pass)
  BY <1>2 DEF Node
<1>. HIDE DEF b, doc
<1>4. rcpt = CurrentReceipt
  <2>1. receipt = [at |-> Created, key |-> First("registry")]
    BY CurrentEvidence
  <2>2. receipt # NoReceipt /\ receipt.at = Created /\ receipt.key = First("registry")
    BY <2>1 DEF NoReceipt, Created, NoTime
  <2>. QED
    BY <1>1, <2>2 DEF ReceiptStage, CurrentReceipt
<1>5. key = [status |-> "resolved", current |-> TRUE]
  BY <1>1 DEF Located
<1>6. KeyStage(key, rcpt, pass) = "current"
  BY <1>5 DEF KeyStage
<1>7. Fingerprint(key, rcpt) = SignedWith
  BY <1>5 DEF Fingerprint
<1>8. ASSUME NEW rev \in revocations
      PROVE  /\ ~Unevaluable(rev, b, doc, pass)
             /\ Verified(rev, doc, pass) <=>
                  /\ rev.signer # rev.says.revoked
                  /\ RegistryAttested(rev) \/ rev.says.controller = rev.says.agent
                  /\ q = Latest \/ rev.when <= q
  <2>1. /\ rev.receipt # NoReceipt /\ rev.receipt.key = First("registry")
        /\ rev.receipt.at = rev.when /\ rev.signer # Keyless
        /\ rev.says.agent \in Actors => rev.signer = First(rev.says.agent)
    BY CurrentEvidence
  <2>2. rev.when \in Nat /\ rev.says.agent \in Agents
    BY StatementsAssumption DEF NodeInv, RevocationInv, Revocation
  <2>3. LET stage == ReceiptStage(rev.receipt, doc["registry"])
        IN  stage.value = "ok" /\ stage.at = rev.when
    BY <1>1, <2>1 DEF ReceiptStage
  <2>4. SignerKey(rev, doc, pass).status = "resolved"
    <3>1. CASE rev.says.agent = "stranger"
      BY <3>1 DEF SignerKey
    <3>2. CASE rev.says.agent \in Actors
      BY <1>1, <2>1, <3>2 DEF SignerKey, Located, Actors
    <3>. QED
      BY <2>2, <3>1, <3>2 DEF Agents
  <2>5. DatedIn(ReceiptStage(rev.receipt, doc["registry"]), pass) <=> (q = Latest \/ rev.when <= q)
    BY <2>2, <2>3 DEF DatedIn, Admits, NoTime
  <2>. QED
    BY <2>1, <2>3, <2>4, <2>5 DEF Verified, Unevaluable
<1>9. Applicable(b, SignedWith, doc, pass) = Counting(q)
  BY <1>2, <1>8 DEF Applicable, Counting
<1>. HIDE DEF key, rcpt
<1>10. RevocationStage(b, doc, key, rcpt, pass) =
         IF Counting(q) # {} THEN Placed(CurrentReceipt, Counting(q)) ELSE Discovery(b, pass)
  BY <1>2, <1>4, <1>7, <1>8, <1>9 DEF RevocationStage
<1>. QED
  BY <1>3, <1>4, <1>6, <1>10 DEF b

-----------------------------------------------------------------------------
(* The horizon *)

\* No evidence is dated after the horizon.
LEMMA HorizonCovers ==
  ASSUME NodeInv, lag = 0, NEW x \in EvidenceTimes(Evidence)
  PROVE  x \in Nat /\ x <= Horizon(Evidence) /\ Horizon(Evidence) \in Nat
<1>. DEFINE b == Evidence
            S == EvidenceTimes(b)
<1>1. WorldInv /\ now \in Nat /\ Created \in Nat /\ Created <= now
  BY DEF NodeInv, WorldInv, TypeInv, Created
<1>2. ASSUME NEW r \in DatedReceipts(b) PROVE r.at \in Nat /\ r.at <= now
  <2>1. r # NoReceipt /\ r \in {receipt} \cup {rev.receipt : rev \in revocations}
    BY DEF DatedReceipts, ReceiptStage, Evidence
  <2>2. CASE r = receipt
    BY <1>1, <2>1, <2>2 DEF NodeInv
  <2>3. CASE \E rev \in revocations : r = rev.receipt
    <3>1. PICK rev \in revocations : r = rev.receipt
      BY <2>3
    <3>2. r.at = rev.when /\ rev.when \in Nat /\ rev.when <= now
      BY <2>1, <3>1 DEF NodeInv, RevocationInv, Revocation
    <3>. QED
      BY <3>2
  <2>. QED
    BY <2>1, <2>2, <2>3
<1>3. ASSUME NEW y \in AcceptanceTimes(b) \ {NoTime} PROVE y \in Nat /\ y <= now
  <2>1. PICK i \in DOMAIN bundle.events : y = EventChecks(b, LatestPass)[i].acceptedAt
    BY DEF AcceptanceTimes, Evidence
  <2>2. y = bundle.events[i].when
    BY <1>1, <2>1, ChecksAreMonotonic DEF Evidence
  <2>. QED
    BY <1>1, <2>2, Members DEF WorldInv, EventsInOrder, Event
<1>4. \A s \in b.searches : s.at \in Nat /\ s.at <= now
  BY DEF NodeInv, Search, Evidence
<1>5. \A y \in ObservationTimes(b) : y \in Nat /\ y <= now
  <2>1. \A actor \in Actors : \A i \in DOMAIN b.archive[actor] :
          b.archive[actor][i].at \in Nat /\ b.archive[actor][i].at <= now
    BY <1>1, Members DEF WorldInv, InOrder, Snapshot, Evidence
  <2>2. ASSUME NEW y \in ObservationTimes(b)
        PROVE  \E actor \in Actors : \E i \in DOMAIN b.archive[actor] : y = b.archive[actor][i].at
    BY <2>2 DEF ObservationTimes, Range
  <2>. QED
    BY <2>1, <2>2
<1>6. \A y \in S : y \in Nat /\ y <= now
  BY <1>2, <1>3, <1>4, <1>5 DEF EvidenceTimes
<1>. HIDE DEF S
<1>7. PICK m \in S : \A k \in S : k <= m
  BY <1>1, <1>6, GreatestNatural DEF S
<1>8. \A k \in S : m >= k
  BY <1>6, <1>7
<1>9. Max(S) \in S /\ \A k \in S : Max(S) >= k
  BY <1>8 DEF Max
<1>10. Horizon(b) = Max(S)
  BY DEF Horizon, S
<1>. QED
  BY <1>6, <1>9, <1>10 DEF S, b

-----------------------------------------------------------------------------
(* What drifts *)

\* At the horizon or later both passes say the same of the context, if the as-of pass sees
\* a document of everyone whom the other sees a document of.
LEMMA NothingDrifts ==
  ASSUME NodeInv, DatedAndCurrent, NEW t \in Created..now, Horizon(Evidence) <= t,
         Unseen(t) = {}
  PROVE  DriftKinds(Evidence, t) = {}
<1>. DEFINE b == Evidence
            pass == [asOf |-> t, required |-> TRUE]
            es == bundle.events
            then == Node(b, pass).stages
            last == Node(b, LatestPass).stages
<1>1. t \in Nat /\ now \in Nat /\ lag = 0 /\ WorldInv
  BY CurrentEvidence DEF NodeInv, WorldInv, TypeInv, Created
<1>2. \A x \in EvidenceTimes(b) : x \in Nat /\ x <= t
  <2>1. ASSUME NEW x \in EvidenceTimes(b) PROVE x \in Nat /\ x <= t
    BY <1>1, <1>1, CurrentEvidence, HorizonCovers
  <2>. QED
    BY <2>1
<1>3. ASSUME NEW actor \in Actors PROVE Chosen(bundle.archive[actor], Latest) # {}
  <2>1. Selected(bundle.archive[actor], Latest).current = First(actor)
    BY CurrentEvidence DEF Docs, LatestPass, Evidence, Actors
  <2>. QED
    BY <2>1, FirstKey DEF Selected, NoDocument
<1>4. ASSUME NEW actor \in Actors
      PROVE  \E i \in DOMAIN bundle.archive[actor] : Admits(bundle.archive[actor][i].at, t)
  <2>. DEFINE s == bundle.archive[actor]
  <2>1. s # <<>> /\ \A i \in DOMAIN s : s[i].at \in Nat
    BY <1>1, <1>3, Members DEF Chosen, Snapshot
  <2>2. PICK i \in DOMAIN s : ~(s[i].at > t)
    BY <2>1 DEF Unseen
  <2>3. s[i].at <= t
    BY <1>1, <2>1, <2>2
  <2>. QED
    BY <2>1, <2>3 DEF Admits, NoTime
<1>5. InUse(Docs(b, pass)) /\ InUse(Docs(b, LatestPass))
  <2>1. ASSUME NEW actor \in Actors PROVE Chosen(bundle.archive[actor], t) # {}
    <3>1. bundle.archive[actor] \in Seq(Snapshot(Nat)) /\ InOrder(bundle.archive[actor])
      BY <1>1 DEF WorldInv, TypeInv
    <3>. QED
      BY <1>4, <3>1, ChosenExists
  <2>. QED
    BY <1>1, <1>3, <2>1, InUseThen DEF LatestPass
<1>6. /\ then.key = "current" /\ then.receipt = CurrentReceipt
      /\ last.key = "current" /\ last.receipt = CurrentReceipt
      /\ then.revocation = IF Counting(t) # {} THEN Placed(CurrentReceipt, Counting(t))
                           ELSE Discovery(b, pass)
      /\ last.revocation = IF Counting(Latest) # {} THEN Placed(CurrentReceipt, Counting(Latest))
                           ELSE Discovery(b, LatestPass)
  BY <1>1, <1>5, RevocationInUse DEF LatestPass
<1>7. ASSUME NEW i \in DOMAIN es PROVE es[i].when <= t
  <2>1. es[i].when # NoTime /\ es[i].when = EventChecks(b, LatestPass)[i].acceptedAt
    BY <1>5, AllAttested
  <2>2. es[i].when \in EvidenceTimes(b)
    BY <2>1 DEF EvidenceTimes, AcceptanceTimes, Evidence
  <2>. QED
    BY <1>2, <2>2
<1>8. ASSUME NEW rev \in revocations PROVE rev.when <= t
  <2>1. rev.receipt # NoReceipt /\ rev.receipt.key = First("registry") /\ rev.receipt.at = rev.when
    BY CurrentEvidence
  <2>2. First("registry") \in Docs(b, LatestPass)["registry"].methods
    BY <1>5 DEF InUse, Actors
  <2>3. rev.receipt \in DatedReceipts(b)
    BY <2>1, <2>2 DEF DatedReceipts, ReceiptStage, Evidence
  <2>4. rev.when \in EvidenceTimes(b)
    BY <2>1, <2>3 DEF EvidenceTimes
  <2>. QED
    BY <1>2, <2>4
<1>9. Discovery(b, pass) = Discovery(b, LatestPass)
  <2>1. \A s \in b.searches : Admits(s.at, t) /\ Admits(s.at, Latest)
    BY <1>2 DEF EvidenceTimes, Admits, NoTime
  <2>2. {s \in b.searches : Admits(s.at, pass.asOf)} = {s \in b.searches : Admits(s.at, LatestPass.asOf)}
    BY <2>1 DEF LatestPass
  <2>. QED
    BY <2>2 DEF Discovery
<1>10. Counting(t) = Counting(Latest)
  BY <1>8 DEF Counting
<1>11. then.retraction = last.retraction
  <2>1. PICK n \in 0..Len(es) :
          /\ \A i \in DOMAIN es : i <= n <=> (t = Latest \/ es[i].when <= t)
          /\ Retraction(b, pass).value = IF RetractedAfter(es, n) THEN "retracted" ELSE "not_retracted"
    BY <1>1, <1>5, RetractionInUse
  <2>2. PICK m \in 0..Len(es) :
          /\ \A i \in DOMAIN es : i <= m <=> (Latest = Latest \/ es[i].when <= Latest)
          /\ Retraction(b, LatestPass).value =
               IF RetractedAfter(es, m) THEN "retracted" ELSE "not_retracted"
    BY <1>5, RetractionInUse DEF LatestPass
  <2>3. es \in Seq(Event) /\ DOMAIN es = 1..Len(es) /\ Len(es) \in Nat
    BY <1>1 DEF WorldInv, TypeInv
  <2>4. n = m
    <3>1. \A i \in DOMAIN es : i <= n
      BY <1>7, <2>1
    <3>2. \A i \in DOMAIN es : i <= m
      BY <2>2
    <3>3. n \in 0..Len(es) /\ m \in 0..Len(es)
      OBVIOUS
    <3>. HIDE DEF es
    <3>4. Len(es) \in Nat /\ (Len(es) = 0 \/ Len(es) \in DOMAIN es)
      BY <2>3
    <3>5. n <= Len(es) /\ m <= Len(es) /\ n \in Nat /\ m \in Nat
      BY <3>3, <3>4
    <3>6. Len(es) <= n /\ Len(es) <= m
      BY <3>1, <3>2, <3>4, <3>5
    <3>. QED
      BY <3>4, <3>5, <3>6
  <2>. QED
    BY <2>1, <2>2, <2>4 DEF Node
<1>12. Node(b, pass) = Node(b, LatestPass)
  <2>1. then = last
    <3>1. /\ then = [key |-> then.key, receipt |-> then.receipt,
                     revocation |-> then.revocation, retraction |-> then.retraction]
          /\ last = [key |-> last.key, receipt |-> last.receipt,
                     revocation |-> last.revocation, retraction |-> last.retraction]
      BY DEF Node
    <3>2. then.revocation = last.revocation
      BY <1>6, <1>9, <1>10
    <3>. QED
      BY <1>6, <1>11, <3>1, <3>2
  <2>2. ASSUME NEW s, s.receipt = CurrentReceipt PROVE Caveats(s, pass) = Caveats(s, LatestPass)
    <3>1. s.receipt.value = "ok"
      BY <2>2 DEF CurrentReceipt
    <3>2. \A c : c \in Caveats(s, pass) <=> c \in Caveats(s, LatestPass)
      BY <3>1 DEF Caveats
    <3>3. \A c : c \in Caveats(s, pass) => c \in {"undated", "identity_unbound", "historical_key",
                       "pre_compromise", "historical_receipt_key", "retracted"}
      BY DEF Caveats
    <3>. QED
      BY <3>2
  <2>3. /\ Node(b, pass) = [stages |-> then, verdict |-> Verdict(then), caveats |-> Caveats(then, pass)]
        /\ Node(b, LatestPass) =
             [stages |-> last, verdict |-> Verdict(last), caveats |-> Caveats(last, LatestPass)]
    BY DEF Node
  <2>. QED
    BY <1>6, <2>1, <2>2, <2>3
<1>13. StageDrifts(b, t, then, then) = {}
  <2>1. ~Backdated(b, t)
    <3>1. \A i \in DOMAIN es : EventChecks(b, LatestPass)[i].acceptedAt = es[i].when /\ es[i].when \in Nat
      BY <1>1, <1>5, AllAttested, Members DEF Event
    <3>. QED
      BY <1>1, <1>7, <3>1 DEF Backdated, Evidence
  <2>2. ~ReceiptUnprovable(b, t)
    BY <1>4 DEF ReceiptUnprovable, Evidence, Actors
  <2>3. then.key # "unknown"
    BY <1>6
  <2>. HIDE DEF then
  <2>. QED
    BY <2>1, <2>2, <2>3 DEF StageDrifts
<1>14. /\ DriftKinds(b, t) = OrChanged(StageDrifts(b, t, then, last),
                                      Full(Node(b, pass)) # Full(Node(b, LatestPass)))
  BY DEF DriftKinds, DriftBetween, NodeAt, LatestPass
<1>. QED
  BY <1>12, <1>13, <1>14 DEF OrChanged

\* Where a pass lacks no evidence, what it says has come after T did.
LEMMA DriftCameLater ==
  ASSUME NodeInv, DatedAndCurrent, NEW t \in Created..now
  PROVE  CameLater(DriftKinds(Evidence, t), t)
<1>. DEFINE b == Evidence
            pass == [asOf |-> t, required |-> TRUE]
            es == bundle.events
            then == Node(b, pass).stages
            last == Node(b, LatestPass).stages
            kinds == DriftKinds(b, t)
            later(type) == \E i \in DOMAIN es : es[i].type = type /\ es[i].when > t
<1>1. t \in Nat /\ WorldInv /\ es \in Seq(Event)
  BY DEF NodeInv, WorldInv, TypeInv, Created
<1>2. /\ NodeAt(b, t).stages = then
      /\ kinds = OrChanged(StageDrifts(b, t, then, last), Full(Node(b, pass)) # Full(Node(b, LatestPass)))
  BY DEF DriftKinds, DriftBetween, NodeAt, LatestPass
<1>. SUFFICES ASSUME "as_of_unprovable" \notin kinds, then.key # "unknown"
              PROVE  /\ "retracted_after_as_of" \in kinds => later("retracted")
                     /\ "republished_after_as_of" \in kinds => later("republished")
                     /\ "revoked_after_as_of" \in kinds => \E rev \in revocations : rev.when > t
  BY <1>2 DEF CameLater
<1>3. /\ ~ReceiptUnprovable(b, t)
      /\ "retracted_after_as_of" \in kinds => last.retraction = "retracted" /\ then.retraction # "retracted"
      /\ "republished_after_as_of" \in kinds =>
           then.retraction = "retracted" /\ last.retraction = "not_retracted"
      /\ "revoked_after_as_of" \in kinds => last.revocation \in Refusing /\ then.revocation \notin Refusing
  <2>. HIDE DEF then, last, b
  <2>1. \A k : k \in kinds => k = "verdict_changed" \/ k \in StageDrifts(b, t, then, last)
    BY <1>2 DEF OrChanged
  <2>2. "as_of_unprovable" \notin StageDrifts(b, t, then, last)
    BY <1>2 DEF OrChanged
  <2>3. ~ReceiptUnprovable(b, t)
    BY <2>2 DEF StageDrifts
  <2>4. "retracted_after_as_of" \in StageDrifts(b, t, then, last) =>
          last.retraction = "retracted" /\ then.retraction # "retracted"
    BY DEF StageDrifts
  <2>5. "republished_after_as_of" \in StageDrifts(b, t, then, last) =>
          then.retraction = "retracted" /\ last.retraction = "not_retracted"
    BY DEF StageDrifts
  <2>6. "revoked_after_as_of" \in StageDrifts(b, t, then, last) =>
          last.revocation \in Refusing /\ then.revocation \notin Refusing
    BY DEF StageDrifts
  <2>. HIDE DEF kinds
  <2>. QED
    BY <2>1, <2>3, <2>4, <2>5, <2>6
<1>4. \A actor \in Actors : Chosen(bundle.archive[actor], Latest) # {}
  <2>1. ASSUME NEW actor \in Actors PROVE Chosen(bundle.archive[actor], Latest) # {}
    <3>1. Selected(bundle.archive[actor], Latest).current = First(actor)
      BY CurrentEvidence DEF Docs, LatestPass, Evidence, Actors
    <3>. QED
      BY <3>1, FirstKey DEF Selected, NoDocument
  <2>. QED
    BY <2>1
<1>5. Chosen(bundle.archive["registry"], t) # {}
  <2>. DEFINE s == bundle.archive["registry"]
  <2>1. s \in Seq(Snapshot(Nat)) /\ InOrder(s)
    BY <1>1 DEF WorldInv, TypeInv, Actors
  <2>2. s # <<>>
    BY <1>4 DEF Chosen, Actors
  <2>3. receipt # NoReceipt
    BY DEF DatedAndCurrent
  <2>4. \E i \in DOMAIN s : Admits(s[i].at, t)
    BY <1>3, <2>2, <2>3 DEF ReceiptUnprovable, Evidence
  <2>. QED
    BY <2>1, <2>4, ChosenExists
<1>6. Chosen(bundle.archive["producer"], t) # {}
  <2>. DEFINE doc == Docs(b, pass)
              key == Located(SignedWith, doc["producer"], pass)
              rcpt == ReceiptStage(b.receipt, doc["registry"])
  <2>1. then.key = KeyStage(key, rcpt, pass) /\ doc["producer"] = Selected(bundle.archive["producer"], t)
    BY DEF Node, Docs, Evidence
  <2>2. ~IsLatest(pass)
    BY <1>1 DEF IsLatest, Latest
  <2>. HIDE DEF doc, rcpt, then
  <2>3. key.status # "unknown"
    BY <2>1 DEF KeyStage
  <2>. HIDE DEF pass
  <2>4. SignedWith \in doc["producer"].methods
    BY <2>2, <2>3 DEF Located
  <2>. QED
    BY <2>1, <2>4 DEF Selected, NoDocument
<1>7. InUse(Docs(b, pass)) /\ InUse(Docs(b, LatestPass))
  <2>1. \A actor \in Actors : Chosen(bundle.archive[actor], t) # {}
    BY <1>5, <1>6 DEF Actors
  <2>. QED
    BY <1>1, <1>4, <2>1, InUseThen DEF LatestPass
<1>8. PICK n \in 0..Len(es) :
        /\ \A i \in DOMAIN es : i <= n <=> (t = Latest \/ es[i].when <= t)
        /\ Retraction(b, pass).value = IF RetractedAfter(es, n) THEN "retracted" ELSE "not_retracted"
  BY <1>1, <1>7, RetractionInUse
<1>9. PICK m \in 0..Len(es) :
        /\ \A i \in DOMAIN es : i <= m <=> (Latest = Latest \/ es[i].when <= Latest)
        /\ Retraction(b, LatestPass).value = IF RetractedAfter(es, m) THEN "retracted" ELSE "not_retracted"
  BY <1>7, RetractionInUse DEF LatestPass
<1>10. /\ then.retraction = IF RetractedAfter(es, n) THEN "retracted" ELSE "not_retracted"
       /\ last.retraction = IF RetractedAfter(es, m) THEN "retracted" ELSE "not_retracted"
  BY <1>8, <1>9 DEF Node
<1>11. /\ DOMAIN es = 1..Len(es) /\ Len(es) \in Nat /\ \A i \in DOMAIN es : es[i].when \in Nat
       /\ \A i \in DOMAIN es : i <= m
       /\ \A i \in DOMAIN es : i > n => es[i].when > t
  <2>1. DOMAIN es = 1..Len(es) /\ Len(es) \in Nat /\ \A i \in DOMAIN es : es[i].when \in Nat
    BY <1>1, Members DEF Event
  <2>2. \A i \in DOMAIN es : i <= m
    BY <1>9
  <2>3. \A i \in DOMAIN es : i <= n <=> es[i].when <= t
    BY <1>1, <1>8 DEF Latest
  <2>. HIDE DEF es
  <2>. QED
    BY <1>1, <2>1, <2>2, <2>3
<1>. HIDE DEF es
<1>12. n \in Nat /\ n <= Len(es) /\ m \in Nat /\ m <= Len(es)
  BY <1>11
<1>13. ASSUME RetractedAfter(es, m), ~RetractedAfter(es, n) PROVE later("retracted")
  <2>1. PICK i \in 1..m : es[i].type = "retracted" /\ \A j \in (i + 1)..m : es[j].type # "republished"
    BY <1>13 DEF RetractedAfter
  <2>2. i \in DOMAIN es /\ i \in Nat
    BY <1>11, <1>12
  <2>3. i > n
    <3>. SUFFICES ASSUME i <= n PROVE FALSE
      BY <1>12, <2>2
    <3>1. \A j \in (i + 1)..n : j \in (i + 1)..m
      BY <1>11, <1>12, <2>2
    <3>2. i \in 1..n
      BY <1>12, <2>1
    <3>. QED
      BY <1>13, <2>1, <3>1, <3>2 DEF RetractedAfter
  <2>. QED
    BY <1>11, <2>1, <2>2, <2>3
<1>14. ASSUME RetractedAfter(es, n), ~RetractedAfter(es, m) PROVE later("republished")
  <2>1. PICK i \in 1..n : es[i].type = "retracted" /\ \A j \in (i + 1)..n : es[j].type # "republished"
    BY <1>14 DEF RetractedAfter
  <2>2. i \in DOMAIN es /\ i \in 1..m
    BY <1>11, <1>12
  <2>3. PICK j \in (i + 1)..m : es[j].type = "republished"
    BY <1>14, <2>1, <2>2 DEF RetractedAfter
  <2>4. j \in DOMAIN es /\ j > n
    BY <1>11, <1>12, <2>1, <2>2, <2>3
  <2>. QED
    BY <1>11, <2>3, <2>4
<1>15. ASSUME last.revocation \in Refusing, then.revocation \notin Refusing
       PROVE  \E rev \in revocations : rev.when > t
  <2>. SUFFICES ASSUME \A rev \in revocations : ~(rev.when > t) PROVE FALSE
    OBVIOUS
  <2>1. \A rev \in revocations : rev.when <= t
    <3>1. \A rev \in revocations : rev.when \in Nat
      BY DEF NodeInv, RevocationInv, Revocation
    <3>. QED
      BY <1>1, <3>1
  <2>2. Counting(t) = Counting(Latest)
    BY <2>1 DEF Counting
  <2>3. /\ then.revocation = IF Counting(t) # {} THEN Placed(CurrentReceipt, Counting(t))
                             ELSE Discovery(b, pass)
        /\ last.revocation = IF Counting(Latest) # {} THEN Placed(CurrentReceipt, Counting(Latest))
                             ELSE Discovery(b, LatestPass)
    BY <1>1, <1>7, RevocationInUse DEF LatestPass
  <2>4. Discovery(b, LatestPass) \notin Refusing
    BY DEF Discovery, Refusing
  <2>. HIDE DEF then, last, b, pass
  <2>. QED
    BY <1>15, <2>2, <2>3, <2>4
<1>. HIDE DEF then, last, kinds, later
<1>. QED
  BY <1>3, <1>10, <1>13, <1>14, <1>15

LEMMA DriftsCameLater == NodeInv => DriftIsReal
<1>. SUFFICES ASSUME NodeInv, DatedAndCurrent, NEW t \in Created..now
              PROVE  KindsAreReal(DriftKinds(Evidence, t), t)
  BY DEF DriftIsReal
<1>. QED
  BY NothingDrifts, DriftCameLater DEF KindsAreReal

-----------------------------------------------------------------------------
(* Theorems *)

\* Type correctness of the evidence, and of what the latest pass and the as-of pass of
\* the moment say of the context: a key is unresolvable only in the first and unknown
\* only in the other, and only a receipt under a current key places the context.
THEOREM NodeTypeCorrect == NodeSpec => []NodeTypeOK
  BY NodeType, NodeAlways, PTL

\* An as-of node is final, for any keys, statements, searches and bounds: no evidence
\* that comes after T changes what is said of the context as of T.
THEOREM AsOfNodeIsFinal == NodeSpec => []NodeIsFinal
  BY PastNodeIsFinal, NodeAlways, PTL

\* A context that is refused for a revocation as of T is refused in every later pass,
\* however the keys rotate and the documents are observed, while those that signed the
\* evidence are kept.
THEOREM RefusalIsKept == NodeSpec => []RefusalHolds
  BY RefusalIsFinal, NodeAlways, PTL

\* Who does not speak for the producer, and the revoked key itself, change no node.
THEOREM HintsAreNoMore == NodeSpec => []HintsAreOnlyHints
  BY HintsDoNotCount, NodeAlways, PTL

\* Where all evidence is dated and its keys are in use, nothing drifts from the horizon on
\* unless all documents of somebody were pinned for later, and what is said to have come
\* after T did, also with events that are dated back.
THEOREM DriftsAreReal == DriftSpec => []DriftIsReal
  BY DriftsCameLater, DriftAlways, PTL

=============================================================================
