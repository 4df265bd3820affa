------------------------------ MODULE MCPasses ------------------------------
(***************************************************************************)
(* The passes over three worlds that differ in what happens in them:       *)
(* revocations and searches, a little of each, or many events.  A behaviour *)
(* has one of them, and every property is asked of it: none depends on the *)
(* constants in which the worlds differ but for the first key of an actor, *)
(* which is that of MCKeys wherever there is a receipt.                    *)
(***************************************************************************)
EXTENDS MCNodePass, ChainDrift

VARIABLE subject

\* Two events over three moments, while the producer rotates its key.
EventKeys == [actor \in Actors |-> IF actor = "producer" THEN {1, 2} ELSE {1}]
WithEvents ==
  INSTANCE LifecyclePass WITH Keys <- EventKeys,
    MaxEvents <- 2, MaxTime <- 3, Pins <- {FALSE}

\* A little of each, under keys that stay.
SteadyKeys == [actor \in Actors |-> IF actor = "producer" THEN {1} ELSE {3}]
OneDocument == [actor \in Actors |-> 1]
WithAll ==
  INSTANCE ChainDrift WITH Keys <- SteadyKeys, Types <- {"retracted", "republished"},
    MaxEvents <- 2, MaxSnapshots <- OneDocument, Pins <- {FALSE, TRUE}, MaxFound <- 1

\* Only what was retracted is republished.
RepublishesRetracted ==
  \A i \in DOMAIN bundle.events : bundle.events[i].type = "republished" => i > 1

\* In the world of revocations a snapshot is pinned only beside one that was observed.
PinnedBesideObserved ==
  \A actor \in Actors :
    LET s == bundle.archive[actor]
    IN  \A i \in DOMAIN s : s[i].pinned => \E j \in DOMAIN s : s[j].at = s[i].at /\ ~s[j].pinned

PassesInit ==
  \/ subject = "node" /\ NodeInit
  \/ subject = "drift" /\ WithAll!NodeInit
  \/ subject = "retraction" /\ WithEvents!Init /\ receipt = NoReceipt /\ revocations = {} /\ searches = {}

PassesNext ==
  \/ subject = "node" /\ NodeNext /\ PinnedBesideObserved' /\ UNCHANGED subject
  \/ subject = "drift" /\ WithAll!DriftNext /\ RepublishesRetracted' /\ UNCHANGED subject
  \/ subject = "retraction" /\ WithEvents!Next /\ UNCHANGED <<subject, receipt, revocations, searches>>

PassesSpec == PassesInit /\ [][PassesNext]_<<subject, nodeVars>>
=============================================================================
