----------------------------- MODULE MCNodePass -----------------------------
EXTENDS NodePass

MCKeys == [actor \in Actors |-> IF actor = "producer" THEN {1, 2} ELSE {3, 4}]
MCSnapshots == [actor \in Actors |-> IF actor = "producer" THEN 2 ELSE 1]
Says(agent, controller, since) ==
  [agent |-> agent, controller |-> controller, revoked |-> 1, since |-> since]
MCStatements ==
  {Says("producer", "producer", 1), Says("registry", "producer", 2),
   Says("stranger", "stranger", 1)}
=============================================================================
