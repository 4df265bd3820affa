-------------------------- MODULE MCLifecyclePass --------------------------
EXTENDS LifecyclePass

MCKeys == [actor \in Actors |-> IF actor = "producer" THEN {1, 2} ELSE {1}]
MCSnapshots == [actor \in Actors |-> IF actor = "producer" THEN 2 ELSE 1]
=============================================================================
