----------------------------- MODULE CycleNodes -----------------------------
(***************************************************************************)
(* Tarjan's algorithm as chain.py _cycle_nodes runs it, with an explicit   *)
(* work stack: which nodes of the walk graph lie on a directed cycle.      *)
(* Starts and successors are taken in any order: the result must not       *)
(* depend on it.                                                           *)
(***************************************************************************)
EXTENDS Integers, FiniteSets, SequencesExt

VARIABLES nodes, edges   \* the walk graph, which this part only reads

VARIABLES
  index,   \* discovery order of the nodes met so far
  low,
  stack,   \* nodes whose component is not known yet
  work,    \* [node, seen]: the nodes being explored, with the successors looked at
  cyclic   \* the result

vars == <<index, low, stack, work, cyclic>>

Succ(n) == {m \in nodes : <<n, m>> \in edges}
Met == DOMAIN index
Top == Last(work)
Smaller(a, b) == IF a < b THEN a ELSE b

Init ==
  /\ index = [n \in {} |-> 0] /\ low = [n \in {} |-> 0]
  /\ stack = <<>> /\ work = <<>> /\ cyclic = {}

StartAt(n) ==
  /\ work = <<>>
  /\ work' = <<[node |-> n, seen |-> {}]>>
  /\ UNCHANGED <<index, low, stack, cyclic>>

\* The node on top is met for the first time (i = 0).
Meet ==
  /\ work # <<>> /\ Top.node \notin Met
  /\ LET number(f) == [n \in Met \cup {Top.node} |-> IF n = Top.node THEN Cardinality(Met)
                                                     ELSE f[n]]
     IN  index' = number(index) /\ low' = number(low)
  /\ stack' = Append(stack, Top.node)
  /\ UNCHANGED <<work, cyclic>>

\* Faulty variant: a child whose component is already known lowers the node too.
LookAtAny(child) ==
  /\ Top.node \in Met /\ child \notin Top.seen
  /\ LET looked == [work EXCEPT ![Len(work)].seen = @ \cup {child}]
     IN  work' = IF child \in Met THEN looked
                 ELSE Append(looked, [node |-> child, seen |-> {}])
  /\ low' = IF child \in Met THEN [low EXCEPT ![Top.node] = Smaller(@, index[child])] ELSE low
  /\ UNCHANGED <<index, stack, cyclic>>

LookAt(child) ==
  /\ Top.node \in Met /\ child \notin Top.seen
  /\ LET looked == [work EXCEPT ![Len(work)].seen = @ \cup {child}]
     IN  work' = IF child \in Met THEN looked
                 ELSE Append(looked, [node |-> child, seen |-> {}])
  /\ low' = IF child \in Met /\ child \in ToSet(stack)
            THEN [low EXCEPT ![Top.node] = Smaller(@, index[child])] ELSE low
  /\ UNCHANGED <<index, stack, cyclic>>

\* The stack is popped down to n: the component of n.
PlaceOf(n) == CHOOSE i \in DOMAIN stack : stack[i] = n
Component(n) == {stack[i] : i \in PlaceOf(n)..Len(stack)}

\* All successors looked at: the component is closed, and the parent hears of low.
Return ==
  /\ work # <<>> /\ Top.node \in Met /\ Top.seen = Succ(Top.node)
  /\ LET n == Top.node
         closes == low[n] = index[n]
         rest == Front(work)
     IN  /\ stack' = IF closes THEN SubSeq(stack, 1, PlaceOf(n) - 1) ELSE stack
         /\ cyclic' = IF closes /\ (Cardinality(Component(n)) > 1 \/ n \in Succ(n))
                      THEN cyclic \cup Component(n) ELSE cyclic
         /\ work' = rest
         /\ low' = IF rest = <<>> THEN low
                   ELSE [low EXCEPT ![Last(rest).node] = Smaller(@, low[n])]
  /\ UNCHANGED index

Finished == work = <<>> /\ Met = nodes

Next ==
  \/ \E n \in nodes \ Met : StartAt(n)
  \/ Meet
  \/ work # <<>> /\ \E child \in Succ(Top.node) : LookAt(child)
  \/ Return

\* Reference: every set that holds n's successors and their successors holds n.
OnCycle(n) ==
  \A S \in SUBSET nodes :
    (Succ(n) \subseteq S /\ \A m \in S : Succ(m) \subseteq S) => n \in S
=============================================================================
