---------------------------- MODULE TaintedPaths ----------------------------
(***************************************************************************)
(* chain.py _shortest_paths: for every node, the shortest path from a      *)
(* root over the walk graph, ties broken lexicographically.  One step per  *)
(* edge looked at, in any order within a level.                            *)
(***************************************************************************)
EXTENDS Integers, Sequences

VARIABLES starts, edges   \* roots and edges of the walk graph, which this part only reads

VARIABLES
  best,        \* the path found for each node reached
  ring,        \* the nodes reached last
  candidates,  \* the best path so far to each node of the next ring
  looked       \* edges looked at in this ring

vars == <<best, ring, candidates, looked>>

Before(p, q) ==
  \E i \in DOMAIN p : p[i] < q[i] /\ \A j \in 1..(i - 1) : p[j] = q[j]

Set(f, n, p) == [m \in DOMAIN f \cup {n} |-> IF m = n THEN p ELSE f[m]]

Init ==
  /\ best = [r \in starts |-> <<r>>]
  /\ ring = starts
  /\ candidates = [n \in {} |-> <<>>]
  /\ looked = {}

OutOfRing == {e \in edges : e[1] \in ring}

\* Faulty variant: the first path found stands.
ImprovesOnlyNothing(n, p) == n \notin DOMAIN candidates

Improves(n, p) == n \notin DOMAIN candidates \/ Before(p, candidates[n])
LookAlong(e) ==
  /\ e \notin looked
  /\ looked' = looked \cup {e}
  /\ LET path == Append(best[e[1]], e[2])
     IN  candidates' = IF e[2] \notin DOMAIN best /\ Improves(e[2], path)
                       THEN Set(candidates, e[2], path) ELSE candidates
  /\ UNCHANGED <<best, ring>>

\* best.update(candidates); level = list(candidates)
NextRing ==
  /\ ring # {} /\ looked = OutOfRing
  /\ best' = [n \in DOMAIN best \cup DOMAIN candidates |->
                IF n \in DOMAIN candidates THEN candidates[n] ELSE best[n]]
  /\ ring' = DOMAIN candidates
  /\ candidates' = [n \in {} |-> <<>>]
  /\ looked' = {}

Finished == ring = {}

Next == (\E e \in OutOfRing : LookAlong(e)) \/ NextRing

\* Reference: a path of the walk graph from a root.
IsPath(p) ==
  /\ p[1] \in starts
  /\ \A i \in 1..(Len(p) - 1) : <<p[i], p[i + 1]>> \in edges
=============================================================================
