----------------------------- MODULE ChainGraph -----------------------------
(***************************************************************************)
(* The graph part of verify_chain: the walk, then which nodes lie on a     *)
(* cycle of the walk graph, then the tainted path of every node, each the  *)
(* input of the next.                                                      *)
(***************************************************************************)
EXTENDS ChainWalk

VARIABLES
  index, low, stack, work, cyclic,   \* CycleNodes
  best, ring, candidates, looked     \* TaintedPaths

cycleVars == <<index, low, stack, work, cyclic>>
pathVars == <<best, ring, candidates, looked>>
allVars == <<vars, cycleVars, pathVars>>

Cycles == INSTANCE CycleNodes WITH nodes <- Walked
Paths == INSTANCE TaintedPaths WITH starts <- roots

GraphInit == Init /\ Cycles!Init /\ Paths!Init

FindCycles ==
  /\ phase = "done" /\ ~Cycles!Finished
  /\ Cycles!Next
  /\ UNCHANGED <<vars, pathVars>>

FindPaths ==
  /\ phase = "done" /\ Cycles!Finished
  /\ Paths!Next
  /\ UNCHANGED <<vars, cycleVars>>

GraphNext == (Next /\ UNCHANGED <<cycleVars, pathVars>>) \/ FindCycles \/ FindPaths

GraphSpec == GraphInit /\ [][GraphNext]_allVars /\ WF_allVars(GraphNext)

Done == phase = "done" /\ Cycles!Finished /\ Paths!Finished

-----------------------------------------------------------------------------
(* Properties *)

\* The nodes reported as cyclic are exactly those on a cycle of the walk graph.
CyclesAreFound ==
  phase = "done" /\ Cycles!Finished => cyclic = {n \in Walked : Cycles!OnCycle(n)}

\* Every walked node has a path, so no refused node escapes tainted_paths; the path
\* is one of the walk graph, as long as the node is deep, and the first among those.
PathsAreShortest ==
  Done =>
    \A n \in Walked :
      /\ n \in DOMAIN best
      /\ Len(best[n]) = depth[n] + 1 /\ best[n][Len(best[n])] = n
      /\ Paths!IsPath(best[n])
      /\ \A p \in [1..Len(best[n]) -> Walked] :
           Paths!IsPath(p) /\ p[Len(p)] = n => ~Paths!Before(p, best[n])

\* When no limit hid a reference, a complete walk sees every cycle of the bundle:
\* a node that derives from itself through the bundle is reported as cyclic.
Unhidden ==
  \A n \in Walked : Present(n) /\ refs[n] # <<>> =>
    depth[n] < limits.max_depth /\ Len(refs[n]) <= limits.max_fanout
BundleClosed(S) == \A m \in S \cap DOMAIN refs : \A i \in DOMAIN refs[m] : refs[m][i] \in S
NoCycleEscapes ==
  Done /\ Complete /\ Unhidden =>
    \A n \in Walked \cap DOMAIN refs :
      (\A S \in SUBSET Nodes :
         BundleClosed(S) /\ (\A i \in DOMAIN refs[n] : refs[n][i] \in S) => n \in S)
      => n \in cyclic

\* The walk and both searches end, whatever cycles the bundle holds.
Ends == <>Done
=============================================================================
