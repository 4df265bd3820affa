----------------------------- MODULE ChainWalk -----------------------------
(***************************************************************************)
(* The breadth-first walk of a derived_from graph under three limits       *)
(* (chain.py _walk, section 6.1), one step per root and per reference.     *)
(*                                                                         *)
(* A context is a natural number, ordered as its ctx_id's UTF-8 bytes are. *)
(* The list `order` of the code is the domain of `depth`: only its length  *)
(* and its members are ever used.                                          *)
(***************************************************************************)
EXTENDS Integers, FiniteSets, Sequences

CONSTANTS
  Nodes,    \* the ctx_ids that may occur
  Bodies,   \* the lists of references a context may carry, already made distinct
  Limits    \* the limits a caller may ask for

ASSUME NodesAssumption == Nodes \subseteq Nat
ASSUME BodiesAssumption == Bodies \subseteq Seq(Nodes)
ASSUME LimitsAssumption ==
  Limits \subseteq [max_depth : Nat, max_nodes : Nat \ {0}, max_fanout : Nat]

VARIABLES
  roots,    \* what the caller asks about
  refs,     \* the bundle: the references of each context it holds
  limits,
  phase,    \* "roots", "walk" or "done"
  waiting,  \* roots still to be taken
  depth,    \* the depth of every node walked so far
  edges,    \* walk-graph edges
  cuts,     \* (control, ctx_id) pairs in walk order
  level,    \* nodes of the current level still to be visited
  next,     \* nodes found for the next level
  current,  \* current_depth
  node,     \* the node being visited, or None
  at        \* place in its references

None == -1
input == <<roots, refs, limits>>
walk == <<phase, waiting, depth, edges, cuts, level, next, current, node, at>>
vars == <<input, walk>>

Walked == DOMAIN depth
Present(n) == n \in DOMAIN refs

Room == Cardinality(Walked) < limits.max_nodes
Ref == refs[node][at]
Visiting == node # None /\ at <= Len(refs[node])

WithDepth(n, d) == [m \in Walked \cup {n} |-> IF m = n THEN d ELSE depth[m]]

-----------------------------------------------------------------------------
(* The roots, smallest first *)

TakeRoot(r) ==
  /\ phase = "roots" /\ \A s \in waiting : r <= s
  /\ Room
  /\ depth' = WithDepth(r, 0)
  /\ waiting' = waiting \ {r}
  /\ UNCHANGED <<input, phase, edges, cuts, level, next, current, node, at>>

CutRoot(r) ==
  /\ phase = "roots" /\ \A s \in waiting : r <= s
  /\ ~Room
  /\ cuts' = Append(cuts, <<"max_nodes", r>>)
  /\ waiting' = waiting \ {r}
  /\ UNCHANGED <<input, phase, depth, edges, level, next, current, node, at>>

StartWalk ==
  /\ phase = "roots" /\ waiting = {}
  /\ phase' = "walk"
  /\ level' = Walked
  /\ UNCHANGED <<input, waiting, depth, edges, cuts, next, current, node, at>>

-----------------------------------------------------------------------------
(* One level, smallest node first *)

SkipAbsent(n) ==
  /\ phase = "walk" /\ node = None /\ \A m \in level : n <= m
  /\ ~Present(n)
  /\ level' = level \ {n}
  /\ UNCHANGED <<input, phase, waiting, depth, edges, cuts, next, current, node, at>>

EnterNode(n) ==
  /\ phase = "walk" /\ node = None /\ \A m \in level : n <= m
  /\ Present(n)
  /\ node' = n /\ at' = 1
  /\ UNCHANGED <<input, phase, waiting, depth, edges, cuts, level, next, current>>

LeaveNode ==
  /\ node # None /\ at > Len(refs[node])
  /\ level' = level \ {node}
  /\ node' = None /\ at' = 1
  /\ UNCHANGED <<input, phase, waiting, depth, edges, cuts, next, current>>

\* Faulty variant: what the fanout leaves out is passed over without a cut.
CutSilently(control) ==
  /\ cuts' = IF Ref \in Walked \/ control = "max_fanout" THEN cuts
             ELSE Append(cuts, <<control, Ref>>)
  /\ at' = at + 1
  /\ UNCHANGED <<input, phase, waiting, depth, edges, level, next, current, node>>

\* A reference the limit leaves out is cut, unless it was walked already.
Cut(control) ==
  /\ cuts' = IF Ref \in Walked THEN cuts ELSE Append(cuts, <<control, Ref>>)
  /\ at' = at + 1
  /\ UNCHANGED <<input, phase, waiting, depth, edges, level, next, current, node>>

\* Faulty variant: off by one at the depth limit.
DeeperByOne == current > limits.max_depth

AtMaxDepth == current >= limits.max_depth
PastFanout == at > limits.max_fanout

CutDepth == Visiting /\ AtMaxDepth /\ Cut("max_depth")

CutFanout == Visiting /\ ~AtMaxDepth /\ PastFanout /\ Cut("max_fanout")

\* Faulty variants: a reference to the context itself is looked at for ever; the join
\* leaves no edge.
JoinSelfForever ==
  /\ Visiting /\ ~AtMaxDepth /\ ~PastFanout
  /\ Ref \in Walked
  /\ edges' = edges \cup {<<node, Ref>>}
  /\ at' = IF Ref = node THEN at ELSE at + 1
  /\ UNCHANGED <<input, phase, waiting, depth, cuts, level, next, current, node>>
JoinWithoutEdge ==
  /\ Visiting /\ ~AtMaxDepth /\ ~PastFanout
  /\ Ref \in Walked
  /\ at' = at + 1
  /\ UNCHANGED <<input, phase, waiting, depth, edges, cuts, level, next, current, node>>

\* A DAG join, or an edge that closes a cycle.
Join ==
  /\ Visiting /\ ~AtMaxDepth /\ ~PastFanout
  /\ Ref \in Walked
  /\ edges' = edges \cup {<<node, Ref>>}
  /\ at' = at + 1
  /\ UNCHANGED <<input, phase, waiting, depth, cuts, level, next, current, node>>

CutNodes ==
  /\ Visiting /\ ~AtMaxDepth /\ ~PastFanout
  /\ Ref \notin Walked /\ ~Room
  /\ Cut("max_nodes")

\* Faulty variant: the node joins the level being walked (a depth-first walk).
DiscoverDepthFirst ==
  /\ Visiting /\ ~AtMaxDepth /\ ~PastFanout
  /\ Ref \notin Walked /\ Room
  /\ depth' = WithDepth(Ref, depth[node] + 1)
  /\ level' = level \cup {Ref}
  /\ edges' = edges \cup {<<node, Ref>>}
  /\ at' = at + 1
  /\ UNCHANGED <<input, phase, waiting, cuts, next, current, node>>

Discover ==
  /\ Visiting /\ ~AtMaxDepth /\ ~PastFanout
  /\ Ref \notin Walked /\ Room
  /\ depth' = WithDepth(Ref, current + 1)
  /\ next' = next \cup {Ref}
  /\ edges' = edges \cup {<<node, Ref>>}
  /\ at' = at + 1
  /\ UNCHANGED <<input, phase, waiting, cuts, level, current, node>>

NextLevel ==
  /\ phase = "walk" /\ level = {} /\ next # {}
  /\ level' = next /\ next' = {}
  /\ current' = current + 1
  /\ UNCHANGED <<input, phase, waiting, depth, edges, cuts, node, at>>

Finish ==
  /\ phase = "walk" /\ level = {} /\ next = {}
  /\ phase' = "done"
  /\ UNCHANGED <<input, waiting, depth, edges, cuts, level, next, current, node, at>>

-----------------------------------------------------------------------------
(* What the walk returns *)

CutAt == {cuts[i][2] : i \in DOMAIN cuts}
Frontier == CutAt \ Walked
Complete == Frontier = {}

-----------------------------------------------------------------------------
(* Specification *)

Start ==
  /\ phase = "roots" /\ waiting = roots
  /\ depth = [n \in {} |-> 0] /\ edges = {} /\ cuts = <<>>
  /\ level = {} /\ next = {} /\ current = 0
  /\ node = None /\ at = 1

Init ==
  /\ roots \in SUBSET Nodes \ {{}}
  /\ refs \in UNION {[held -> Bodies] : held \in SUBSET Nodes}
  /\ limits \in Limits
  /\ Start

Next ==
  \/ \E r \in waiting : TakeRoot(r) \/ CutRoot(r)
  \/ StartWalk
  \/ \E n \in level : SkipAbsent(n) \/ EnterNode(n)
  \/ CutDepth \/ CutFanout \/ Join \/ CutNodes \/ Discover
  \/ LeaveNode \/ NextLevel \/ Finish

Spec == Init /\ [][Next]_vars

-----------------------------------------------------------------------------
(* Properties *)

\* Type correctness of the walk.
TypeOK ==
  /\ roots \subseteq Nodes /\ limits \in Limits
  /\ DOMAIN refs \subseteq Nodes /\ \A n \in DOMAIN refs : refs[n] \in Seq(Nodes)
  /\ phase \in {"roots", "walk", "done"}
  /\ waiting \subseteq roots
  /\ Walked \subseteq Nodes /\ IsFiniteSet(Walked) /\ depth \in [Walked -> Nat]
  /\ edges \subseteq Walked \X Walked
  /\ cuts \in Seq({"max_depth", "max_nodes", "max_fanout"} \X Nodes)
  /\ level \subseteq Walked /\ next \subseteq Walked
  /\ current \in Nat /\ at \in Nat \ {0}
  /\ node = None \/ (node \in level /\ Present(node))

\* The walk never exceeds a limit: not the number of nodes, not their depth, and no
\* node has more edges than the fanout.
WithinLimits ==
  /\ Cardinality(Walked) <= limits.max_nodes
  /\ \A n \in Walked : depth[n] <= limits.max_depth
  /\ \A n \in Walked : Cardinality({e \in edges : e[1] = n}) <= limits.max_fanout

\* Depths are distances: an edge leads at most one level down, and every node but
\* the roots hangs from a node one level above it.
DepthIsDistance ==
  /\ \A e \in edges : depth[e[2]] <= depth[e[1]] + 1
  /\ \A n \in Walked : \/ n \in roots /\ depth[n] = 0
                       \/ \E e \in edges : e[2] = n /\ depth[n] = depth[e[1]] + 1

\* Nothing is dropped silently: when the walk ends, every root, and everything that
\* a walked context derives from, was walked or is in the frontier.  A walk that
\* calls itself complete has walked all that can be reached.
NothingDropped ==
  phase = "done" =>
    /\ roots \subseteq Walked \cup Frontier
    /\ \A n \in Walked : Present(n) =>
         \A i \in DOMAIN refs[n] : refs[n][i] \in Walked \cup Frontier
=============================================================================
