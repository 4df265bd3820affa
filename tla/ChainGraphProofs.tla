-------------------------- MODULE ChainGraphProofs --------------------------
(***************************************************************************)
(* Proofs about ChainWalk and ChainGraph, for every bundle, all roots and  *)
(* all limits: the walk keeps to its limits and depths and drops nothing   *)
(* without a trace in the frontier; the cycle search finds exactly the     *)
(* nodes on a cycle, the path search the first of the shortest paths, and  *)
(* where no limit hides a reference a complete walk sees every cycle of    *)
(* the bundle.                                                             *)
(***************************************************************************)
EXTENDS ChainGraph, FixedOrderProofs, SequencesExt, SequenceTheorems, FiniteSetTheorems, TLAPS

-----------------------------------------------------------------------------
(* The walk *)

Out(n) == {e \in edges : e[1] = n}

\* Where the walk stands: in "roots" it has nothing but roots, at "done" nothing
\* is left to visit.
PhaseInv ==
  /\ phase = "roots" => /\ level = {} /\ next = {} /\ node = None /\ edges = {}
                        /\ current = 0 /\ \A n \in Walked : n \in roots /\ depth[n] = 0
  /\ phase # "roots" => waiting = {}
  /\ phase = "done" => level = {} /\ next = {}

\* The level holds nodes of the current depth, `next` those one deeper; there is
\* nothing deeper than that.
LevelInv ==
  /\ \A n \in level : depth[n] = current
  /\ \A n \in next : depth[n] = current + 1
  /\ \A n \in Walked : depth[n] <= current + 1
  /\ \A n \in level : n \notin next

\* Edges leave only nodes that were visited, at most one per reference looked at.
FanoutInv ==
  /\ \A n \in (level \ {node}) \cup next : Out(n) = {}
  /\ node # None => Cardinality(Out(node)) <= at - 1
  /\ \A n \in Walked : IsFiniteSet(Out(n)) /\ Cardinality(Out(n)) <= limits.max_fanout

Accounted(n) == n \in Walked \cup CutAt

\* Every reference looked at was walked or cut.
AccountInv ==
  /\ \A r \in roots : r \in waiting \/ Accounted(r)
  /\ \A n \in Walked : Present(n) /\ phase # "roots" /\ n \notin level /\ n \notin next =>
       \A i \in DOMAIN refs[n] : Accounted(refs[n][i])
  /\ node # None => \A i \in DOMAIN refs[node] : i < at => Accounted(refs[node][i])

DepthInv == Cardinality(Walked) <= limits.max_nodes /\ (\A n \in Walked : depth[n] <= limits.max_depth)

WalkInv == TypeOK /\ PhaseInv /\ LevelInv /\ FanoutInv /\ AccountInv /\ DepthInv /\ DepthIsDistance

LEMMA LimitsType ==
  ASSUME TypeOK
  PROVE  limits.max_depth \in Nat /\ limits.max_nodes \in Nat \ {0} /\ limits.max_fanout \in Nat
  BY LimitsAssumption DEF TypeOK

\* One more element is at most one more.
LEMMA AddOne ==
  ASSUME NEW S, IsFiniteSet(S), NEW x
  PROVE  IsFiniteSet(S \cup {x}) /\ Cardinality(S \cup {x}) <= Cardinality(S) + 1
<1>1. Cardinality(S) \in Nat
  BY FS_CardinalityType
<1>2. CASE x \in S
  <2>1. IsFiniteSet(S \cup {x}) /\ Cardinality(S \cup {x}) = Cardinality(S)
    BY <1>2, FS_AddElement
  <2>. QED
    BY <1>1, <2>1
<1>3. CASE x \notin S
  <2>1. IsFiniteSet(S \cup {x}) /\ Cardinality(S \cup {x}) = Cardinality(S) + 1
    BY <1>3, FS_AddElement
  <2>. QED
    BY <1>1, <2>1
<1>. QED
  BY <1>2, <1>3

\* Extending the depths by one node.
LEMMA WithDepthType ==
  ASSUME depth \in [Walked -> Nat], NEW n, NEW d \in Nat, depth' = WithDepth(n, d)
  PROVE  /\ Walked' = Walked \cup {n}
         /\ depth' \in [Walked' -> Nat]
         /\ depth'[n] = d
         /\ \A m \in Walked : m # n => depth'[m] = depth[m]
  BY DEF WithDepth, Walked

\* Appending a cut adds its node to what was cut.
LEMMA CutAtAppend ==
  ASSUME cuts \in Seq({"max_depth", "max_nodes", "max_fanout"} \X Nodes), NEW n \in Nodes,
         NEW c \in {"max_depth", "max_nodes", "max_fanout"}, cuts' = Append(cuts, <<c, n>>)
  PROVE  /\ CutAt' = CutAt \cup {n}
         /\ cuts' \in Seq({"max_depth", "max_nodes", "max_fanout"} \X Nodes)
<1>1. Len(cuts') = Len(cuts) + 1 /\ Len(cuts) \in Nat
  OBVIOUS
<1>2. \A i \in 1..Len(cuts) : cuts'[i] = cuts[i]
  OBVIOUS
<1>3. cuts'[Len(cuts) + 1] = <<c, n>>
  OBVIOUS
<1>4. DOMAIN cuts = 1..Len(cuts) /\ DOMAIN cuts' = 1..Len(cuts')
  OBVIOUS
<1>5. cuts'[Len(cuts) + 1][2] = n
  BY <1>3
<1>6. CutAt' \subseteq CutAt \cup {n}
  BY <1>1, <1>2, <1>4, <1>5 DEF CutAt
<1>7. CutAt \cup {n} \subseteq CutAt'
  <2>1. \A i \in DOMAIN cuts : i \in DOMAIN cuts' /\ cuts'[i] = cuts[i]
    BY <1>1, <1>2, <1>4
  <2>2. Len(cuts) + 1 \in DOMAIN cuts'
    BY <1>1, <1>4
  <2>. QED
    BY <1>5, <2>1, <2>2 DEF CutAt
<1>. QED
  BY <1>6, <1>7

LEMMA InitWalk == Init => WalkInv
<1>1. SUFFICES ASSUME Init PROVE WalkInv
  OBVIOUS
<1>2. /\ Walked = {} /\ depth \in [Walked -> Nat] /\ edges = {} /\ cuts = <<>> /\ waiting = roots
      /\ phase = "roots" /\ level = {} /\ next = {} /\ current = 0 /\ node = None /\ at = 1
      /\ limits \in Limits /\ roots \subseteq Nodes
  BY <1>1 DEF Init, Start, Walked
<1>3. DOMAIN refs \subseteq Nodes /\ \A n \in DOMAIN refs : refs[n] \in Seq(Nodes)
  BY <1>1, BodiesAssumption DEF Init
<1>4. IsFiniteSet(Walked) /\ Cardinality(Walked) = 0
  BY <1>2, FS_EmptySet
<1>5. TypeOK
  BY <1>2, <1>3, <1>4 DEF TypeOK
<1>6. PhaseInv /\ LevelInv /\ FanoutInv /\ AccountInv /\ DepthIsDistance
  BY <1>2 DEF PhaseInv, LevelInv, FanoutInv, AccountInv, DepthIsDistance
<1>7. DepthInv
  BY <1>2, <1>4, <1>5, LimitsType DEF DepthInv
<1>. QED
  BY <1>5, <1>6, <1>7 DEF WalkInv

LEMMA RootsWalk ==
  ASSUME WalkInv, NEW r \in waiting, TakeRoot(r) \/ CutRoot(r)
  PROVE  WalkInv'
<1>. USE DEF input
<1>1. /\ TypeOK /\ PhaseInv /\ LevelInv /\ FanoutInv /\ AccountInv /\ DepthInv /\ DepthIsDistance
      /\ r \in Nodes /\ r \in roots
  BY DEF WalkInv, TypeOK
<1>2. /\ phase = "roots" /\ level = {} /\ next = {} /\ node = None /\ edges = {} /\ current = 0
      /\ \A n \in Walked : n \in roots /\ depth[n] = 0
  BY <1>1 DEF PhaseInv, TakeRoot, CutRoot
<1>3. /\ waiting' = waiting \ {r}
      /\ UNCHANGED <<roots, refs, limits, phase, edges, level, next, current, node, at>>
  BY DEF TakeRoot, CutRoot
<1>4. CASE TakeRoot(r)
  <2>1. /\ Walked' = Walked \cup {r} /\ depth' \in [Walked' -> Nat] /\ depth'[r] = 0
        /\ \A n \in Walked : n # r => depth'[n] = depth[n]
    BY <1>1, <1>4, WithDepthType DEF TakeRoot, TypeOK
  <2>2. IsFiniteSet(Walked') /\ Cardinality(Walked') <= limits.max_nodes
    <3>1. IsFiniteSet(Walked) /\ Cardinality(Walked) \in Nat /\ limits.max_nodes \in Nat
      BY <1>1, LimitsType, FS_CardinalityType DEF TypeOK
    <3>2. Cardinality(Walked) < limits.max_nodes
      BY <1>4 DEF TakeRoot, Room
    <3>3. IsFiniteSet(Walked \cup {r}) /\ Cardinality(Walked \cup {r}) <= Cardinality(Walked) + 1
      BY <3>1, AddOne
    <3>4. Cardinality(Walked \cup {r}) \in Nat
      BY <3>3, FS_CardinalityType
    <3>. QED
      BY <2>1, <3>1, <3>2, <3>3, <3>4
  <2>3. \A n \in Walked' : n \in roots /\ depth'[n] = 0
    BY <1>1, <1>2, <2>1
  <2>4. cuts' = cuts
    BY <1>4 DEF TakeRoot
  <2>5. TypeOK'
    BY <1>1, <1>2, <1>3, <2>1, <2>2, <2>4 DEF TypeOK
  <2>6. PhaseInv' /\ LevelInv' /\ DepthIsDistance'
    BY <1>2, <1>3, <2>3 DEF PhaseInv, LevelInv, DepthIsDistance
  <2>7. FanoutInv'
    <3>1. \A n : Out(n)' = {}
      BY <1>2, <1>3 DEF Out
    <3>. QED
      BY <1>1, <1>2, <1>3, <3>1, FS_EmptySet, LimitsType DEF FanoutInv
  <2>8. AccountInv'
    BY <1>1, <1>2, <1>3, <2>1, <2>4 DEF AccountInv, Accounted, CutAt
  <2>9. DepthInv'
    BY <1>1, <1>3, <2>2, <2>3, LimitsType DEF DepthInv
  <2>. QED
    BY <2>5, <2>6, <2>7, <2>8, <2>9 DEF WalkInv
<1>5. CASE CutRoot(r)
  <2>1. depth' = depth /\ Walked' = Walked
    BY <1>5 DEF CutRoot, Walked
  <2>2. CutAt' = CutAt \cup {r} /\ cuts' \in Seq({"max_depth", "max_nodes", "max_fanout"} \X Nodes)
    BY <1>1, <1>5, CutAtAppend DEF CutRoot, TypeOK
  <2>3. TypeOK'
    BY <1>1, <1>2, <1>3, <2>1, <2>2 DEF TypeOK
  <2>4. PhaseInv' /\ LevelInv' /\ DepthIsDistance' /\ DepthInv'
    BY <1>1, <1>2, <1>3, <2>1 DEF PhaseInv, LevelInv, DepthIsDistance, DepthInv
  <2>5. FanoutInv'
    BY <1>1, <1>3, <2>1 DEF FanoutInv, Out
  <2>6. AccountInv'
    BY <1>1, <1>2, <1>3, <2>1, <2>2 DEF AccountInv, Accounted
  <2>. QED
    BY <2>3, <2>4, <2>5, <2>6 DEF WalkInv
<1>. QED
  BY <1>4, <1>5

\* Steps that walk and cut nothing: the changes of level.
LEMMA LevelWalk ==
  ASSUME WalkInv,
         \/ StartWalk \/ LeaveNode \/ NextLevel \/ Finish
         \/ \E n \in level : SkipAbsent(n) \/ EnterNode(n)
  PROVE  WalkInv'
<1>. USE DEF input
<1>1. /\ TypeOK /\ PhaseInv /\ LevelInv /\ FanoutInv /\ AccountInv /\ DepthInv /\ DepthIsDistance
      /\ level \subseteq Walked /\ next \subseteq Walked /\ current \in Nat
  BY DEF WalkInv, TypeOK
<1>2. UNCHANGED <<roots, refs, limits, waiting, depth, edges, cuts>>
  BY DEF StartWalk, LeaveNode, NextLevel, Finish, SkipAbsent, EnterNode
<1>3. Walked' = Walked /\ CutAt' = CutAt /\ \A n : Out(n)' = Out(n) /\ (Accounted(n)' <=> Accounted(n))
  BY <1>2 DEF Walked, CutAt, Out, Accounted
<1>4. DepthInv' /\ DepthIsDistance'
  BY <1>1, <1>2, <1>3 DEF DepthInv, DepthIsDistance
<1>5. CASE StartWalk
  <2>1. /\ phase = "roots" /\ waiting = {} /\ phase' = "walk" /\ level' = Walked
        /\ UNCHANGED <<next, current, node, at>> /\ next = {} /\ node = None /\ edges = {}
        /\ current = 0 /\ \A n \in Walked : depth[n] = 0
    BY <1>1, <1>5 DEF StartWalk, PhaseInv
  <2>2. TypeOK'
    BY <1>1, <1>2, <1>3, <2>1 DEF TypeOK
  <2>3. PhaseInv' /\ LevelInv'
    BY <1>1, <1>2, <1>3, <2>1 DEF PhaseInv, LevelInv
  <2>4. FanoutInv'
    BY <1>1, <1>2, <1>3, <2>1 DEF FanoutInv, Out
  <2>5. AccountInv'
    BY <1>1, <1>2, <1>3, <2>1 DEF AccountInv, Present
  <2>. QED
    BY <1>4, <2>2, <2>3, <2>4, <2>5 DEF WalkInv
<1>6. CASE LeaveNode
  <2>1. /\ node # None /\ at > Len(refs[node]) /\ level' = level \ {node} /\ node' = None /\ at' = 1
        /\ UNCHANGED <<phase, next, current>>
    BY <1>6 DEF LeaveNode
  <2>2. node \in level /\ Present(node) /\ refs[node] \in Seq(Nodes) /\ at \in Nat
    BY <1>1, <2>1 DEF TypeOK, Present
  <2>3. TypeOK'
    BY <1>1, <1>2, <1>3, <2>1 DEF TypeOK
  <2>4. PhaseInv' /\ LevelInv'
    BY <1>1, <1>2, <1>3, <2>1 DEF PhaseInv, LevelInv
  <2>5. FanoutInv'
    <3>1. (level' \ {node'}) \cup next' \subseteq (level \ {node}) \cup next
      BY <2>1
    <3>. QED
      BY <1>1, <1>2, <1>3, <2>1, <3>1 DEF FanoutInv
  <2>6. AccountInv'
    <3>1. \A i \in DOMAIN refs[node] : Accounted(refs[node][i])
      BY <1>1, <2>1, <2>2 DEF AccountInv
    <3>. QED
      BY <1>1, <1>2, <1>3, <2>1, <3>1 DEF AccountInv, Present
  <2>. QED
    BY <1>4, <2>3, <2>4, <2>5, <2>6 DEF WalkInv
<1>7. CASE NextLevel
  <2>1. /\ phase = "walk" /\ level = {} /\ next # {} /\ level' = next /\ next' = {}
        /\ current' = current + 1 /\ UNCHANGED <<phase, node, at>>
    BY <1>7 DEF NextLevel
  <2>2. node = None
    BY <1>1, <2>1 DEF TypeOK
  <2>3. TypeOK'
    BY <1>1, <1>2, <1>3, <2>1, <2>2 DEF TypeOK
  <2>4. PhaseInv'
    BY <1>1, <1>2, <1>3, <2>1 DEF PhaseInv
  <2>5. LevelInv'
    <3>1. \A n \in Walked : depth[n] \in Nat
      BY <1>1 DEF TypeOK
    <3>. QED
      BY <1>1, <1>2, <1>3, <2>1, <3>1 DEF LevelInv
  <2>6. FanoutInv'
    BY <1>1, <1>2, <1>3, <2>1, <2>2 DEF FanoutInv
  <2>7. AccountInv'
    BY <1>1, <1>2, <1>3, <2>1, <2>2 DEF AccountInv, Present
  <2>. QED
    BY <1>4, <2>3, <2>4, <2>5, <2>6, <2>7 DEF WalkInv
<1>8. CASE Finish
  <2>1. /\ phase = "walk" /\ phase' = "done" /\ level = {} /\ next = {}
        /\ UNCHANGED <<level, next, current, node, at>>
    BY <1>8 DEF Finish
  <2>2. TypeOK' /\ PhaseInv' /\ LevelInv'
    BY <1>1, <1>2, <1>3, <2>1 DEF TypeOK, PhaseInv, LevelInv, Present
  <2>3. FanoutInv' /\ AccountInv'
    BY <1>1, <1>2, <1>3, <2>1 DEF FanoutInv, AccountInv, Present
  <2>. QED
    BY <1>4, <2>2, <2>3 DEF WalkInv
<1>9. ASSUME NEW n \in level, SkipAbsent(n) PROVE WalkInv'
  <2>1. /\ phase = "walk" /\ node = None /\ ~Present(n) /\ level' = level \ {n}
        /\ UNCHANGED <<phase, next, current, node, at>>
    BY <1>9 DEF SkipAbsent
  <2>2. TypeOK' /\ PhaseInv' /\ LevelInv'
    BY <1>1, <1>2, <1>3, <2>1 DEF TypeOK, PhaseInv, LevelInv, Present
  <2>3. FanoutInv'
    <3>1. (level' \ {node'}) \cup next' \subseteq (level \ {node}) \cup next
      BY <2>1
    <3>. QED
      BY <1>1, <1>2, <1>3, <2>1, <3>1 DEF FanoutInv
  <2>4. AccountInv'
    BY <1>1, <1>2, <1>3, <2>1 DEF AccountInv, Present
  <2>. QED
    BY <1>4, <2>2, <2>3, <2>4 DEF WalkInv
<1>10. ASSUME NEW n \in level, EnterNode(n) PROVE WalkInv'
  <2>1. /\ phase = "walk" /\ node = None /\ Present(n) /\ node' = n /\ at' = 1
        /\ UNCHANGED <<phase, level, next, current>> /\ n \in Nat
    BY <1>1, <1>10, NodesAssumption DEF EnterNode, TypeOK
  <2>2. TypeOK' /\ PhaseInv' /\ LevelInv'
    BY <1>1, <1>2, <1>3, <2>1 DEF TypeOK, PhaseInv, LevelInv, Present
  <2>3. FanoutInv'
    <3>1. None \notin level
      BY <1>1, NodesAssumption DEF TypeOK, None
    <3>2. Out(n) = {}
      BY <1>1, <2>1, <3>1, <1>10 DEF FanoutInv
    <3>3. Cardinality(Out(n)) = 0
      BY <3>2, FS_EmptySet
    <3>. QED
      BY <1>1, <1>2, <1>3, <2>1, <3>1, <3>3 DEF FanoutInv
  <2>4. AccountInv'
    <3>1. refs[n] \in Seq(Nodes)
      BY <1>1, <2>1 DEF TypeOK, Present
    <3>2. \A i \in DOMAIN refs[n] : ~(i < 1)
      BY <3>1
    <3>. QED
      BY <1>1, <1>2, <1>3, <2>1, <3>2 DEF AccountInv, Present
  <2>. QED
    BY <1>4, <2>2, <2>3, <2>4 DEF WalkInv
<1>. QED
  BY <1>5, <1>6, <1>7, <1>8, <1>9, <1>10

\* One reference of the visited node, passed over: cut, or walked already.
LEMMA CutWalk ==
  ASSUME WalkInv, CutDepth \/ CutFanout \/ CutNodes
  PROVE  WalkInv'
<1>. USE DEF input
<1>1. /\ TypeOK /\ PhaseInv /\ LevelInv /\ FanoutInv /\ AccountInv /\ DepthInv /\ DepthIsDistance
      /\ at \in Nat \ {0}
  BY DEF WalkInv, TypeOK
<1>2. /\ node # None /\ at <= Len(refs[node]) /\ at' = at + 1
      /\ UNCHANGED <<roots, refs, limits, phase, waiting, depth, edges, level, next, current, node>>
      /\ \E c \in {"max_depth", "max_nodes", "max_fanout"} :
           cuts' = IF Ref \in Walked THEN cuts ELSE Append(cuts, <<c, Ref>>)
  BY DEF CutDepth, CutFanout, CutNodes, Visiting, Cut
<1>3. node \in level /\ Present(node) /\ refs[node] \in Seq(Nodes)
  BY <1>1, <1>2 DEF TypeOK, Present
<1>4. Ref \in Nodes
  BY <1>1, <1>2, <1>3 DEF Ref
<1>5. Walked' = Walked /\ \A n : Out(n)' = Out(n)
  BY <1>2 DEF Walked, Out
<1>6. /\ CutAt \subseteq CutAt' /\ Ref \in Walked' \cup CutAt'
      /\ cuts' \in Seq({"max_depth", "max_nodes", "max_fanout"} \X Nodes)
  <2>1. CASE Ref \in Walked
    <3>1. cuts' = cuts
      BY <1>2, <2>1
    <3>2. CutAt' = CutAt
      BY <3>1 DEF CutAt
    <3>. QED
      BY <1>1, <1>5, <2>1, <3>1, <3>2 DEF TypeOK
  <2>2. CASE Ref \notin Walked
    <3>1. PICK c \in {"max_depth", "max_nodes", "max_fanout"} : cuts' = Append(cuts, <<c, Ref>>)
      BY <1>2, <2>2
    <3>2. cuts \in Seq({"max_depth", "max_nodes", "max_fanout"} \X Nodes)
      BY <1>1 DEF TypeOK
    <3>3. CutAt' = CutAt \cup {Ref} /\ cuts' \in Seq({"max_depth", "max_nodes", "max_fanout"} \X Nodes)
      BY <1>4, <3>1, <3>2, CutAtAppend
    <3>. QED
      BY <3>3
  <2>. QED
    BY <2>1, <2>2
<1>7. \A n : Accounted(n) => Accounted(n)'
  BY <1>5, <1>6 DEF Accounted
<1>8. TypeOK'
  BY <1>1, <1>2, <1>5, <1>6 DEF TypeOK, Present
<1>9. PhaseInv' /\ LevelInv' /\ DepthInv' /\ DepthIsDistance'
  BY <1>1, <1>2, <1>5 DEF PhaseInv, LevelInv, DepthInv, DepthIsDistance
<1>10. FanoutInv'
  <2>1. Cardinality(Out(node)) \in Nat
    BY <1>1, <1>3, FS_CardinalityType DEF FanoutInv, TypeOK
  <2>. QED
    BY <1>1, <1>2, <1>5, <2>1 DEF FanoutInv
<1>11. AccountInv'
  <2>1. \A i \in DOMAIN refs[node] : i < at + 1 => i < at \/ i = at
    BY <1>1, <1>3
  <2>2. \A i \in DOMAIN refs[node] : i < at + 1 => refs[node][i] \in Walked' \cup CutAt'
    BY <1>1, <1>2, <1>5, <1>6, <2>1 DEF AccountInv, Accounted, Ref
  <2>3. node' # None => \A i \in DOMAIN refs'[node'] : i < at' => Accounted(refs[node][i])'
    BY <1>2, <2>2 DEF Accounted
  <2>. QED
    BY <1>1, <1>2, <1>5, <1>7, <2>3 DEF AccountInv, Present
<1>. QED
  BY <1>8, <1>9, <1>10, <1>11 DEF WalkInv

\* One more edge out of the visited node keeps it within the fanout.
LEMMA OneMoreEdge ==
  ASSUME TypeOK, FanoutInv, node # None, NEW m, edges' = edges \cup {<<node, m>>},
         at <= limits.max_fanout, UNCHANGED <<node, limits>>
  PROVE  /\ IsFiniteSet(Out(node)') /\ Cardinality(Out(node)') <= at
         /\ Cardinality(Out(node)') <= limits.max_fanout
         /\ \A n : n # node => Out(n)' = Out(n)
<1>1. Out(node)' = Out(node) \cup {<<node, m>>}
  BY DEF Out
<1>2. node \in Walked /\ at \in Nat /\ limits.max_fanout \in Nat
  BY LimitsType DEF TypeOK
<1>3. IsFiniteSet(Out(node)) /\ Cardinality(Out(node)) <= at - 1
  BY <1>2 DEF FanoutInv
<1>4. Cardinality(Out(node)) \in Nat
  BY <1>3, FS_CardinalityType
<1>5. /\ IsFiniteSet(Out(node) \cup {<<node, m>>})
      /\ Cardinality(Out(node) \cup {<<node, m>>}) <= Cardinality(Out(node)) + 1
  BY <1>3, AddOne
<1>6. Cardinality(Out(node) \cup {<<node, m>>}) \in Nat
  BY <1>5, FS_CardinalityType
<1>7. \A n : n # node => Out(n)' = Out(n)
  BY DEF Out
<1>. QED
  BY <1>1, <1>2, <1>3, <1>4, <1>5, <1>6, <1>7

LEMMA JoinWalk ==
  ASSUME WalkInv, Join
  PROVE  WalkInv'
<1>. USE DEF input
<1>1. /\ TypeOK /\ PhaseInv /\ LevelInv /\ FanoutInv /\ AccountInv /\ DepthInv /\ DepthIsDistance
      /\ at \in Nat \ {0} /\ current \in Nat
  BY DEF WalkInv, TypeOK
<1>2. /\ node # None /\ at <= Len(refs[node]) /\ at' = at + 1 /\ ~(at > limits.max_fanout)
      /\ Ref \in Walked /\ edges' = edges \cup {<<node, Ref>>}
      /\ UNCHANGED <<roots, refs, limits, phase, waiting, depth, cuts, level, next, current, node>>
  BY DEF Join, Visiting, PastFanout
<1>3. node \in level /\ node \in Walked /\ Present(node) /\ refs[node] \in Seq(Nodes)
  BY <1>1, <1>2 DEF TypeOK, Present
<1>4. Walked' = Walked /\ CutAt' = CutAt /\ \A n : (Accounted(n)' <=> Accounted(n))
  BY <1>2 DEF Walked, CutAt, Accounted
<1>5. TypeOK'
  BY <1>1, <1>2, <1>3, <1>4 DEF TypeOK, Present
<1>6. phase = "walk"
  BY <1>1, <1>2, <1>3 DEF PhaseInv, TypeOK
<1>7. PhaseInv' /\ LevelInv' /\ DepthInv'
  BY <1>1, <1>2, <1>4, <1>6 DEF PhaseInv, LevelInv, DepthInv
<1>8. DepthIsDistance'
  <2>1. depth[Ref] <= depth[node] + 1
    BY <1>1, <1>2, <1>3 DEF LevelInv
  <2>2. \A e \in edges' : depth'[e[2]] <= depth'[e[1]] + 1
    BY <1>1, <1>2, <2>1 DEF DepthIsDistance
  <2>. QED
    BY <1>1, <1>2, <1>4, <2>2 DEF DepthIsDistance
<1>9. FanoutInv'
  <2>1. at <= limits.max_fanout
    BY <1>1, <1>2, LimitsType
  <2>2. /\ IsFiniteSet(Out(node)') /\ Cardinality(Out(node)') <= at
        /\ Cardinality(Out(node)') <= limits.max_fanout
        /\ \A n : n # node => Out(n)' = Out(n)
    BY <1>1, <1>2, <2>1, OneMoreEdge
  <2>3. node \notin next
    BY <1>1, <1>3 DEF LevelInv
  <2>. QED
    BY <1>1, <1>2, <1>4, <2>2, <2>3 DEF FanoutInv
<1>10. AccountInv'
  <2>1. \A i \in DOMAIN refs[node] : i < at + 1 => i < at \/ i = at
    BY <1>1, <1>3
  <2>2. Accounted(Ref)
    BY <1>2 DEF Accounted
  <2>3. \A i \in DOMAIN refs[node] : i < at + 1 => Accounted(refs[node][i])
    BY <1>1, <1>2, <2>1, <2>2 DEF AccountInv, Ref
  <2>. QED
    BY <1>1, <1>2, <1>4, <2>3 DEF AccountInv, Present
<1>. QED
  BY <1>5, <1>7, <1>8, <1>9, <1>10 DEF WalkInv

LEMMA DiscoverWalk ==
  ASSUME WalkInv, Discover
  PROVE  WalkInv'
<1>. USE DEF input
<1>1. /\ TypeOK /\ PhaseInv /\ LevelInv /\ FanoutInv /\ AccountInv /\ DepthInv /\ DepthIsDistance
      /\ at \in Nat \ {0} /\ current \in Nat
  BY DEF WalkInv, TypeOK
<1>2. /\ node # None /\ at <= Len(refs[node]) /\ at' = at + 1 /\ ~(at > limits.max_fanout)
      /\ ~(current >= limits.max_depth)
      /\ Ref \notin Walked /\ Room /\ edges' = edges \cup {<<node, Ref>>}
      /\ depth' = WithDepth(Ref, current + 1) /\ next' = next \cup {Ref}
      /\ UNCHANGED <<roots, refs, limits, phase, waiting, cuts, level, current, node>>
  BY DEF Discover, Visiting, PastFanout, AtMaxDepth
<1>3. node \in level /\ node \in Walked /\ Present(node) /\ refs[node] \in Seq(Nodes)
  BY <1>1, <1>2 DEF TypeOK, Present
<1>4. Ref \in Nodes
  BY <1>1, <1>2, <1>3 DEF Ref
<1>5. /\ Walked' = Walked \cup {Ref} /\ depth' \in [Walked' -> Nat] /\ depth'[Ref] = current + 1
      /\ \A m \in Walked : depth'[m] = depth[m]
  <2>1. depth \in [Walked -> Nat] /\ current + 1 \in Nat
    BY <1>1 DEF TypeOK
  <2>. QED
    BY <1>2, <2>1, WithDepthType
<1>6. CutAt' = CutAt /\ \A n : Accounted(n) => Accounted(n)'
  BY <1>2, <1>5 DEF CutAt, Accounted
<1>7. limits.max_depth \in Nat /\ limits.max_nodes \in Nat /\ limits.max_fanout \in Nat
  BY <1>1, LimitsType
<1>8. IsFiniteSet(Walked') /\ Cardinality(Walked') <= limits.max_nodes
  <2>1. IsFiniteSet(Walked) /\ Cardinality(Walked) \in Nat
    BY <1>1, FS_CardinalityType DEF TypeOK
  <2>2. Cardinality(Walked) < limits.max_nodes
    BY <1>2 DEF Room
  <2>3. IsFiniteSet(Walked \cup {Ref}) /\ Cardinality(Walked \cup {Ref}) = Cardinality(Walked) + 1
    BY <1>2, <2>1, FS_AddElement
  <2>. QED
    BY <1>5, <1>7, <2>1, <2>2, <2>3
<1>9. TypeOK'
  BY <1>1, <1>2, <1>3, <1>4, <1>5, <1>8 DEF TypeOK, Present
<1>10. phase = "walk"
  BY <1>1, <1>2, <1>3 DEF PhaseInv, TypeOK
<1>11. PhaseInv'
  BY <1>1, <1>2, <1>10 DEF PhaseInv
<1>12. level \subseteq Walked /\ next \subseteq Walked /\ edges \subseteq Walked \X Walked
  BY <1>1 DEF TypeOK
<1>13. LevelInv'
  BY <1>1, <1>2, <1>5, <1>12 DEF LevelInv
<1>14. DepthInv'
  BY <1>1, <1>2, <1>5, <1>7, <1>8 DEF DepthInv
<1>15. DepthIsDistance'
  <2>1. depth'[node] = current /\ depth'[Ref] = current + 1
    BY <1>1, <1>3, <1>5 DEF LevelInv
  <2>2. ASSUME NEW e \in edges' PROVE depth'[e[2]] <= depth'[e[1]] + 1
    <3>1. CASE e \in edges
      <4>1. e[1] \in Walked /\ e[2] \in Walked
        BY <1>12, <3>1
      <4>. QED
        BY <1>1, <1>5, <3>1, <4>1 DEF DepthIsDistance
    <3>2. CASE e = <<node, Ref>>
      BY <1>1, <2>1, <3>2
    <3>. QED
      BY <1>2, <2>2, <3>1, <3>2
  <2>3. ASSUME NEW n \in Walked'
        PROVE  \/ n \in roots /\ depth'[n] = 0
               \/ \E e \in edges' : e[2] = n /\ depth'[n] = depth'[e[1]] + 1
    <3>1. CASE n = Ref
      <4>1. <<node, Ref>> \in edges'
        BY <1>2
      <4>2. <<node, Ref>>[2] = n /\ depth'[n] = depth'[<<node, Ref>>[1]] + 1
        BY <2>1, <3>1
      <4>. QED
        BY <4>1, <4>2
    <3>2. CASE n \in Walked /\ n \in roots /\ depth[n] = 0
      BY <1>5, <3>2
    <3>3. CASE n \in Walked /\ \E e \in edges : e[2] = n /\ depth[n] = depth[e[1]] + 1
      <4>1. PICK e \in edges : e[2] = n /\ depth[n] = depth[e[1]] + 1
        BY <3>3
      <4>2. e \in edges' /\ e[1] \in Walked
        BY <1>2, <1>12
      <4>. QED
        BY <1>5, <3>3, <4>1, <4>2
    <3>. QED
      BY <1>1, <1>5, <3>1, <3>2, <3>3 DEF DepthIsDistance
  <2>. QED
    BY <1>2, <2>2, <2>3 DEF DepthIsDistance
<1>16. FanoutInv'
  <2>1. at <= limits.max_fanout
    BY <1>1, <1>2, <1>7
  <2>2. /\ IsFiniteSet(Out(node)') /\ Cardinality(Out(node)') <= at
        /\ Cardinality(Out(node)') <= limits.max_fanout
        /\ \A n : n # node => Out(n)' = Out(n)
    BY <1>1, <1>2, <2>1, OneMoreEdge
  <2>3. node \notin next /\ node # Ref
    BY <1>1, <1>2, <1>3 DEF LevelInv
  <2>4. Out(Ref) = {}
    BY <1>2, <1>12 DEF Out
  <2>5. IsFiniteSet(Out(Ref)) /\ Cardinality(Out(Ref)) = 0
    BY <2>4, FS_EmptySet
  <2>6. \A n \in Walked' : IsFiniteSet(Out(n)') /\ Cardinality(Out(n)') <= limits.max_fanout
    <3>1. ASSUME NEW n \in Walked' PROVE IsFiniteSet(Out(n)') /\ Cardinality(Out(n)') <= limits.max_fanout
      <4>1. CASE n = node
        BY <1>2, <2>2, <4>1
      <4>2. CASE n = Ref
        <5>1. Out(n)' = {}
          BY <2>2, <2>3, <2>4, <4>2 DEF Out
        <5>2. IsFiniteSet(Out(n)') /\ Cardinality(Out(n)') = 0
          BY <5>1, FS_EmptySet
        <5>. QED
          BY <1>7, <5>2
      <4>3. CASE n # node /\ n \in Walked
        <5>1. Out(n)' = Out(n)
          BY <2>2, <4>3
        <5>2. IsFiniteSet(Out(n)) /\ Cardinality(Out(n)) <= limits.max_fanout
          BY <1>1, <4>3 DEF FanoutInv
        <5>. QED
          BY <5>1, <5>2
      <4>. QED
        BY <1>5, <4>1, <4>2, <4>3
    <3>. QED
      BY <3>1
  <2>7. \A n \in (level' \ {node'}) \cup next' : Out(n)' = {}
    BY <1>1, <1>2, <2>2, <2>3, <2>4 DEF FanoutInv
  <2>. QED
    BY <1>1, <1>2, <2>2, <2>6, <2>7 DEF FanoutInv
<1>17. AccountInv'
  <2>1. \A i \in DOMAIN refs[node] : i < at + 1 => i < at \/ i = at
    BY <1>1, <1>3
  <2>2. \A i \in DOMAIN refs[node] : i < at + 1 => refs[node][i] \in Walked' \cup CutAt'
    BY <1>1, <1>2, <1>5, <1>6, <2>1 DEF AccountInv, Accounted, Ref
  <2>3. node' # None => \A i \in DOMAIN refs'[node'] : i < at' => Accounted(refs[node][i])'
    BY <1>2, <2>2 DEF Accounted
  <2>4. \A n \in Walked' : n \notin next' => n \in Walked /\ n \notin next
    BY <1>2, <1>5
  <2>. QED
    BY <1>1, <1>2, <1>6, <2>3, <2>4 DEF AccountInv, Present
<1>. QED
  BY <1>9, <1>11, <1>13, <1>14, <1>15, <1>16, <1>17 DEF WalkInv

LEMMA NextWalk ==
  ASSUME WalkInv, [Next]_vars
  PROVE  WalkInv'
<1>1. CASE Next
  BY <1>1, RootsWalk, LevelWalk, CutWalk, JoinWalk, DiscoverWalk DEF Next
<1>2. CASE UNCHANGED vars
  BY <1>2
     DEF vars, input, walk, WalkInv, TypeOK, PhaseInv, LevelInv, FanoutInv, AccountInv, DepthInv,
         DepthIsDistance, Walked, CutAt, Out, Accounted, Present
<1>. QED
  BY <1>1, <1>2

LEMMA WalkAlways == Spec => []WalkInv
  BY InitWalk, NextWalk, PTL DEF Spec

\* Type correctness of the walk, for every bundle and all limits.
THEOREM WalkTypeCorrect == Spec => []TypeOK
<1>1. WalkInv => TypeOK
  BY DEF WalkInv
<1>. QED
  BY <1>1, WalkAlways, PTL

\* The walk stays within the three limits the caller asked for.
THEOREM WalkWithinLimits == Spec => []WithinLimits
<1>1. WalkInv => WithinLimits
  BY DEF WalkInv, DepthInv, FanoutInv, Out, WithinLimits
<1>. QED
  BY <1>1, WalkAlways, PTL

\* Breadth-first depths are distances in the walk graph.
THEOREM WalkDepths == Spec => []DepthIsDistance
<1>1. WalkInv => DepthIsDistance
  BY DEF WalkInv
<1>. QED
  BY <1>1, WalkAlways, PTL

\* Nothing a walked context derives from is dropped without a trace: it was walked
\* or it is in the frontier, whatever the bundle and the limits.
THEOREM NothingIsDropped == Spec => []NothingDropped
<1>1. WalkInv => NothingDropped
  <2>1. SUFFICES ASSUME WalkInv, phase = "done"
                 PROVE  /\ roots \subseteq Walked \cup Frontier
                        /\ \A n \in Walked : Present(n) =>
                             \A i \in DOMAIN refs[n] : refs[n][i] \in Walked \cup Frontier
    BY DEF NothingDropped
  <2>2. waiting = {} /\ level = {} /\ next = {}
    BY <2>1 DEF WalkInv, PhaseInv
  <2>3. \A n : Accounted(n) => n \in Walked \cup Frontier
    BY DEF Accounted, Frontier
  <2>. QED
    BY <2>1, <2>2, <2>3 DEF WalkInv, AccountInv
<1>. QED
  BY <1>1, WalkAlways, PTL

-----------------------------------------------------------------------------
(* The invariant of the cycle search *)

Met == Cycles!Met
OnStack == ToSet(stack)
Closed == Met \ OnStack
Explored == {work[i].node : i \in DOMAIN work}
Top == work[Len(work)]

IsClosed(S) == S \subseteq Walked /\ \A m \in S : Cycles!Succ(m) \subseteq S

\* There is a path, perhaps empty, from a to b.
Reaches(a, b) == \A S : IsClosed(S) /\ a \in S => b \in S

SearchTypeOK ==
  /\ Met \subseteq Walked
  /\ index \in [Met -> Nat] /\ low \in [Met -> Nat]
  /\ stack \in Seq(Met)
  /\ work \in Seq([node : Walked, seen : SUBSET Walked])

\* Nodes are numbered in the order in which they are met, and lie on the stack in it.
NumberInv ==
  /\ \A n \in Met : index[n] < Cardinality(Met)
  /\ \A m, n \in Met : index[m] = index[n] => m = n
  /\ \A i, j \in DOMAIN stack : i < j => index[stack[i]] < index[stack[j]]

\* The nodes being explored are on the stack, the last one perhaps not met yet, and
\* all that is on the stack was met from the first of them.
WorkInv ==
  /\ \A i \in DOMAIN work : work[i].node \in OnStack
                            \/ (i = Len(work) /\ work[i].node \notin Met /\ work[i].seen = {})
  /\ \A i, j \in DOMAIN work : i < j /\ work[j].node \in Met =>
       index[work[i].node] < index[work[j].node]
  /\ \A i \in DOMAIN work : \A c \in work[i].seen :
       c \in Cycles!Succ(work[i].node) /\ (c \in Met \/ c = Top.node)
  /\ \A x \in OnStack : work # <<>> /\ work[1].node \in Met /\ index[work[1].node] <= index[x]

\* No edge leaves the components that are closed, and their cycles are known.
ClosedInv ==
  /\ \A c \in Closed : Cycles!Succ(c) \subseteq Closed
  /\ cyclic = {c \in Closed : Cycles!OnCycle(c)}

\* A node that was left without being closed has only successors that were met, and
\* knows of a node below it on the stack.
LeftInv ==
  \A m \in OnStack \ Explored : Cycles!Succ(m) \subseteq Met /\ low[m] < index[m]

\* low is the number of a node on the stack that can be reached ...
LowInv ==
  \A m \in OnStack :
    low[m] <= index[m] /\ \E x \in OnStack : index[x] = low[m] /\ Reaches(m, x)

\* ... and every edge looked at that leads to the stack is accounted for in the low of
\* whichever node between its source and a given one is still being explored.
LookedAt(m, x) == \A i \in DOMAIN work : work[i].node = m => x \in work[i].seen
Charged(m, x) ==
  \A i \in DOMAIN work : work[i].node \in Met /\ index[work[i].node] <= index[m] =>
    \E j \in DOMAIN work : /\ i <= j /\ work[j].node \in Met
                           /\ index[work[j].node] <= index[m] /\ low[work[j].node] <= index[x]
ChargeInv ==
  \A m, x \in OnStack : x \in Cycles!Succ(m) /\ LookedAt(m, x) => Charged(m, x)

\* A node being explored reaches those explored after it, and all that was met since.
ReachInv ==
  /\ \A i, j \in DOMAIN work : i <= j => Reaches(work[i].node, work[j].node)
  /\ \A i \in DOMAIN work : \A x \in OnStack :
       work[i].node \in Met /\ index[work[i].node] <= index[x] => Reaches(work[i].node, x)

CycleInv ==
  /\ SearchTypeOK /\ NumberInv /\ WorkInv /\ ClosedInv /\ LeftInv /\ LowInv /\ ChargeInv /\ ReachInv

-----------------------------------------------------------------------------
(* The invariant of the path search *)

\* The first of the shortest paths to n.
IsFirst(n, p) ==
  /\ p \in Seq(Walked) /\ Len(p) = depth[n] + 1 /\ p[Len(p)] = n
  /\ Paths!IsPath(p)
  /\ \A q \in [1..Len(p) -> Walked] :
       Paths!IsPath(q) /\ q[Len(q)] = n => ~Paths!Before(q, p)

\* The ring holds the nodes of one depth: those above it have their paths, those one
\* below it the first of the paths along the edges looked at.
RingAt(d) ==
  /\ \A n \in Walked : (n \in DOMAIN best <=> depth[n] <= d) /\ (n \in ring <=> depth[n] = d)
  /\ \A n \in Walked \cap DOMAIN best : IsFirst(n, best[n])
  /\ looked \subseteq Paths!OutOfRing
  /\ \A n \in DOMAIN candidates :
       /\ n \in Walked \ DOMAIN best
       /\ \E e \in looked : e[2] = n /\ candidates[n] = Append(best[e[1]], n)
  /\ \A e \in looked :
       e[2] \in DOMAIN best
       \/ /\ e[2] \in DOMAIN candidates
          /\ ~Paths!Before(Append(best[e[1]], e[2]), candidates[e[2]])
PathInv == \E d \in Nat : RingAt(d)

-----------------------------------------------------------------------------
(* What the walk leaves to the searches *)

\* A root is walked at depth 0 or, once all are taken, left out for want of room.
RootInv ==
  \A r \in roots : \/ r \in Walked /\ depth[r] = 0
                   \/ r \notin Walked /\ (r \in waiting \/ ~Room)

\* A reference within the limits left an edge, or was cut for want of room.
Followed(n, i) ==
  depth[n] < limits.max_depth /\ i <= limits.max_fanout =>
    \/ <<n, refs[n][i]>> \in edges
    \/ refs[n][i] \in CutAt /\ refs[n][i] \notin Walked /\ ~Room
EdgeInv ==
  /\ \A n \in Walked : Present(n) /\ phase # "roots" /\ n \notin level /\ n \notin next =>
       \A i \in DOMAIN refs[n] : Followed(n, i)
  /\ node # None => \A i \in DOMAIN refs[node] : i < at => Followed(node, i)

\* The searches begin when the walk is done.
GraphInv ==
  /\ WalkInv /\ RootInv /\ EdgeInv
  /\ Cycles!Init \/ (phase = "done" /\ CycleInv)
  /\ Paths!Init \/ (phase = "done" /\ PathInv)

-----------------------------------------------------------------------------
(* Numbers, the graph, and what is reached *)

\* An element of a set at which a measure is least.
LEMMA LeastAt ==
  ASSUME NEW S, S # {}, NEW f, \A x \in S : f[x] \in Nat
  PROVE  \E x \in S : \A y \in S : f[x] <= f[y]
<1>. DEFINE T == {f[x] : x \in S}
<1>1. T \in SUBSET Nat /\ T # {}
  OBVIOUS
<1>2. PICK m \in T : \A k \in T : m <= k
  BY <1>1, LeastNumber
<1>. QED
  BY <1>2

\* The searches do not touch the walk graph.
LEMMA GraphFixed ==
  ASSUME UNCHANGED vars
  PROVE  /\ Walked' = Walked
         /\ \A n : Cycles!Succ(n)' = Cycles!Succ(n)
         /\ \A S : IsClosed(S)' <=> IsClosed(S)
         /\ \A a, b : Reaches(a, b)' <=> Reaches(a, b)
         /\ \A n : Cycles!OnCycle(n)' <=> Cycles!OnCycle(n)
<1>1. Walked' = Walked /\ edges' = edges
  BY DEF vars, walk, Walked
<1>2. \A n : Cycles!Succ(n)' = Cycles!Succ(n)
  BY <1>1 DEF Cycles!Succ
<1>3. \A S : IsClosed(S)' <=> IsClosed(S)
  BY <1>1, <1>2 DEF IsClosed
<1>4. \A a, b : Reaches(a, b)' <=> Reaches(a, b)
  BY <1>3 DEF Reaches
<1>5. \A n : Cycles!OnCycle(n)' <=> Cycles!OnCycle(n)
  BY <1>1, <1>2 DEF Cycles!OnCycle
<1>. QED
  BY <1>1, <1>2, <1>3, <1>4, <1>5

LEMMA ReachesSelf == \A a : Reaches(a, a)
  BY DEF Reaches

LEMMA ReachesOn == \A a, b, c : Reaches(a, b) /\ Reaches(b, c) => Reaches(a, c)
  BY DEF Reaches

LEMMA ReachesNext == \A a : \A b \in Cycles!Succ(a) : Reaches(a, b)
  BY DEF Reaches, IsClosed

LEMMA CycleIsReached ==
  \A n : Cycles!OnCycle(n) <=> \A S : IsClosed(S) /\ Cycles!Succ(n) \subseteq S => n \in S
  BY DEF Cycles!OnCycle, IsClosed

\* Two nodes that reach each other are on a cycle.
LEMMA ReachedBothWays ==
  ASSUME NEW a \in Walked, NEW b, a # b, Reaches(a, b), Reaches(b, a)
  PROVE  Cycles!OnCycle(a)
<1>1. SUFFICES ASSUME NEW S, IsClosed(S), Cycles!Succ(a) \subseteq S PROVE a \in S
  BY CycleIsReached
<1>2. IsClosed(S \cup {a})
  BY <1>1 DEF IsClosed
<1>3. b \in S
  BY <1>2 DEF Reaches
<1>. QED
  BY <1>1, <1>3 DEF Reaches

LEMMA SameCardinality == \A S : Cycles!Cardinality(S) = Cardinality(S)
  BY DEF Cycles!Cardinality, Cardinality

-----------------------------------------------------------------------------
(* The cycle search: its steps *)

LEMMA SearchFacts ==
  ASSUME CycleInv, IsFiniteSet(Walked)
  PROVE  /\ IsFiniteSet(Met) /\ Cardinality(Met) \in Nat
         /\ OnStack \subseteq Met /\ Met \subseteq Walked
         /\ Len(work) \in Nat /\ DOMAIN work = 1..Len(work)
         /\ \A i \in DOMAIN work : work[i].node \in Walked
         /\ work # <<>> => Len(work) \in DOMAIN work /\ 1 \in DOMAIN work
         /\ work = <<>> => OnStack = {}
         /\ \A n \in Met : index[n] \in Nat /\ low[n] \in Nat
<1>1. SearchTypeOK
  BY DEF CycleInv
<1>2. IsFiniteSet(Met) /\ Cardinality(Met) \in Nat
  BY <1>1, FS_Subset, FS_CardinalityType DEF SearchTypeOK
<1>3. OnStack \subseteq Met
  <2>1. \A i \in DOMAIN stack : stack[i] \in Met
    BY <1>1 DEF SearchTypeOK
  <2>. QED
    BY <2>1 DEF OnStack, ToSet
<1>4. work = <<>> => OnStack = {}
  BY DEF CycleInv, WorkInv
<1>5. work # <<>> => Len(work) \in DOMAIN work /\ 1 \in DOMAIN work
  BY <1>1 DEF SearchTypeOK
<1>6. Len(work) \in Nat /\ DOMAIN work = 1..Len(work)
  BY <1>1 DEF SearchTypeOK
<1>7. \A i \in DOMAIN work : work[i] \in [node : Walked, seen : SUBSET Walked]
  <2>. DEFINE Frame == [node : Walked, seen : SUBSET Walked]
  <2>1. work \in Seq(Frame)
    BY <1>1 DEF SearchTypeOK
  <2>. HIDE DEF Frame
  <2>2. \A i \in DOMAIN work : work[i] \in Frame
    BY <2>1
  <2>. QED
    BY <2>2 DEF Frame
<1>8. Met \subseteq Walked /\ \A n \in Met : index[n] \in Nat /\ low[n] \in Nat
  BY <1>1 DEF SearchTypeOK
<1>. QED
  BY <1>2, <1>3, <1>4, <1>5, <1>6, <1>7, <1>8

\* Before the search begins, its invariant holds of whatever was walked.
LEMMA CyclesBegin == Cycles!Init => CycleInv
<1>. SUFFICES ASSUME Cycles!Init PROVE CycleInv
  OBVIOUS
<1>1. index = [n \in {} |-> 0] /\ low = [n \in {} |-> 0] /\ stack = <<>> /\ work = <<>> /\ cyclic = {}
  BY DEF Cycles!Init
<1>2. Met = {} /\ OnStack = {} /\ Closed = {} /\ DOMAIN work = {}
  BY <1>1 DEF Met, Cycles!Met, OnStack, ToSet, Closed
<1>3. SearchTypeOK
  BY <1>1, <1>2 DEF SearchTypeOK
<1>4. NumberInv /\ WorkInv /\ ClosedInv /\ LeftInv /\ LowInv /\ ChargeInv /\ ReachInv
  BY <1>1, <1>2 DEF NumberInv, WorkInv, ClosedInv, LeftInv, LowInv, ChargeInv, ReachInv
<1>. QED
  BY <1>3, <1>4 DEF CycleInv

LEMMA StartStep ==
  ASSUME CycleInv, IsFiniteSet(Walked), UNCHANGED vars, NEW n \in Walked \ Met, Cycles!StartAt(n)
  PROVE  CycleInv'
<1>1. /\ work = <<>> /\ work' = <<[node |-> n, seen |-> {}]>>
      /\ index' = index /\ low' = low /\ stack' = stack /\ cyclic' = cyclic
  BY DEF Cycles!StartAt
<1>2. /\ Met' = Met /\ OnStack' = OnStack /\ Closed' = Closed /\ OnStack = {}
      /\ DOMAIN work' = {1} /\ Len(work') = 1 /\ work'[1].node = n /\ work'[1].seen = {}
  BY <1>1, SearchFacts DEF Met, Cycles!Met, OnStack, Closed
<1>3. /\ Walked' = Walked /\ \A m : Cycles!Succ(m)' = Cycles!Succ(m)
      /\ \A a, b : Reaches(a, b)' <=> Reaches(a, b)
      /\ \A m : Cycles!OnCycle(m)' <=> Cycles!OnCycle(m)
  BY GraphFixed
<1>4. SearchTypeOK'
  <2>1. work' \in Seq([node : Walked, seen : SUBSET Walked])
    BY <1>1
  <2>. QED
    BY <1>1, <1>2, <1>3, <2>1 DEF CycleInv, SearchTypeOK
<1>5. NumberInv'
  BY <1>1, <1>2 DEF CycleInv, NumberInv
<1>6. WorkInv'
  BY <1>1, <1>2 DEF WorkInv
<1>7. ClosedInv'
  <2>1. {c \in Closed : Cycles!OnCycle(c)}' = {c \in Closed : Cycles!OnCycle(c)}
    BY <1>2, <1>3
  <2>. QED
    BY <1>1, <1>2, <1>3, <2>1 DEF CycleInv, ClosedInv
<1>8. LeftInv' /\ LowInv' /\ ChargeInv'
  BY <1>2 DEF LeftInv, LowInv, ChargeInv
<1>9. ReachInv'
  BY <1>2, <1>3, ReachesSelf DEF ReachInv
<1>. QED
  BY <1>4, <1>5, <1>6, <1>7, <1>8, <1>9 DEF CycleInv

LEMMA MeetStep ==
  ASSUME CycleInv, IsFiniteSet(Walked), UNCHANGED vars, Cycles!Meet
  PROVE  CycleInv'
<1>. DEFINE n == Top.node
            C == Cardinality(Met)
            L == Len(work)
<1>1. /\ work # <<>> /\ n \notin Met /\ work' = work /\ cyclic' = cyclic
      /\ stack' = Append(stack, n)
      /\ index' = [m \in Met \cup {n} |-> IF m = n THEN C ELSE index[m]]
      /\ low' = [m \in Met \cup {n} |-> IF m = n THEN C ELSE low[m]]
  <2>1. Cycles!Top = Top
    BY DEF Cycles!Top, Top, Cycles!Last
  <2>. QED
    BY <2>1, SameCardinality DEF Cycles!Meet, Met
<1>2. /\ IsFiniteSet(Met) /\ C \in Nat /\ OnStack \subseteq Met /\ Met \subseteq Walked
      /\ L \in Nat /\ L \in DOMAIN work /\ DOMAIN work = 1..L /\ 1 \in DOMAIN work /\ n \in Walked
      /\ \A m \in Met : index[m] \in Nat /\ low[m] \in Nat
  BY <1>1, SearchFacts DEF Top
<1>3. /\ SearchTypeOK /\ NumberInv /\ WorkInv /\ ClosedInv /\ LeftInv /\ LowInv /\ ChargeInv /\ ReachInv
  BY DEF CycleInv
<1>4. Met' = Met \cup {n} /\ Cardinality(Met') = C + 1 /\ Top' = Top /\ Explored' = Explored
  <2>1. Met' = Met \cup {n} /\ Top' = Top /\ Explored' = Explored
    BY <1>1 DEF Met, Cycles!Met, Top, Explored
  <2>. QED
    BY <1>1, <1>2, <2>1, FS_AddElement
<1>5. /\ index'[n] = C /\ low'[n] = C
      /\ \A m \in Met : m # n /\ index'[m] = index[m] /\ low'[m] = low[m] /\ index[m] < C
  BY <1>1, <1>3 DEF NumberInv
<1>6. /\ stack \in Seq(Met) /\ Len(stack) \in Nat /\ DOMAIN stack = 1..Len(stack)
      /\ DOMAIN stack' = 1..(Len(stack) + 1)
      /\ stack'[Len(stack) + 1] = n /\ \A i \in DOMAIN stack : stack'[i] = stack[i] /\ stack[i] \in Met
  BY <1>1, <1>3 DEF SearchTypeOK
<1>7. OnStack' = OnStack \cup {n} /\ n \notin OnStack
  <2>1. OnStack' = {stack'[i] : i \in DOMAIN stack'} /\ OnStack = {stack[i] : i \in DOMAIN stack}
    BY DEF OnStack, ToSet
  <2>2. OnStack' \subseteq OnStack \cup {n}
    <3>. SUFFICES ASSUME NEW i \in DOMAIN stack' PROVE stack'[i] \in OnStack \cup {n}
      BY <2>1
    <3>1. i \in DOMAIN stack \/ i = Len(stack) + 1
      BY <1>6
    <3>. QED
      BY <1>6, <2>1, <3>1
  <2>3. OnStack \subseteq OnStack' /\ n \in OnStack'
    <3>1. DOMAIN stack \subseteq DOMAIN stack' /\ Len(stack) + 1 \in DOMAIN stack'
      BY <1>6
    <3>. QED
      BY <1>6, <2>1, <3>1
  <2>. QED
    BY <1>1, <1>2, <2>2, <2>3
<1>8. /\ Walked' = Walked /\ \A m : Cycles!Succ(m)' = Cycles!Succ(m)
      /\ \A a, b : Reaches(a, b)' <=> Reaches(a, b)
      /\ \A m : Cycles!OnCycle(m)' <=> Cycles!OnCycle(m)
  BY GraphFixed
<1>9. Closed' = Closed
  BY <1>1, <1>2, <1>4, <1>7 DEF Closed
<1>10. /\ work[L].node = n /\ work[L].seen = {}
       /\ \A i \in DOMAIN work : i # L => work[i].node \in OnStack
  BY <1>1, <1>2, <1>3 DEF WorkInv, Top
<1>. HIDE DEF n, C, L
<1>11. SearchTypeOK'
  <2>1. index' \in [Met' -> Nat] /\ low' \in [Met' -> Nat]
    <3>1. \A m \in Met \cup {n} : index'[m] \in Nat /\ low'[m] \in Nat
      BY <1>2, <1>5
    <3>. QED
      BY <1>1, <1>4, <3>1
  <2>2. stack' \in Seq(Met')
    BY <1>1, <1>4, <1>6
  <2>3. work' \in Seq([node : Walked, seen : SUBSET Walked])'
    BY <1>1, <1>3, <1>8 DEF SearchTypeOK
  <2>. QED
    BY <1>2, <1>4, <1>8, <2>1, <2>2, <2>3 DEF SearchTypeOK
<1>12. NumberInv'
  <2>1. \A m \in Met' : index'[m] < Cardinality(Met')
    BY <1>2, <1>4, <1>5
  <2>2. \A m1, m2 \in Met' : index'[m1] = index'[m2] => m1 = m2
    BY <1>2, <1>3, <1>4, <1>5 DEF NumberInv
  <2>3. ASSUME NEW i \in DOMAIN stack', NEW j \in DOMAIN stack', i < j
        PROVE  index'[stack'[i]] < index'[stack'[j]]
    <3>1. i \in DOMAIN stack /\ (j \in DOMAIN stack \/ j = Len(stack) + 1)
      BY <1>6, <2>3
    <3>2. CASE j \in DOMAIN stack
      BY <1>3, <1>5, <1>6, <2>3, <3>1, <3>2 DEF NumberInv
    <3>3. CASE j = Len(stack) + 1
      BY <1>5, <1>6, <3>1, <3>3
    <3>. QED
      BY <3>1, <3>2, <3>3
  <2>. QED
    BY <2>1, <2>2, <2>3 DEF NumberInv
<1>13. WorkInv'
  <2>1. \A i \in DOMAIN work : work[i].node \in OnStack'
    BY <1>7, <1>10
  <2>2. ASSUME NEW i \in DOMAIN work, NEW j \in DOMAIN work, i < j
        PROVE  index'[work[i].node] < index'[work[j].node]
    <3>1. i # L /\ work[i].node \in Met
      BY <1>2, <1>10, <2>2
    <3>2. CASE j = L
      BY <1>5, <1>10, <3>1, <3>2
    <3>3. CASE j # L
      BY <1>2, <1>3, <1>5, <1>10, <2>2, <3>1, <3>3 DEF WorkInv
    <3>. QED
      BY <3>2, <3>3
  <2>3. \A i \in DOMAIN work : \A c \in work[i].seen :
          c \in Cycles!Succ(work[i].node)' /\ (c \in Met' \/ c = Top'.node)
    <3>1. \A i \in DOMAIN work : \A c \in work[i].seen :
            c \in Cycles!Succ(work[i].node) /\ (c \in Met \/ c = Top.node)
      BY <1>3 DEF WorkInv
    <3>. QED
      BY <1>1, <1>4, <1>8, <3>1
  <2>4. ASSUME NEW x \in OnStack'
        PROVE  work[1].node \in Met' /\ index'[work[1].node] <= index'[x]
    <3>1. CASE x \in OnStack
      BY <1>2, <1>3, <1>4, <1>5, <3>1 DEF WorkInv
    <3>2. CASE x = n
      <4>1. work[1].node \in Met' /\ index'[work[1].node] <= C
        BY <1>2, <1>4, <1>5, <1>10
      <4>. QED
        BY <1>5, <3>2, <4>1
    <3>. QED
      BY <1>7, <3>1, <3>2
  <2>. QED
    BY <1>1, <2>1, <2>2, <2>3, <2>4 DEF WorkInv
<1>14. ClosedInv'
  <2>1. {c \in Closed : Cycles!OnCycle(c)}' = {c \in Closed : Cycles!OnCycle(c)}
    BY <1>8, <1>9
  <2>. QED
    BY <1>1, <1>3, <1>8, <1>9, <2>1 DEF ClosedInv
<1>15. LeftInv'
  <2>1. n \in Explored
    BY <1>2, <1>10 DEF Explored
  <2>. QED
    BY <1>2, <1>3, <1>4, <1>5, <1>7, <1>8, <2>1 DEF LeftInv
<1>16. LowInv'
  <2>. SUFFICES ASSUME NEW m \in OnStack'
                PROVE  low'[m] <= index'[m] /\ \E x \in OnStack' : index'[x] = low'[m] /\ Reaches(m, x)
    BY <1>8 DEF LowInv
  <2>1. CASE m = n
    BY <1>2, <1>5, <1>7, <2>1, ReachesSelf
  <2>2. CASE m \in OnStack
    BY <1>2, <1>3, <1>5, <1>7, <2>2 DEF LowInv
  <2>. QED
    BY <1>7, <2>1, <2>2
<1>17. ChargeInv'
  <2>. SUFFICES ASSUME NEW m \in OnStack', NEW x \in OnStack',
                       x \in Cycles!Succ(m)', LookedAt(m, x)',
                       NEW i \in DOMAIN work, work[i].node \in Met', index'[work[i].node] <= index'[m]
                PROVE  \E j \in DOMAIN work :
                         /\ i <= j /\ work[j].node \in Met'
                         /\ index'[work[j].node] <= index'[m] /\ low'[work[j].node] <= index'[x]
    BY <1>1 DEF ChargeInv, Charged
  <2>1. m \in OnStack /\ m # n
    BY <1>1, <1>2, <1>7, <1>10 DEF LookedAt
  <2>2. work[i].node \in Met /\ work[i].node # n /\ i \in Nat
    BY <1>2, <1>4, <1>5, <2>1
  <2>3. CASE x = n
    <3>1. low[work[i].node] <= index[work[i].node]
      BY <1>3, <1>10, <2>2 DEF LowInv
    <3>. QED
      BY <1>2, <1>4, <1>5, <2>2, <2>3, <3>1
  <2>4. CASE x \in OnStack
    <3>1. x \in Cycles!Succ(m) /\ LookedAt(m, x) /\ index[work[i].node] <= index[m]
      BY <1>1, <1>2, <1>5, <1>8, <2>1, <2>2 DEF LookedAt
    <3>2. PICK j \in DOMAIN work : /\ i <= j /\ work[j].node \in Met
                                   /\ index[work[j].node] <= index[m] /\ low[work[j].node] <= index[x]
      BY <1>3, <2>1, <2>2, <2>4, <3>1 DEF ChargeInv, Charged
    <3>. QED
      BY <1>2, <1>4, <1>5, <2>1, <2>4, <3>2
  <2>. QED
    BY <1>7, <2>3, <2>4
<1>18. ReachInv'
  <2>1. ASSUME NEW i \in DOMAIN work, NEW x \in OnStack', work[i].node \in Met', index'[work[i].node] <= index'[x]
        PROVE  Reaches(work[i].node, x)
    <3>1. CASE x = n
      <4>1. i <= L
        BY <1>2
      <4>. QED
        BY <1>2, <1>3, <1>10, <3>1, <4>1 DEF ReachInv
    <3>2. CASE x \in OnStack
      <4>1. work[i].node \in Met /\ index[work[i].node] <= index[x]
        BY <1>2, <1>4, <1>5, <2>1, <3>2
      <4>. QED
        BY <1>3, <3>2, <4>1 DEF ReachInv
    <3>. QED
      BY <1>7, <3>1, <3>2
  <2>. QED
    BY <1>1, <1>3, <1>8, <2>1 DEF ReachInv
<1>. QED
  BY <1>11, <1>12, <1>13, <1>14, <1>15, <1>16, <1>17, <1>18 DEF CycleInv

\* The top of the work stack, once it was met.
LEMMA TopFacts ==
  ASSUME CycleInv, IsFiniteSet(Walked), work # <<>>, Top.node \in Met
  PROVE  /\ Top.node \in OnStack /\ \A i \in DOMAIN work : work[i].node \in OnStack
         /\ \A i \in DOMAIN work : work[i].seen \subseteq Met
         /\ \A i \in DOMAIN work : work[i].seen \subseteq Cycles!Succ(work[i].node)
<1>1. Len(work) \in DOMAIN work
  BY SearchFacts
<1>2. \A i \in DOMAIN work : work[i].node \in OnStack
  BY DEF CycleInv, WorkInv, Top
<1>3. \A i \in DOMAIN work : \A c \in work[i].seen : c \in Met /\ c \in Cycles!Succ(work[i].node)
  BY DEF CycleInv, WorkInv
<1>. QED
  BY <1>1, <1>2, <1>3 DEF Top

LEMMA LookMetStep ==
  ASSUME CycleInv, IsFiniteSet(Walked), UNCHANGED vars, work # <<>>,
         NEW child \in Cycles!Succ(Top.node), child \in Met, Cycles!LookAt(child)
  PROVE  CycleInv'
<1>. DEFINE n == Top.node
            L == Len(work)
<1>1. /\ n \in Met /\ index' = index /\ stack' = stack /\ cyclic' = cyclic
      /\ work' = [work EXCEPT ![L].seen = @ \cup {child}]
      /\ low' = IF child \in OnStack
                THEN [low EXCEPT ![n] = Cycles!Smaller(@, index[child])] ELSE low
  <2>1. Cycles!Top = Top
    BY DEF Cycles!Top, Top, Cycles!Last
  <2>2. Cycles!ToSet(stack) = OnStack
    BY DEF Cycles!ToSet, OnStack, ToSet
  <2>. QED
    BY <2>1, <2>2 DEF Cycles!LookAt, Met
<1>2. /\ OnStack \subseteq Met /\ Met \subseteq Walked
      /\ L \in Nat /\ L \in DOMAIN work /\ DOMAIN work = 1..L /\ n \in OnStack
      /\ \A m \in Met : index[m] \in Nat /\ low[m] \in Nat
      /\ \A i \in DOMAIN work : work[i].node \in OnStack
      /\ child \in Walked
  BY <1>1, SearchFacts, TopFacts DEF Cycles!Succ
<1>3. /\ SearchTypeOK /\ NumberInv /\ WorkInv /\ ClosedInv /\ LeftInv /\ LowInv /\ ChargeInv /\ ReachInv
  BY DEF CycleInv
<1>4. /\ Met' = Met /\ OnStack' = OnStack /\ Closed' = Closed
      /\ Walked' = Walked /\ \A m : Cycles!Succ(m)' = Cycles!Succ(m)
      /\ \A a, b : Reaches(a, b)' <=> Reaches(a, b)
      /\ \A m : Cycles!OnCycle(m)' <=> Cycles!OnCycle(m)
  BY <1>1, GraphFixed DEF Met, Cycles!Met, OnStack, Closed
<1>5. work \in Seq([node : Walked, seen : SUBSET Walked])
  BY <1>3 DEF SearchTypeOK
<1>6. \A i \in DOMAIN work : work[i] \in [node : Walked, seen : SUBSET Walked]
  <2>. DEFINE Frame == [node : Walked, seen : SUBSET Walked]
  <2>1. work \in Seq(Frame)
    BY <1>5
  <2>. HIDE DEF Frame
  <2>2. \A i \in DOMAIN work : work[i] \in Frame
    BY <2>1
  <2>. QED
    BY <2>2 DEF Frame
<1>7. /\ DOMAIN work' = DOMAIN work /\ Len(work') = L
      /\ work'[L] = [work[L] EXCEPT !.seen = @ \cup {child}]
      /\ \A i \in DOMAIN work : i # L => work'[i] = work[i]
      /\ work' \in Seq([node : Walked, seen : SUBSET Walked])
  <2>. DEFINE Frame == [node : Walked, seen : SUBSET Walked]
              frame == [work[L] EXCEPT !.seen = @ \cup {child}]
  <2>1. frame \in Frame
    BY <1>2, <1>6
  <2>2. work \in Seq(Frame) /\ work' = [work EXCEPT ![L] = frame]
    BY <1>1, <1>5
  <2>. HIDE DEF Frame, frame
  <2>3. /\ DOMAIN work' = DOMAIN work /\ Len(work') = L /\ work'[L] = frame
        /\ \A i \in DOMAIN work : i # L => work'[i] = work[i]
    BY <1>2, <2>1, <2>2
  <2>4. work' \in Seq(Frame)
    BY <1>2, <2>1, <2>2, ExceptSeq
  <2>. QED
    BY <2>3, <2>4 DEF Frame, frame
<1>8. /\ work[L].node = n /\ work'[L].node = n /\ work'[L].seen = work[L].seen \cup {child}
      /\ \A i \in DOMAIN work : work'[i].node = work[i].node
  BY <1>2, <1>6, <1>7 DEF Top
<1>9. Top'.node = n /\ Explored' = Explored
  <2>1. Top'.node = n
    BY <1>7, <1>8 DEF Top
  <2>2. Explored' = {work[i].node : i \in DOMAIN work}
    BY <1>7, <1>8 DEF Explored
  <2>. QED
    BY <2>1, <2>2 DEF Explored
<1>10. /\ low'[n] \in Nat /\ low'[n] <= low[n]
       /\ child \in OnStack => low'[n] <= index[child]
       /\ low'[n] = low[n] \/ (child \in OnStack /\ low'[n] = index[child])
       /\ \A m \in Met : m # n => low'[m] = low[m]
       /\ low' \in [Met -> Nat]
  <2>1. low \in [Met -> Nat] /\ index[child] \in Nat /\ low[n] \in Nat /\ n \in Met
    BY <1>1, <1>2, <1>3 DEF SearchTypeOK
  <2>2. CASE child \in OnStack
    <3>. DEFINE s == Cycles!Smaller(low[n], index[child])
    <3>1. s \in Nat /\ s <= low[n] /\ s <= index[child] /\ (s = low[n] \/ s = index[child])
      BY <2>1 DEF Cycles!Smaller
    <3>2. low' = [low EXCEPT ![n] = s]
      BY <1>1, <2>2
    <3>. HIDE DEF s, n
    <3>. QED
      BY <2>1, <2>2, <3>1, <3>2
  <2>3. CASE child \notin OnStack
    <3>1. low' = low
      BY <1>1, <2>3
    <3>. QED
      BY <2>1, <2>3, <3>1
  <2>. QED
    BY <2>2, <2>3
<1>. HIDE DEF n, L
<1>11. SearchTypeOK'
  BY <1>1, <1>3, <1>4, <1>7, <1>10 DEF SearchTypeOK
<1>12. NumberInv'
  BY <1>1, <1>3, <1>4 DEF NumberInv
<1>13. WorkInv'
  <2>1. \A i \in DOMAIN work' : work'[i].node \in OnStack'
    BY <1>2, <1>4, <1>7, <1>8
  <2>2. \A i, j \in DOMAIN work' : i < j /\ work'[j].node \in Met' =>
          index'[work'[i].node] < index'[work'[j].node]
    BY <1>1, <1>3, <1>4, <1>7, <1>8 DEF WorkInv
  <2>3. ASSUME NEW i \in DOMAIN work', NEW c \in work'[i].seen
        PROVE  c \in Cycles!Succ(work[i].node) /\ c \in Met
    <3>1. \A k \in DOMAIN work : work[k].seen \subseteq Met
                                 /\ work[k].seen \subseteq Cycles!Succ(work[k].node)
      BY <1>1, TopFacts DEF n
    <3>2. CASE i = L
      BY <1>2, <1>7, <1>8, <2>3, <3>1, <3>2 DEF n
    <3>3. CASE i # L
      BY <1>7, <2>3, <3>1, <3>3
    <3>. QED
      BY <3>2, <3>3
  <2>4. \A x \in OnStack' : work' # <<>> /\ work'[1].node \in Met' /\ index'[work'[1].node] <= index'[x]
    <3>1. 1 \in DOMAIN work /\ work' # <<>>
      BY <1>2, <1>7
    <3>. QED
      BY <1>1, <1>3, <1>4, <1>8, <3>1 DEF WorkInv
  <2>5. \A i \in DOMAIN work' : \A c \in work'[i].seen : c \in Cycles!Succ(work[i].node)' /\ c \in Met'
    BY <1>4, <1>7, <1>8, <2>3
  <2>. QED
    BY <2>1, <2>2, <2>4, <2>5 DEF WorkInv
<1>14. ClosedInv'
  <2>1. {c \in Closed : Cycles!OnCycle(c)}' = {c \in Closed : Cycles!OnCycle(c)}
    BY <1>4
  <2>. QED
    BY <1>1, <1>3, <1>4, <2>1 DEF ClosedInv
<1>15. LeftInv'
  <2>1. n \in Explored
    BY <1>2, <1>8 DEF Explored
  <2>. QED
    BY <1>1, <1>2, <1>3, <1>4, <1>9, <1>10, <2>1 DEF LeftInv
<1>16. LowInv'
  <2>. SUFFICES ASSUME NEW m \in OnStack
                PROVE  low'[m] <= index[m] /\ \E x \in OnStack : index[x] = low'[m] /\ Reaches(m, x)
    BY <1>1, <1>4 DEF LowInv
  <2>1. low[m] <= index[m] /\ \E x \in OnStack : index[x] = low[m] /\ Reaches(m, x)
    BY <1>3 DEF LowInv
  <2>2. CASE m = n /\ low'[n] # low[n]
    <3>1. child \in OnStack /\ low'[n] = index[child] /\ Reaches(n, child)
      BY <1>10, <2>2, ReachesNext DEF n
    <3>. QED
      BY <1>2, <1>10, <2>1, <2>2, <3>1
  <2>3. CASE ~(m = n /\ low'[n] # low[n])
    <3>1. low'[m] = low[m]
      BY <1>2, <1>10, <2>3
    <3>. QED
      BY <2>1, <3>1
  <2>. QED
    BY <2>2, <2>3
<1>17. ChargeInv'
  <2>. SUFFICES ASSUME NEW m \in OnStack, NEW x \in OnStack, x \in Cycles!Succ(m), LookedAt(m, x)',
                       NEW i \in DOMAIN work, work[i].node \in Met, index[work[i].node] <= index[m]
                PROVE  \E j \in DOMAIN work :
                         /\ i <= j /\ work[j].node \in Met
                         /\ index[work[j].node] <= index[m] /\ low'[work[j].node] <= index[x]
    BY <1>1, <1>4, <1>7, <1>8 DEF ChargeInv, Charged
  <2>1. CASE m = n /\ x = child
    <3>1. i <= L /\ index[n] <= index[m]
      BY <1>2, <2>1
    <3>. QED
      BY <1>1, <1>2, <1>8, <1>10, <2>1, <3>1
  <2>2. CASE ~(m = n /\ x = child)
    <3>1. ASSUME NEW k \in DOMAIN work, work[k].node = m PROVE x \in work[k].seen
      <4>1. x \in work'[k].seen
        BY <1>7, <1>8, <3>1 DEF LookedAt
      <4>2. CASE k = L
        BY <1>8, <2>2, <3>1, <4>1, <4>2
      <4>3. CASE k # L
        BY <1>7, <4>1, <4>3
      <4>. QED
        BY <4>2, <4>3
    <3>2. PICK j \in DOMAIN work : /\ i <= j /\ work[j].node \in Met
                                   /\ index[work[j].node] <= index[m] /\ low[work[j].node] <= index[x]
      BY <1>3, <3>1 DEF ChargeInv, Charged, LookedAt
    <3>3. low'[work[j].node] <= low[work[j].node] /\ low'[work[j].node] \in Nat
      <4>1. CASE work[j].node = n
        BY <1>10, <4>1
      <4>2. CASE work[j].node # n
        BY <1>2, <1>10, <3>2, <4>2
      <4>. QED
        BY <4>1, <4>2
    <3>4. low[work[j].node] \in Nat /\ index[x] \in Nat
      BY <1>2, <3>2
    <3>. QED
      BY <3>2, <3>3, <3>4
  <2>. QED
    BY <2>1, <2>2
<1>18. ReachInv'
  BY <1>1, <1>3, <1>4, <1>7, <1>8 DEF ReachInv
<1>. QED
  BY <1>11, <1>12, <1>13, <1>14, <1>15, <1>16, <1>17, <1>18 DEF CycleInv

LEMMA LookNewStep ==
  ASSUME CycleInv, IsFiniteSet(Walked), UNCHANGED vars, work # <<>>,
         NEW child \in Cycles!Succ(Top.node), child \notin Met, Cycles!LookAt(child)
  PROVE  CycleInv'
<1>. DEFINE n == Top.node
            L == Len(work)
            Frame == [node : Walked, seen : SUBSET Walked]
            looked1 == [work[L] EXCEPT !.seen = @ \cup {child}]
            fresh == [node |-> child, seen |-> {}]
<1>1. /\ n \in Met /\ index' = index /\ stack' = stack /\ cyclic' = cyclic /\ low' = low
      /\ work' = Append([work EXCEPT ![L] = looked1], fresh)
  <2>1. Cycles!Top = Top
    BY DEF Cycles!Top, Top, Cycles!Last
  <2>. QED
    BY <2>1 DEF Cycles!LookAt, Met
<1>2. /\ OnStack \subseteq Met /\ Met \subseteq Walked
      /\ L \in Nat /\ L \in DOMAIN work /\ DOMAIN work = 1..L /\ n \in OnStack
      /\ \A i \in DOMAIN work : work[i].node \in OnStack
      /\ child \in Walked /\ child \notin OnStack
  BY <1>1, SearchFacts, TopFacts DEF Cycles!Succ
<1>3. /\ SearchTypeOK /\ NumberInv /\ WorkInv /\ ClosedInv /\ LeftInv /\ LowInv /\ ChargeInv /\ ReachInv
  BY DEF CycleInv
<1>4. /\ Met' = Met /\ OnStack' = OnStack /\ Closed' = Closed
      /\ Walked' = Walked /\ \A m : Cycles!Succ(m)' = Cycles!Succ(m)
      /\ \A a, b : Reaches(a, b)' <=> Reaches(a, b)
      /\ \A m : Cycles!OnCycle(m)' <=> Cycles!OnCycle(m)
  BY <1>1, GraphFixed DEF Met, Cycles!Met, OnStack, Closed
<1>5. work \in Seq(Frame)
  BY <1>3 DEF SearchTypeOK
<1>6. \A i \in DOMAIN work : work[i] \in Frame
  <2>. HIDE DEF Frame
  <2>. QED
    BY <1>5
<1>7. looked1 \in Frame /\ fresh \in Frame
  BY <1>2, <1>6
<1>8. /\ DOMAIN work' = 1..(L + 1) /\ Len(work') = L + 1
      /\ work'[L] = looked1 /\ work'[L + 1] = fresh
      /\ \A i \in 1..L : i # L => work'[i] = work[i]
      /\ work' \in Seq(Frame)
  <2>. HIDE DEF Frame, looked1, fresh
  <2>. DEFINE mid == [work EXCEPT ![L] = looked1]
  <2>1. mid \in Seq(Frame) /\ Len(mid) = L /\ DOMAIN mid = 1..L
        /\ mid[L] = looked1 /\ \A i \in 1..L : i # L => mid[i] = work[i]
    BY <1>2, <1>5, <1>7, ExceptSeq
  <2>2. work' = Append(mid, fresh)
    BY <1>1
  <2>. HIDE DEF mid, L
  <2>3. /\ work' \in Seq(Frame) /\ Len(work') = L + 1 /\ work'[L + 1] = fresh
        /\ \A i \in 1..L : work'[i] = mid[i]
    BY <1>7, <2>1, <2>2, AppendProperties
  <2>4. DOMAIN work' = 1..(L + 1) /\ L \in 1..L
    BY <1>2, <2>3
  <2>. QED
    BY <2>1, <2>3, <2>4
<1>9. /\ work[L].node = n /\ work'[L].seen = work[L].seen \cup {child}
      /\ \A i \in 1..L : work'[i].node = work[i].node /\ work'[i].node \in OnStack
      /\ work'[L + 1].node = child /\ work'[L + 1].seen = {}
  BY <1>2, <1>6, <1>8 DEF Top
<1>10. Top'.node = child /\ Explored' = Explored \cup {child}
  <2>1. Top'.node = child
    BY <1>8, <1>9 DEF Top
  <2>2. 1..(L + 1) = (1..L) \cup {L + 1}
    BY <1>2
  <2>3. {work'[i].node : i \in 1..(L + 1)} = {work'[i].node : i \in 1..L} \cup {work'[L + 1].node}
    BY <2>2
  <2>4. {work'[i].node : i \in 1..L} = {work[i].node : i \in 1..L}
    BY <1>9
  <2>. QED
    BY <1>2, <1>8, <1>9, <2>1, <2>3, <2>4 DEF Explored
<1>11. \A i \in DOMAIN work' : i \in 1..L \/ i = L + 1
  BY <1>2, <1>8
<1>12. 1..L \subseteq DOMAIN work' /\ L + 1 \in DOMAIN work' /\ \A i \in 1..L : i <= L /\ i # L + 1
  BY <1>2, <1>8
<1>. HIDE DEF n, L, looked1, fresh
<1>13. SearchTypeOK'
  BY <1>1, <1>3, <1>4, <1>8 DEF SearchTypeOK
<1>14. NumberInv'
  BY <1>1, <1>3, <1>4 DEF NumberInv
<1>. HIDE DEF Frame
<1>15. WorkInv'
  <2>1. \A i \in DOMAIN work' : work'[i].node \in OnStack'
                                \/ (i = Len(work') /\ work'[i].node \notin Met' /\ work'[i].seen = {})
    BY <1>4, <1>8, <1>9, <1>11
  <2>2. ASSUME NEW i \in DOMAIN work', NEW j \in DOMAIN work', i < j, work'[j].node \in Met'
        PROVE  index'[work'[i].node] < index'[work'[j].node]
    <3>1. j \in 1..L
      BY <1>4, <1>9, <1>11, <2>2
    <3>2. i \in 1..L
      BY <1>2, <1>11, <2>2, <3>1
    <3>3. work[j].node \in Met /\ index[work[i].node] < index[work[j].node]
      BY <1>2, <1>3, <1>4, <1>9, <2>2, <3>1, <3>2 DEF WorkInv
    <3>. QED
      BY <1>1, <1>9, <3>1, <3>2, <3>3
  <2>3. ASSUME NEW i \in DOMAIN work', NEW c \in work'[i].seen
        PROVE  /\ i \in 1..L /\ c \in Cycles!Succ(work[i].node)
               /\ c \in Met \/ c = child
    <3>1. i \in 1..L
      BY <1>9, <1>11, <2>3
    <3>2. work[i].seen \subseteq Met /\ work[i].seen \subseteq Cycles!Succ(work[i].node)
      BY <1>1, <1>2, <3>1, TopFacts DEF n
    <3>3. CASE i = L
      BY <1>9, <2>3, <3>1, <3>2, <3>3 DEF n
    <3>4. CASE i # L
      BY <1>8, <2>3, <3>1, <3>2, <3>4
    <3>. QED
      BY <3>1, <3>3, <3>4
  <2>4. \A i \in DOMAIN work' : \A c \in work'[i].seen :
          i \in 1..L /\ c \in Cycles!Succ(work[i].node)' /\ (c \in Met' \/ c = Top'.node)
    BY <1>4, <1>9, <1>10, <2>3
  <2>5. \A x \in OnStack' : work' # <<>> /\ work'[1].node \in Met' /\ index'[work'[1].node] <= index'[x]
    <3>1. 1 \in 1..L /\ work' # <<>>
      BY <1>2, <1>8
    <3>. QED
      BY <1>1, <1>3, <1>4, <1>9, <3>1 DEF WorkInv
  <2>6. \A i \in DOMAIN work' : \A c \in work'[i].seen :
          c \in Cycles!Succ(work[i].node)' /\ work'[i].node = work[i].node
    BY <1>9, <2>4
  <2>. QED
    BY <2>1, <2>2, <2>4, <2>5, <2>6 DEF WorkInv
<1>16. ClosedInv'
  <2>1. {c \in Closed : Cycles!OnCycle(c)}' = {c \in Closed : Cycles!OnCycle(c)}
    BY <1>4
  <2>. QED
    BY <1>1, <1>3, <1>4, <2>1 DEF ClosedInv
<1>17. LeftInv'
  BY <1>1, <1>3, <1>4, <1>10 DEF LeftInv
<1>18. LowInv'
  BY <1>1, <1>3, <1>4 DEF LowInv
<1>19. ChargeInv'
  <2>. SUFFICES ASSUME NEW m \in OnStack, NEW x \in OnStack, x \in Cycles!Succ(m), LookedAt(m, x)',
                       NEW i \in DOMAIN work', work'[i].node \in Met, index[work'[i].node] <= index[m]
                PROVE  \E j \in DOMAIN work' :
                         /\ i <= j /\ work'[j].node \in Met
                         /\ index[work'[j].node] <= index[m] /\ low[work'[j].node] <= index[x]
    BY <1>1, <1>4 DEF ChargeInv, Charged
  <2>1. ASSUME NEW k \in 1..L, work[k].node = m PROVE x \in work[k].seen
    <3>1. x \in work'[k].seen /\ x # child
      BY <1>2, <1>9, <1>12, <2>1 DEF LookedAt
    <3>2. CASE k = L
      BY <1>9, <3>1, <3>2
    <3>3. CASE k # L
      BY <1>8, <3>1, <3>3
    <3>. QED
      BY <3>2, <3>3
  <2>2. i \in 1..L
    BY <1>9, <1>11
  <2>3. PICK j \in 1..L : /\ i <= j /\ work[j].node \in Met
                          /\ index[work[j].node] <= index[m] /\ low[work[j].node] <= index[x]
    BY <1>2, <1>3, <1>9, <2>1, <2>2 DEF ChargeInv, Charged, LookedAt
  <2>. QED
    BY <1>9, <1>12, <2>3
<1>20. ReachInv'
  <2>1. ASSUME NEW i \in DOMAIN work', NEW j \in DOMAIN work', i <= j
        PROVE  Reaches(work'[i].node, work'[j].node)
    <3>1. CASE j \in 1..L
      <4>1. i \in 1..L
        BY <1>2, <1>11, <2>1, <3>1
      <4>. QED
        BY <1>2, <1>3, <1>9, <2>1, <3>1, <4>1 DEF ReachInv
    <3>2. CASE j = L + 1 /\ i \in 1..L
      <4>1. Reaches(work[i].node, n)
        BY <1>2, <1>3, <1>9, <1>12, <3>2 DEF ReachInv
      <4>2. Reaches(n, child)
        BY ReachesNext DEF n
      <4>. QED
        BY <1>9, <3>2, <4>1, <4>2, ReachesOn
    <3>3. CASE j = L + 1 /\ i = L + 1
      BY <3>3, ReachesSelf
    <3>. QED
      BY <1>11, <3>1, <3>2, <3>3
  <2>2. ASSUME NEW i \in DOMAIN work', NEW x \in OnStack, work'[i].node \in Met, index[work'[i].node] <= index[x]
        PROVE  Reaches(work'[i].node, x)
    <3>1. i \in 1..L
      BY <1>9, <1>11, <2>2
    <3>. QED
      BY <1>2, <1>3, <1>9, <2>2, <3>1 DEF ReachInv
  <2>3. \A i, j \in DOMAIN work' : i <= j => Reaches(work'[i].node, work'[j].node)
    BY <2>1
  <2>4. \A i \in DOMAIN work' : \A x \in OnStack :
          work'[i].node \in Met /\ index[work'[i].node] <= index[x] => Reaches(work'[i].node, x)
    BY <2>2
  <2>. QED
    BY <1>1, <1>4, <2>3, <2>4 DEF ReachInv
<1>. QED
  BY <1>13, <1>14, <1>15, <1>16, <1>17, <1>18, <1>19, <1>20 DEF CycleInv

\* What every return has in common: the top frame goes, and all its successors were met.
LEMMA ReturnFacts ==
  ASSUME CycleInv, IsFiniteSet(Walked), UNCHANGED vars, Cycles!Return,
         NEW n, n = Top.node, NEW L, L = Len(work)
  PROVE  /\ L \in Nat /\ L \in DOMAIN work /\ DOMAIN work = 1..L
         /\ work[L].node = n /\ work[L].seen = Cycles!Succ(n)
         /\ n \in OnStack /\ OnStack \subseteq Met /\ Met \subseteq Walked
         /\ \A m \in Met : index[m] \in Nat /\ low[m] \in Nat
         /\ \A i \in DOMAIN work : work[i].node \in OnStack /\ work[i].seen \subseteq Met
         /\ \A i \in 1..L : i # L => index[work[i].node] < index[n]
         /\ Cycles!Succ(n) \subseteq Met
         /\ DOMAIN work' = 1..(L - 1) /\ Len(work') = L - 1
         /\ \A i \in 1..(L - 1) : work'[i] = work[i] /\ i \in 1..L /\ i # L
         /\ \A i \in 1..L : i \in 1..(L - 1) \/ i = L
         /\ work' \in Seq([node : Walked, seen : SUBSET Walked])
         /\ index' = index /\ Met' = Met
         /\ Explored' = Explored \ {n} /\ n \in Explored
         /\ Walked' = Walked /\ \A m : Cycles!Succ(m)' = Cycles!Succ(m)
         /\ \A a, b : Reaches(a, b)' <=> Reaches(a, b)
         /\ \A m : Cycles!OnCycle(m)' <=> Cycles!OnCycle(m)
<1>. DEFINE Frame == [node : Walked, seen : SUBSET Walked]
<1>1. /\ work # <<>> /\ n \in Met /\ Top.seen = Cycles!Succ(n) /\ index' = index
      /\ work' = SubSeq(work, 1, L - 1)
  <2>1. Cycles!Top = Top /\ Cycles!Front(work) = SubSeq(work, 1, L - 1)
    BY DEF Cycles!Top, Top, Cycles!Last, Cycles!Front
  <2>. QED
    BY <2>1 DEF Cycles!Return, Met
<1>2. /\ L \in Nat /\ L \in DOMAIN work /\ DOMAIN work = 1..L
      /\ OnStack \subseteq Met /\ Met \subseteq Walked
      /\ \A m \in Met : index[m] \in Nat /\ low[m] \in Nat
  BY <1>1, SearchFacts
<1>3. /\ n \in OnStack
      /\ \A i \in DOMAIN work : work[i].node \in OnStack /\ work[i].seen \subseteq Met
  BY <1>1, TopFacts
<1>4. work[L].node = n /\ work[L].seen = Cycles!Succ(n)
  BY <1>1 DEF Top
<1>5. \A i \in 1..L : i # L => index[work[i].node] < index[n]
  <2>1. \A i, j \in DOMAIN work : i < j /\ work[j].node \in Met =>
          index[work[i].node] < index[work[j].node]
    BY DEF CycleInv, WorkInv
  <2>2. \A i \in 1..L : i # L => i < L
    BY <1>2
  <2>. QED
    BY <1>1, <1>2, <1>4, <2>1, <2>2
<1>6. work \in Seq(Frame)
  BY DEF CycleInv, SearchTypeOK
<1>7. /\ DOMAIN work' = 1..(L - 1) /\ Len(work') = L - 1
      /\ \A i \in 1..(L - 1) : work'[i] = work[i] /\ i \in 1..L /\ i # L
      /\ work' \in Seq(Frame)
  <2>. HIDE DEF Frame
  <2>1. 1 \in 1..(L + 1) /\ L - 1 \in 0..L /\ L >= 1
    BY <1>2
  <2>2. work' \in Seq(Frame) /\ Len(work') = L - 1
    BY <1>1, <1>2, <1>6, <2>1, SubSeqProperties
  <2>3. \A i \in 1..(L - 1) : work'[i] = work[i]
    BY <1>1, <1>2, <1>6, <2>1, SubSeqProperties
  <2>4. DOMAIN work' = 1..(L - 1) /\ \A i \in 1..(L - 1) : i \in 1..L /\ i # L
    BY <1>2, <2>2
  <2>. QED
    BY <2>2, <2>3, <2>4
<1>8. \A i \in 1..L : i \in 1..(L - 1) \/ i = L
  BY <1>2
<1>9. Explored' = Explored \ {n} /\ n \in Explored
  <2>1. Explored = {work[i].node : i \in 1..L} /\ Explored' = {work[i].node : i \in 1..(L - 1)}
    BY <1>2, <1>7 DEF Explored
  <2>2. \A i \in 1..(L - 1) : work[i].node # n
    <3>1. \A i \in 1..(L - 1) : index[work[i].node] < index[n]
      BY <1>5, <1>7
    <3>2. index[n] \in Nat
      BY <1>1, <1>2
    <3>. QED
      BY <3>1, <3>2
  <2>. QED
    BY <1>2, <1>4, <1>7, <1>8, <2>1, <2>2
<1>10. /\ Walked' = Walked /\ \A m : Cycles!Succ(m)' = Cycles!Succ(m)
       /\ \A a, b : Reaches(a, b)' <=> Reaches(a, b)
       /\ \A m : Cycles!OnCycle(m)' <=> Cycles!OnCycle(m)
  BY GraphFixed
<1>11. Met' = Met /\ Cycles!Succ(n) \subseteq Met
  BY <1>1, <1>2, <1>3, <1>4 DEF Met, Cycles!Met
<1>. QED
  BY <1>1, <1>2, <1>3, <1>4, <1>5, <1>7, <1>8, <1>9, <1>10, <1>11

\* A node is left and stays on the stack: what it knows goes to the node above it.
LEMMA LeaveStep ==
  ASSUME CycleInv, IsFiniteSet(Walked), UNCHANGED vars, Cycles!Return, low[Top.node] # index[Top.node]
  PROVE  CycleInv'
<1>. DEFINE n == Top.node
            L == Len(work)
            p == work[L - 1].node
<1>1. /\ L \in Nat /\ L \in DOMAIN work /\ DOMAIN work = 1..L
      /\ work[L].node = n /\ work[L].seen = Cycles!Succ(n)
      /\ n \in OnStack /\ OnStack \subseteq Met /\ Met \subseteq Walked
      /\ \A m \in Met : index[m] \in Nat /\ low[m] \in Nat
      /\ \A i \in DOMAIN work : work[i].node \in OnStack /\ work[i].seen \subseteq Met
      /\ \A i \in 1..L : i # L => index[work[i].node] < index[n]
      /\ Cycles!Succ(n) \subseteq Met
  BY ReturnFacts
<1>2. /\ DOMAIN work' = 1..(L - 1) /\ Len(work') = L - 1
      /\ \A i \in 1..(L - 1) : work'[i] = work[i] /\ i \in 1..L /\ i # L
      /\ \A i \in 1..L : i \in 1..(L - 1) \/ i = L
      /\ work' \in Seq([node : Walked, seen : SUBSET Walked])
      /\ index' = index /\ Met' = Met
      /\ Explored' = Explored \ {n} /\ n \in Explored
  BY ReturnFacts
<1>3. /\ Walked' = Walked /\ \A m : Cycles!Succ(m)' = Cycles!Succ(m)
      /\ \A a, b : Reaches(a, b)' <=> Reaches(a, b)
      /\ \A m : Cycles!OnCycle(m)' <=> Cycles!OnCycle(m)
  BY GraphFixed
<1>4. /\ SearchTypeOK /\ NumberInv /\ WorkInv /\ ClosedInv /\ LeftInv /\ LowInv /\ ChargeInv /\ ReachInv
  BY DEF CycleInv
<1>5. /\ stack' = stack /\ cyclic' = cyclic /\ OnStack' = OnStack /\ Closed' = Closed
      /\ low' = IF work' = <<>> THEN low
                ELSE [low EXCEPT ![work'[Len(work')].node] = Cycles!Smaller(@, low[n])]
  <2>1. Cycles!Top = Top
    BY DEF Cycles!Top, Top, Cycles!Last
  <2>2. /\ stack' = stack /\ cyclic' = cyclic
        /\ low' = IF work' = <<>> THEN low
                  ELSE [low EXCEPT ![work'[Len(work')].node] = Cycles!Smaller(@, low[n])]
    BY <2>1 DEF Cycles!Return, Cycles!Last
  <2>. QED
    BY <1>2, <2>2 DEF OnStack, Closed
<1>6. low[n] < index[n]
  <2>1. low[n] <= index[n]
    BY <1>1, <1>4 DEF LowInv
  <2>2. low[n] \in Nat /\ index[n] \in Nat /\ low[n] # index[n]
    BY <1>1
  <2>. HIDE DEF n
  <2>. QED
    BY <2>1, <2>2
<1>7. L - 1 \in 1..(L - 1) /\ L - 1 \in 1..L /\ L - 1 < L
  <2>1. L # 1
    <3>. SUFFICES ASSUME L = 1 PROVE FALSE
      OBVIOUS
    <3>1. PICK x \in OnStack : index[x] = low[n]
      BY <1>1, <1>4 DEF LowInv
    <3>2. index[n] <= index[x]
      BY <1>1, <1>4, <3>1 DEF WorkInv
    <3>. QED
      BY <1>1, <1>6, <3>1, <3>2
  <2>2. L \in Nat /\ L \in 1..L
    BY <1>1
  <2>. HIDE DEF L
  <2>. QED
    BY <2>1, <2>2
<1>8. /\ p \in OnStack /\ p \in Explored /\ p \in Met /\ p # n /\ index[p] < index[n]
      /\ low' = [low EXCEPT ![p] = Cycles!Smaller(@, low[n])]
  <2>. HIDE DEF L, n
  <2>1. p \in OnStack /\ index[p] < index[n] /\ p \in Explored
    <3>1. L - 1 \in DOMAIN work /\ L - 1 # L
      BY <1>1, <1>2, <1>7
    <3>. QED
      BY <1>1, <3>1 DEF Explored
  <2>2. work' # <<>> /\ work'[Len(work')].node = p
    BY <1>2, <1>7
  <2>3. index[n] \in Nat /\ index[p] \in Nat
    BY <1>1, <2>1
  <2>. HIDE DEF p
  <2>4. low' = [low EXCEPT ![p] = Cycles!Smaller(@, low[n])]
    BY <1>5, <2>2
  <2>. QED
    BY <1>1, <2>1, <2>3, <2>4
<1>. HIDE DEF n, L, p
<1>9. /\ low'[p] \in Nat /\ low'[p] <= low[p] /\ low'[p] <= low[n]
      /\ low'[p] = low[p] \/ low'[p] = low[n]
      /\ \A m \in Met : m # p => low'[m] = low[m]
      /\ low' \in [Met -> Nat]
  <2>. DEFINE s == Cycles!Smaller(low[p], low[n])
  <2>1. low \in [Met -> Nat] /\ low[p] \in Nat /\ low[n] \in Nat
    BY <1>1, <1>4, <1>8 DEF SearchTypeOK
  <2>2. s \in Nat /\ s <= low[p] /\ s <= low[n] /\ (s = low[p] \/ s = low[n])
    BY <2>1 DEF Cycles!Smaller
  <2>3. low' = [low EXCEPT ![p] = s]
    BY <1>8
  <2>. HIDE DEF s
  <2>. QED
    BY <1>8, <2>1, <2>2, <2>3
<1>10. \A m \in Met : low'[m] \in Nat /\ low'[m] <= low[m]
  BY <1>1, <1>9
<1>11. SearchTypeOK'
  BY <1>2, <1>3, <1>4, <1>5, <1>9 DEF SearchTypeOK
<1>12. NumberInv'
  BY <1>2, <1>4, <1>5 DEF NumberInv
<1>13. WorkInv'
  <2>1. \A i \in DOMAIN work' : work'[i].node \in OnStack'
    BY <1>1, <1>2, <1>5
  <2>2. \A i, j \in DOMAIN work' : i < j /\ work'[j].node \in Met' =>
          index'[work'[i].node] < index'[work'[j].node]
    BY <1>1, <1>2, <1>4 DEF WorkInv
  <2>3. \A i \in DOMAIN work' : \A c \in work'[i].seen :
          c \in Cycles!Succ(work'[i].node) /\ c \in Met
    BY <1>1, <1>2, <1>4 DEF WorkInv
  <2>4. \A x \in OnStack' : work' # <<>> /\ work'[1].node \in Met' /\ index'[work'[1].node] <= index'[x]
    <3>1. 1 \in 1..(L - 1) /\ work' # <<>>
      BY <1>1, <1>2, <1>7
    <3>. QED
      BY <1>1, <1>2, <1>4, <1>5, <3>1 DEF WorkInv
  <2>5. \A i \in DOMAIN work' : \A c \in work'[i].seen :
          c \in Cycles!Succ(work[i].node)' /\ c \in Met'
    BY <1>2, <1>3, <2>3
  <2>. QED
    BY <2>1, <2>2, <2>4, <2>5 DEF WorkInv
<1>14. ClosedInv'
  <2>1. {c \in Closed : Cycles!OnCycle(c)}' = {c \in Closed : Cycles!OnCycle(c)}
    BY <1>3, <1>5
  <2>. QED
    BY <1>3, <1>4, <1>5, <2>1 DEF ClosedInv
<1>15. LeftInv'
  <2>. SUFFICES ASSUME NEW m \in OnStack, m = n \/ m \notin Explored
                PROVE  Cycles!Succ(m) \subseteq Met /\ low'[m] < index[m]
    BY <1>2, <1>3, <1>5 DEF LeftInv
  <2>1. m # p
    BY <1>8
  <2>. QED
    BY <1>1, <1>4, <1>6, <1>9, <2>1 DEF LeftInv
<1>16. LowInv'
  <2>. SUFFICES ASSUME NEW m \in OnStack
                PROVE  low'[m] <= index[m] /\ \E x \in OnStack : index[x] = low'[m] /\ Reaches(m, x)
    BY <1>2, <1>3, <1>5 DEF LowInv
  <2>1. low[m] <= index[m] /\ \E x \in OnStack : index[x] = low[m] /\ Reaches(m, x)
    BY <1>4 DEF LowInv
  <2>2. low'[m] <= index[m]
    BY <1>1, <1>10, <2>1
  <2>3. CASE m = p /\ low'[p] # low[p]
    <3>1. PICK x \in OnStack : index[x] = low[n] /\ Reaches(n, x)
      BY <1>1, <1>4 DEF LowInv
    <3>2. Reaches(p, n)
      <4>1. L - 1 \in DOMAIN work /\ L \in DOMAIN work /\ L - 1 <= L
        BY <1>1, <1>7
      <4>. QED
        BY <1>1, <1>4, <4>1 DEF ReachInv, p
    <3>. QED
      BY <1>9, <2>2, <2>3, <3>1, <3>2, ReachesOn
  <2>4. CASE ~(m = p /\ low'[p] # low[p])
    <3>1. low'[m] = low[m]
      BY <1>1, <1>9, <2>4
    <3>. QED
      BY <2>1, <3>1
  <2>. QED
    BY <2>3, <2>4
<1>17. ChargeInv'
  <2>. SUFFICES ASSUME NEW m \in OnStack, NEW x \in OnStack, x \in Cycles!Succ(m), LookedAt(m, x)',
                       NEW i \in 1..(L - 1), work[i].node \in Met, index[work[i].node] <= index[m]
                PROVE  \E j \in 1..(L - 1) :
                         /\ i <= j /\ work[j].node \in Met
                         /\ index[work[j].node] <= index[m] /\ low'[work[j].node] <= index[x]
    BY <1>2, <1>3, <1>5 DEF ChargeInv, Charged
  <2>1. \A k \in DOMAIN work : work[k].node = m => x \in work[k].seen
    BY <1>1, <1>2 DEF LookedAt
  <2>2. PICK j \in DOMAIN work : /\ i <= j /\ work[j].node \in Met
                                 /\ index[work[j].node] <= index[m] /\ low[work[j].node] <= index[x]
    BY <1>1, <1>2, <1>4, <2>1 DEF ChargeInv, Charged, LookedAt
  <2>3. /\ index[x] \in Nat /\ index[m] \in Nat /\ index[p] \in Nat /\ index[n] \in Nat
        /\ low[n] \in Nat /\ low[work[j].node] \in Nat
    BY <1>1, <1>8, <2>2
  <2>4. CASE j = L
    <3>1. index[p] <= index[m] /\ low'[p] <= index[x]
      BY <1>1, <1>8, <1>9, <2>2, <2>3, <2>4
    <3>2. i <= L - 1
      BY <1>1
    <3>. QED
      BY <1>7, <1>8, <3>1, <3>2 DEF p
  <2>5. CASE j # L
    <3>1. j \in 1..(L - 1) /\ low'[work[j].node] <= low[work[j].node] /\ low'[work[j].node] \in Nat
      BY <1>1, <1>2, <1>10, <2>2, <2>5
    <3>2. low'[work[j].node] <= index[x]
      BY <2>2, <2>3, <3>1
    <3>. QED
      BY <2>2, <3>1, <3>2
  <2>. QED
    BY <2>4, <2>5
<1>18. ReachInv'
  <2>1. \A i, j \in DOMAIN work' : i <= j => Reaches(work'[i].node, work'[j].node)
    BY <1>1, <1>2, <1>4 DEF ReachInv
  <2>2. \A i \in DOMAIN work' : \A x \in OnStack :
          work'[i].node \in Met /\ index[work'[i].node] <= index[x] => Reaches(work'[i].node, x)
    BY <1>1, <1>2, <1>4 DEF ReachInv
  <2>. QED
    BY <1>2, <1>3, <1>5, <2>1, <2>2 DEF ReachInv
<1>. QED
  BY <1>11, <1>12, <1>13, <1>14, <1>15, <1>16, <1>17, <1>18 DEF CycleInv

\* The component that is popped: all that was met since n, and no edge leaves it but to
\* the components closed before.
LEMMA ComponentFacts ==
  ASSUME CycleInv, IsFiniteSet(Walked), UNCHANGED vars, Cycles!Return,
         NEW n, n = Top.node, low[n] = index[n], NEW C, C = Cycles!Component(n)
  PROVE  /\ C \subseteq OnStack /\ n \in C
         /\ \A m \in OnStack : m \in C <=> index[n] <= index[m]
         /\ OnStack' = OnStack \ C /\ stack' \in Seq(Met) /\ low' = low
         /\ \A i, j \in DOMAIN stack' : i < j => index[stack'[i]] < index[stack'[j]]
         /\ cyclic' = IF Cardinality(C) > 1 \/ n \in Cycles!Succ(n) THEN cyclic \cup C ELSE cyclic
<1>. DEFINE L == Len(work)
            k == Cycles!PlaceOf(n)
            N == Len(stack)
<1>1. /\ L \in Nat /\ L \in DOMAIN work /\ DOMAIN work = 1..L
      /\ n \in OnStack /\ OnStack \subseteq Met
      /\ \A m \in Met : index[m] \in Nat /\ low[m] \in Nat
      /\ \A i \in DOMAIN work : work[i].node \in OnStack
      /\ \A i \in 1..L : i # L => index[work[i].node] < index[n]
  BY ReturnFacts
<1>2. /\ DOMAIN work' = 1..(L - 1) /\ Len(work') = L - 1
      /\ \A i \in 1..(L - 1) : work'[i] = work[i] /\ i \in 1..L /\ i # L
  BY ReturnFacts
<1>3. /\ stack' = SubSeq(stack, 1, k - 1)
      /\ cyclic' = IF Cardinality(C) > 1 \/ n \in Cycles!Succ(n) THEN cyclic \cup C ELSE cyclic
      /\ low' = IF work' = <<>> THEN low
                ELSE [low EXCEPT ![work'[Len(work')].node] = Cycles!Smaller(@, low[n])]
  <2>1. Cycles!Top.node = n
    BY DEF Cycles!Top, Top, Cycles!Last
  <2>. HIDE DEF L, N, k
  <2>2. stack' = SubSeq(stack, 1, k - 1)
    BY <2>1 DEF Cycles!Return, k
  <2>3. cyclic' = IF Cardinality(C) > 1 \/ n \in Cycles!Succ(n) THEN cyclic \cup C ELSE cyclic
    BY <2>1, SameCardinality DEF Cycles!Return
  <2>4. low' = IF work' = <<>> THEN low
               ELSE [low EXCEPT ![work'[Len(work')].node] = Cycles!Smaller(@, low[n])]
    BY <2>1 DEF Cycles!Return, Cycles!Last
  <2>. QED
    BY <2>2, <2>3, <2>4
<1>4. /\ SearchTypeOK /\ NumberInv /\ LowInv
  BY DEF CycleInv
<1>5. /\ stack \in Seq(Met) /\ N \in Nat /\ DOMAIN stack = 1..N
      /\ \A i \in 1..N : stack[i] \in Met
      /\ OnStack = {stack[i] : i \in 1..N}
  BY <1>4 DEF SearchTypeOK, OnStack, ToSet
<1>6. k \in 1..N /\ stack[k] = n /\ k \in Nat
  <2>1. \E i \in DOMAIN stack : stack[i] = n
    BY <1>1, <1>5
  <2>2. k \in DOMAIN stack /\ stack[k] = n
    BY <2>1 DEF Cycles!PlaceOf
  <2>. QED
    BY <1>5, <2>2
<1>7. C = {stack[i] : i \in k..N}
  BY DEF Cycles!Component
<1>. HIDE DEF k, N, L
<1>8. \A i \in 1..N : (k <= i <=> index[n] <= index[stack[i]])
  <2>. SUFFICES ASSUME NEW i \in 1..N PROVE k <= i <=> index[n] <= index[stack[i]]
    OBVIOUS
  <2>1. (i < k => index[stack[i]] < index[n]) /\ (k < i => index[n] < index[stack[i]])
    BY <1>4, <1>5, <1>6 DEF NumberInv
  <2>2. index[n] \in Nat /\ index[stack[i]] \in Nat
    BY <1>1, <1>5
  <2>3. i < k \/ k < i \/ i = k
    BY <1>6
  <2>4. (i < k => ~(k <= i)) /\ (k < i => k <= i) /\ (i = k => k <= i)
    BY <1>6
  <2>. QED
    BY <1>6, <2>1, <2>2, <2>3, <2>4
<1>9. \A i \in 1..N : (i \in k..N <=> k <= i) /\ (i \in 1..(k - 1) <=> ~(k <= i))
  BY <1>5, <1>6
<1>10. k..N \subseteq 1..N /\ 1..(k - 1) \subseteq 1..N /\ k \in k..N
  BY <1>5, <1>6
<1>11. C \subseteq OnStack /\ n \in C
  BY <1>5, <1>6, <1>7, <1>10
<1>12. \A m \in OnStack : m \in C <=> index[n] <= index[m]
  BY <1>5, <1>7, <1>8, <1>9, <1>10
<1>13. /\ stack' \in Seq(Met) /\ DOMAIN stack' = 1..(k - 1)
       /\ \A i \in 1..(k - 1) : stack'[i] = stack[i]
  <2>1. 1 \in 1..(N + 1) /\ k - 1 \in 0..N /\ (k - 1) - 1 + 1 = k - 1
    BY <1>5, <1>6
  <2>2. stack' \in Seq(Met) /\ Len(stack') = k - 1
    BY <1>3, <1>5, <1>6, <2>1, SubSeqProperties DEF N
  <2>3. \A i \in 1..(k - 1) : stack'[i] = stack[i]
    BY <1>3, <1>5, <1>6, <2>1, SubSeqProperties DEF N
  <2>4. DOMAIN stack' = 1..(k - 1)
    BY <2>2
  <2>. QED
    BY <2>2, <2>3, <2>4
<1>14. OnStack' = OnStack \ C
  <2>1. OnStack' = {stack[i] : i \in 1..(k - 1)}
    BY <1>13 DEF OnStack, ToSet
  <2>2. \A i \in 1..N : stack[i] \in C <=> i \in k..N
    BY <1>5, <1>8, <1>9, <1>12
  <2>. QED
    BY <1>5, <1>9, <1>10, <2>1, <2>2
<1>15. \A i, j \in DOMAIN stack' : i < j => index[stack'[i]] < index[stack'[j]]
  BY <1>4, <1>5, <1>10, <1>13 DEF NumberInv
<1>16. low' = low
  <2>1. CASE work' = <<>>
    BY <1>3, <2>1
  <2>2. CASE work' # <<>>
    <3>. DEFINE p == work[L - 1].node
    <3>1. L - 1 \in 1..(L - 1)
      BY <1>1, <1>2, <2>2
    <3>2. p \in OnStack /\ index[p] < index[n] /\ work'[Len(work')].node = p
      BY <1>1, <1>2, <3>1
    <3>3. low[p] <= index[p] /\ p \in Met
      BY <1>1, <1>4, <3>2 DEF LowInv
    <3>4. low[p] \in Nat /\ index[p] \in Nat /\ index[n] \in Nat
      BY <1>1, <3>3
    <3>. HIDE DEF p
    <3>5. Cycles!Smaller(low[p], low[n]) = low[p]
      BY <3>2, <3>3, <3>4 DEF Cycles!Smaller
    <3>6. low \in [Met -> Nat]
      BY <1>4 DEF SearchTypeOK
    <3>. QED
      BY <1>3, <2>2, <3>2, <3>3, <3>5, <3>6
  <2>. QED
    BY <2>1, <2>2
<1>. QED
  BY <1>3, <1>11, <1>12, <1>13, <1>14, <1>15, <1>16

\* The component is closed, all of it reaches n and is reached from n, and it is on a
\* cycle unless it is one node without an edge to itself.
LEMMA ComponentIsStrong ==
  ASSUME CycleInv, IsFiniteSet(Walked), UNCHANGED vars, Cycles!Return,
         NEW n, n = Top.node, low[n] = index[n], NEW C, C = Cycles!Component(n)
  PROVE  /\ \A m \in C : Cycles!Succ(m) \subseteq Closed \cup C
         /\ \A m \in C : Cycles!OnCycle(m) <=> Cardinality(C) > 1 \/ n \in Cycles!Succ(n)
<1>. DEFINE L == Len(work)
<1>1. /\ L \in Nat /\ L \in DOMAIN work /\ DOMAIN work = 1..L
      /\ work[L].node = n /\ work[L].seen = Cycles!Succ(n)
      /\ n \in OnStack /\ OnStack \subseteq Met /\ Met \subseteq Walked
      /\ \A m \in Met : index[m] \in Nat /\ low[m] \in Nat
      /\ \A i \in 1..L : i # L => index[work[i].node] < index[n]
      /\ Cycles!Succ(n) \subseteq Met
  BY ReturnFacts
<1>2. /\ C \subseteq OnStack /\ n \in C
      /\ \A m \in OnStack : m \in C <=> index[n] <= index[m]
  BY ComponentFacts
<1>3. /\ ClosedInv /\ LeftInv /\ LowInv /\ ChargeInv /\ ReachInv
  BY DEF CycleInv
<1>. HIDE DEF L
<1>4. \A i \in DOMAIN work : work[i].node \in C => i = L
  BY <1>1, <1>2
<1>5. \A m \in C : Cycles!Succ(m) \subseteq Met
  <2>. SUFFICES ASSUME NEW m \in C, m # n PROVE Cycles!Succ(m) \subseteq Met
    BY <1>1
  <2>1. m \notin Explored
    BY <1>1, <1>4 DEF Explored
  <2>. QED
    BY <1>2, <1>3, <2>1 DEF LeftInv
<1>6. ASSUME NEW m \in C, NEW x \in Cycles!Succ(m), x \in OnStack PROVE x \in C
  <2>1. LookedAt(m, x)
    BY <1>1, <1>4, <1>6 DEF LookedAt
  <2>2. index[n] <= index[m] /\ m \in OnStack
    BY <1>2
  <2>3. \E j \in DOMAIN work : L <= j /\ low[work[j].node] <= index[x]
    BY <1>1, <1>3, <1>6, <2>1, <2>2 DEF ChargeInv, Charged
  <2>4. \A j \in DOMAIN work : L <= j => j = L
    BY <1>1
  <2>. QED
    BY <1>1, <1>2, <1>6, <2>3, <2>4
<1>7. \A m \in C : Cycles!Succ(m) \subseteq Closed \cup C
  BY <1>5, <1>6 DEF Closed
<1>8. IsClosed(Closed \cup C) /\ IsClosed(Closed)
  <2>1. \A m \in Closed : Cycles!Succ(m) \subseteq Closed
    BY <1>3 DEF ClosedInv
  <2>2. Closed \subseteq Walked /\ C \subseteq Walked
    BY <1>1, <1>2 DEF Closed
  <2>. QED
    BY <1>7, <2>1, <2>2 DEF IsClosed
<1>9. ASSUME NEW m \in C PROVE Reaches(m, n)
  <2>. DEFINE Bad == {b \in C : ~Reaches(b, n)}
  <2>. SUFFICES ASSUME Bad # {} PROVE FALSE
    BY <1>9
  <2>1. PICK b \in Bad : \A c \in Bad : index[b] <= index[c]
    <3>1. \A b \in Bad : index[b] \in Nat
      BY <1>1, <1>2
    <3>. HIDE DEF Bad
    <3>. QED
      BY <3>1, LeastAt
  <2>2. b \in C /\ ~Reaches(b, n) /\ b # n /\ b \in OnStack
    BY <1>2, ReachesSelf
  <2>3. b \notin Explored
    BY <1>1, <1>4, <2>2 DEF Explored
  <2>4. PICK x \in OnStack : index[x] = low[b] /\ Reaches(b, x)
    BY <1>3, <2>2 DEF LowInv
  <2>5. index[x] < index[b]
    BY <1>3, <2>2, <2>3, <2>4 DEF LeftInv
  <2>6. x \in Closed \cup C
    BY <1>8, <2>2, <2>4 DEF Reaches
  <2>7. x \in C
    BY <2>4, <2>6 DEF Closed
  <2>8. x \notin Bad
    BY <1>1, <1>2, <2>1, <2>2, <2>4, <2>5
  <2>. QED
    BY <2>2, <2>4, <2>7, <2>8, ReachesOn
<1>10. \A m \in C : Reaches(n, m)
  BY <1>1, <1>2, <1>3 DEF ReachInv
<1>11. Cardinality(C) > 1 <=> C # {n}
  <2>1. IsFiniteSet(C)
    BY <1>1, <1>2, FS_Subset
  <2>2. Cardinality(C) \in Nat /\ Cardinality(C) # 0
    BY <1>2, <2>1, FS_CardinalityType, FS_EmptySet
  <2>3. Cardinality(C) = 1 <=> \E x : C = {x}
    BY <2>1, FS_Singleton
  <2>4. Cardinality(C) = 1 <=> C = {n}
    BY <1>2, <2>3
  <2>. QED
    BY <2>2, <2>4
<1>12. CASE C # {n}
  <2>1. ASSUME NEW m \in C PROVE Cycles!OnCycle(m)
    <3>1. PICK b \in C : b # m
      BY <1>2, <1>12
    <3>2. Reaches(m, b) /\ Reaches(b, m) /\ m \in Walked
      BY <1>1, <1>2, <1>9, <1>10, ReachesOn
    <3>. QED
      BY <3>1, <3>2, ReachedBothWays
  <2>. QED
    BY <1>7, <1>11, <1>12, <2>1
<1>13. CASE C = {n}
  <2>1. CASE n \in Cycles!Succ(n)
    BY <1>7, <1>13, <2>1, CycleIsReached
  <2>2. CASE n \notin Cycles!Succ(n)
    <3>1. Cycles!Succ(n) \subseteq Closed /\ n \notin Closed
      BY <1>1, <1>7, <1>13, <2>2 DEF Closed
    <3>2. ~Cycles!OnCycle(n)
      BY <1>8, <3>1, CycleIsReached
    <3>. QED
      BY <1>7, <1>11, <1>13, <2>2, <3>2
  <2>. QED
    BY <2>1, <2>2
<1>. QED
  BY <1>12, <1>13

\* A component is closed.
LEMMA CloseStep ==
  ASSUME CycleInv, IsFiniteSet(Walked), UNCHANGED vars, Cycles!Return, low[Top.node] = index[Top.node]
  PROVE  CycleInv'
<1>. DEFINE n == Top.node
            L == Len(work)
            C == Cycles!Component(n)
<1>1. /\ L \in Nat /\ L \in DOMAIN work /\ DOMAIN work = 1..L
      /\ work[L].node = n /\ work[L].seen = Cycles!Succ(n)
      /\ n \in OnStack /\ OnStack \subseteq Met /\ Met \subseteq Walked
      /\ \A m \in Met : index[m] \in Nat /\ low[m] \in Nat
      /\ \A i \in DOMAIN work : work[i].node \in OnStack /\ work[i].seen \subseteq Met
      /\ \A i \in 1..L : i # L => index[work[i].node] < index[n]
  BY ReturnFacts
<1>2. /\ DOMAIN work' = 1..(L - 1) /\ Len(work') = L - 1
      /\ \A i \in 1..(L - 1) : work'[i] = work[i] /\ i \in 1..L /\ i # L
      /\ \A i \in 1..L : i \in 1..(L - 1) \/ i = L
      /\ work' \in Seq([node : Walked, seen : SUBSET Walked])
      /\ index' = index /\ Met' = Met
      /\ Explored' = Explored \ {n} /\ n \in Explored
  BY ReturnFacts
<1>3. /\ Walked' = Walked /\ \A m : Cycles!Succ(m)' = Cycles!Succ(m)
      /\ \A a, b : Reaches(a, b)' <=> Reaches(a, b)
      /\ \A m : Cycles!OnCycle(m)' <=> Cycles!OnCycle(m)
  BY GraphFixed
<1>4. /\ SearchTypeOK /\ NumberInv /\ WorkInv /\ ClosedInv /\ LeftInv /\ LowInv /\ ChargeInv /\ ReachInv
  BY DEF CycleInv
<1>5. /\ C \subseteq OnStack /\ n \in C
      /\ \A m \in OnStack : m \in C <=> index[n] <= index[m]
      /\ OnStack' = OnStack \ C /\ stack' \in Seq(Met) /\ low' = low
      /\ \A i, j \in DOMAIN stack' : i < j => index[stack'[i]] < index[stack'[j]]
      /\ cyclic' = IF Cardinality(C) > 1 \/ n \in Cycles!Succ(n) THEN cyclic \cup C ELSE cyclic
  BY ComponentFacts
<1>6. /\ \A m \in C : Cycles!Succ(m) \subseteq Closed \cup C
      /\ \A m \in C : Cycles!OnCycle(m) <=> Cardinality(C) > 1 \/ n \in Cycles!Succ(n)
  BY ComponentIsStrong
<1>. HIDE DEF n, L, C
<1>7. \A m \in OnStack' : m \in OnStack /\ m # n /\ index[m] < index[n]
  <2>. SUFFICES ASSUME NEW m \in OnStack' PROVE m \in OnStack /\ m # n /\ index[m] < index[n]
    OBVIOUS
  <2>1. m \in OnStack /\ m \notin C /\ index[m] \in Nat /\ index[n] \in Nat
    BY <1>1, <1>5
  <2>. QED
    BY <1>5, <2>1
<1>8. \A m \in OnStack : index[m] < index[n] => m \in OnStack'
  BY <1>1, <1>5
<1>9. SearchTypeOK'
  BY <1>2, <1>3, <1>4, <1>5 DEF SearchTypeOK
<1>10. NumberInv'
  <2>1. \A i, j \in DOMAIN stack' : i < j => index'[stack'[i]] < index'[stack'[j]]
    BY <1>2, <1>5
  <2>. QED
    BY <1>2, <1>4, <2>1 DEF NumberInv
<1>11. WorkInv'
  <2>1. \A i \in DOMAIN work' : work'[i].node \in OnStack'
    BY <1>1, <1>2, <1>8
  <2>2. \A i, j \in DOMAIN work' : i < j /\ work'[j].node \in Met' =>
          index'[work'[i].node] < index'[work'[j].node]
    BY <1>1, <1>2, <1>4 DEF WorkInv
  <2>3. \A i \in DOMAIN work' : \A c \in work'[i].seen :
          c \in Cycles!Succ(work'[i].node) /\ c \in Met
    BY <1>1, <1>2, <1>4 DEF WorkInv
  <2>4. \A x \in OnStack' : work' # <<>> /\ work'[1].node \in Met' /\ index'[work'[1].node] <= index'[x]
    <3>. SUFFICES ASSUME NEW x \in OnStack'
                  PROVE  work' # <<>> /\ work'[1].node \in Met' /\ index'[work'[1].node] <= index'[x]
      OBVIOUS
    <3>1. x \in OnStack /\ index[x] < index[n] /\ index[x] \in Nat /\ index[n] \in Nat
      BY <1>1, <1>7
    <3>2. work[1].node \in Met /\ index[work[1].node] <= index[x]
      BY <1>4, <3>1 DEF WorkInv
    <3>3. L # 1
      BY <1>1, <3>1, <3>2
    <3>4. 1 \in 1..(L - 1) /\ work' # <<>>
      BY <1>1, <1>2, <3>3
    <3>. QED
      BY <1>2, <3>2, <3>4
  <2>5. \A i \in DOMAIN work' : \A c \in work'[i].seen :
          c \in Cycles!Succ(work[i].node)' /\ c \in Met'
    BY <1>2, <1>3, <2>3
  <2>. QED
    BY <2>1, <2>2, <2>4, <2>5 DEF WorkInv
<1>12. Closed' = Closed \cup C /\ Closed \cap C = {}
  BY <1>1, <1>2, <1>5 DEF Closed
<1>13. ClosedInv'
  <2>1. \A c \in Closed' : Cycles!Succ(c) \subseteq Closed'
    BY <1>4, <1>6, <1>12 DEF ClosedInv
  <2>2. cyclic = {c \in Closed : Cycles!OnCycle(c)}
    BY <1>4 DEF ClosedInv
  <2>3. cyclic' = {c \in Closed \cup C : Cycles!OnCycle(c)}
    BY <1>5, <1>6, <2>2
  <2>4. {c \in Closed : Cycles!OnCycle(c)}' = {c \in Closed \cup C : Cycles!OnCycle(c)}
    BY <1>3, <1>12
  <2>. QED
    BY <1>3, <2>1, <2>3, <2>4 DEF ClosedInv
<1>14. LeftInv'
  <2>. SUFFICES ASSUME NEW m \in OnStack', m \notin Explored'
                PROVE  Cycles!Succ(m) \subseteq Met /\ low[m] < index[m]
    BY <1>2, <1>3, <1>5 DEF LeftInv
  <2>1. m \in OnStack /\ m \notin Explored
    BY <1>2, <1>7
  <2>. QED
    BY <1>4, <2>1 DEF LeftInv
<1>15. LowInv'
  <2>. SUFFICES ASSUME NEW m \in OnStack'
                PROVE  low[m] <= index[m] /\ \E x \in OnStack' : index[x] = low[m] /\ Reaches(m, x)
    BY <1>2, <1>3, <1>5 DEF LowInv
  <2>1. m \in OnStack /\ index[m] < index[n]
    BY <1>7
  <2>2. low[m] <= index[m]
    BY <1>4, <2>1 DEF LowInv
  <2>3. PICK x \in OnStack : index[x] = low[m] /\ Reaches(m, x)
    BY <1>4, <2>1 DEF LowInv
  <2>4. index[x] < index[n]
    BY <1>1, <2>1, <2>2, <2>3
  <2>. QED
    BY <1>8, <2>2, <2>3, <2>4
<1>16. ChargeInv'
  <2>. SUFFICES ASSUME NEW m \in OnStack', NEW x \in OnStack', x \in Cycles!Succ(m), LookedAt(m, x)'
                PROVE  \A i \in 1..(L - 1) : work[i].node \in Met /\ index[work[i].node] <= index[m] =>
                         \E j \in 1..(L - 1) :
                           /\ i <= j /\ work[j].node \in Met
                           /\ index[work[j].node] <= index[m] /\ low[work[j].node] <= index[x]
    <3>1. low' = low /\ index' = index /\ Met' = Met /\ DOMAIN work' = 1..(L - 1)
          /\ \A i \in 1..(L - 1) : work'[i].node = work[i].node
      BY <1>2, <1>5
    <3>2. ASSUME NEW m \in OnStack', NEW x \in OnStack',
                 \A i \in 1..(L - 1) : work[i].node \in Met /\ index[work[i].node] <= index[m] =>
                   \E j \in 1..(L - 1) :
                     /\ i <= j /\ work[j].node \in Met
                     /\ index[work[j].node] <= index[m] /\ low[work[j].node] <= index[x]
          PROVE  Charged(m, x)'
      BY <3>1, <3>2 DEF Charged
    <3>. QED
      BY <1>3, <3>2 DEF ChargeInv
  <2>. TAKE i \in 1..(L - 1)
  <2>. HAVE work[i].node \in Met /\ index[work[i].node] <= index[m]
  <2>1. m \in OnStack /\ m # n /\ index[m] < index[n] /\ x \in OnStack
    BY <1>7
  <2>2. \A k \in DOMAIN work : work[k].node = m => x \in work[k].seen
    BY <1>1, <1>2, <2>1 DEF LookedAt
  <2>3. PICK j \in DOMAIN work : /\ i <= j /\ work[j].node \in Met
                                 /\ index[work[j].node] <= index[m] /\ low[work[j].node] <= index[x]
    BY <1>1, <1>2, <1>4, <2>1, <2>2 DEF ChargeInv, Charged, LookedAt
  <2>4. j # L
    BY <1>1, <2>1, <2>3
  <2>. QED
    BY <1>1, <1>2, <2>3, <2>4
<1>17. ReachInv'
  <2>1. \A i, j \in DOMAIN work' : i <= j => Reaches(work'[i].node, work'[j].node)
    BY <1>1, <1>2, <1>4 DEF ReachInv
  <2>2. \A i \in DOMAIN work' : \A x \in OnStack' :
          work'[i].node \in Met /\ index[work'[i].node] <= index[x] => Reaches(work'[i].node, x)
    BY <1>1, <1>2, <1>4, <1>7 DEF ReachInv
  <2>. QED
    BY <1>2, <1>3, <2>1, <2>2 DEF ReachInv
<1>. QED
  BY <1>9, <1>10, <1>11, <1>13, <1>14, <1>15, <1>16, <1>17 DEF CycleInv

\* The invariant of the cycle search is kept by all its steps.
LEMMA CyclesStep ==
  ASSUME CycleInv, IsFiniteSet(Walked), UNCHANGED vars, Cycles!Next
  PROVE  CycleInv'
<1>1. Cycles!Top = Top /\ Cycles!Met = Met
  BY DEF Cycles!Top, Top, Cycles!Last, Met
<1>2. CASE \E n \in Walked \ Cycles!Met : Cycles!StartAt(n)
  BY <1>1, <1>2, StartStep
<1>3. CASE Cycles!Meet
  BY <1>3, MeetStep
<1>4. CASE work # <<>> /\ \E child \in Cycles!Succ(Cycles!Top.node) : Cycles!LookAt(child)
  BY <1>1, <1>4, LookMetStep, LookNewStep
<1>5. CASE Cycles!Return
  BY <1>5, LeaveStep, CloseStep
<1>. QED
  BY <1>2, <1>3, <1>4, <1>5 DEF Cycles!Next

\* When the cycle search has ended, it has found the nodes on a cycle.
LEMMA CyclesEnd ==
  ASSUME CycleInv, IsFiniteSet(Walked), Cycles!Finished
  PROVE  cyclic = {n \in Walked : Cycles!OnCycle(n)}
<1>1. OnStack = {} /\ Met = Walked
  BY SearchFacts DEF Cycles!Finished, Met
<1>2. Closed = Walked
  BY <1>1 DEF Closed
<1>. QED
  BY <1>2 DEF CycleInv, ClosedInv

-----------------------------------------------------------------------------
(* What the walk leaves to the searches: roots at depth 0, and an edge for every *)
(* reference within the limits *)

\* What was followed stays so while the walk only adds edges and cuts, and walks new
\* nodes only where there is room.
LEMMA FollowedStays ==
  ASSUME NEW n \in Walked, NEW i, Followed(n, i), UNCHANGED <<refs, limits>>,
         depth'[n] = depth[n], edges \subseteq edges', CutAt \subseteq CutAt',
         Walked' = Walked \/ Room
  PROVE  Followed(n, i)'
<1>1. CASE Walked' = Walked
  BY <1>1 DEF Followed, Room
<1>2. CASE Room
  BY <1>2 DEF Followed
<1>. QED
  BY <1>1, <1>2

LEMMA RootStep ==
  ASSUME WalkInv, RootInv, Next
  PROVE  RootInv'
<1>. USE DEF input
<1>1. TypeOK /\ PhaseInv /\ depth \in [Walked -> Nat] /\ current \in Nat
  BY DEF WalkInv, TypeOK
<1>2. ASSUME NEW r \in waiting, TakeRoot(r) PROVE RootInv'
  <2>1. Room /\ depth' = WithDepth(r, 0) /\ waiting' = waiting \ {r} /\ UNCHANGED <<roots, limits>>
    BY <1>2 DEF TakeRoot
  <2>2. Walked' = Walked \cup {r} /\ depth'[r] = 0 /\ \A m \in Walked : m # r => depth'[m] = depth[m]
    BY <1>1, <2>1, WithDepthType
  <2>. QED
    BY <2>1, <2>2 DEF RootInv
<1>3. ASSUME NEW r \in waiting, CutRoot(r) PROVE RootInv'
  <2>1. ~Room /\ waiting' = waiting \ {r} /\ UNCHANGED <<roots, limits, depth>>
    BY <1>3 DEF CutRoot
  <2>2. Walked' = Walked /\ ~Room'
    BY <2>1 DEF Walked, Room
  <2>. QED
    BY <2>1, <2>2 DEF RootInv
<1>4. CASE Discover
  <2>1. /\ Room /\ Ref \notin Walked /\ depth' = WithDepth(Ref, current + 1) /\ node # None
        /\ UNCHANGED <<roots, limits, waiting>>
    BY <1>4 DEF Discover, Visiting
  <2>2. waiting = {}
    BY <1>1, <2>1 DEF PhaseInv
  <2>3. Walked' = Walked \cup {Ref} /\ \A m \in Walked : depth'[m] = depth[m]
    <3>1. current + 1 \in Nat
      BY <1>1
    <3>. QED
      BY <1>1, <2>1, <3>1, WithDepthType
  <2>. QED
    BY <2>1, <2>2, <2>3 DEF RootInv
<1>5. CASE UNCHANGED <<roots, limits, depth, waiting>>
  BY <1>5 DEF RootInv, Walked, Room
<1>6. StartWalk \/ (\E n \in level : SkipAbsent(n) \/ EnterNode(n)) \/ LeaveNode \/ NextLevel \/ Finish
        => UNCHANGED <<roots, limits, depth, waiting>>
  BY DEF StartWalk, SkipAbsent, EnterNode, LeaveNode, NextLevel, Finish
<1>7. CutDepth \/ CutFanout \/ CutNodes \/ Join => UNCHANGED <<roots, limits, depth, waiting>>
  BY DEF CutDepth, CutFanout, CutNodes, Join, Cut
<1>. QED
  BY <1>2, <1>3, <1>4, <1>5, <1>6, <1>7 DEF Next

LEMMA EdgeStep ==
  ASSUME WalkInv, EdgeInv, Next
  PROVE  EdgeInv'
<1>. USE DEF input
<1>1. /\ TypeOK /\ PhaseInv /\ LevelInv /\ depth \in [Walked -> Nat] /\ current \in Nat /\ at \in Nat \ {0}
      /\ level \subseteq Walked /\ next \subseteq Walked
  BY DEF WalkInv, TypeOK
<1>2. ASSUME NEW r \in waiting, TakeRoot(r) \/ CutRoot(r) PROVE EdgeInv'
  <2>1. phase = "roots" /\ phase' = phase /\ node' = node
    BY <1>2 DEF TakeRoot, CutRoot
  <2>. QED
    BY <1>1, <2>1 DEF EdgeInv, PhaseInv
<1>3. CASE StartWalk
  <2>1. level' = Walked /\ Walked' = Walked /\ node' = node /\ phase = "roots"
    BY <1>3 DEF StartWalk, Walked
  <2>. QED
    BY <1>1, <2>1 DEF EdgeInv, PhaseInv
<1>4. ASSUME UNCHANGED <<refs, limits, depth, edges, cuts>> PROVE \A n, i : Followed(n, i)' <=> Followed(n, i)
  <2>1. Walked' = Walked /\ CutAt' = CutAt
    BY <1>4 DEF Walked, CutAt
  <2>. QED
    BY <1>4, <2>1 DEF Followed, Room
<1>5. ASSUME NEW n \in level, SkipAbsent(n) PROVE EdgeInv'
  <2>1. /\ ~Present(n) /\ level' = level \ {n} /\ node = None
        /\ UNCHANGED <<refs, limits, depth, edges, cuts, phase, next, node, at>> /\ Walked' = Walked
    BY <1>5 DEF SkipAbsent, Walked
  <2>. QED
    BY <1>4, <2>1 DEF EdgeInv, Present
<1>6. ASSUME NEW n \in level, EnterNode(n) PROVE EdgeInv'
  <2>1. /\ at' = 1 /\ node' = n
        /\ UNCHANGED <<refs, limits, depth, edges, cuts, phase, level, next>> /\ Walked' = Walked
    BY <1>6 DEF EnterNode, Walked
  <2>2. Present(n) /\ refs[n] \in Seq(Nodes)
    BY <1>1, <1>6 DEF EnterNode, TypeOK, Present
  <2>3. \A i \in DOMAIN refs[n] : ~(i < 1)
    BY <2>2
  <2>. QED
    BY <1>4, <2>1, <2>3 DEF EdgeInv, Present
<1>7. CASE LeaveNode
  <2>1. /\ node # None /\ at > Len(refs[node]) /\ level' = level \ {node} /\ node' = None
        /\ UNCHANGED <<refs, limits, depth, edges, cuts, phase, next>> /\ Walked' = Walked
    BY <1>7 DEF LeaveNode, Walked
  <2>2. refs[node] \in Seq(Nodes)
    BY <1>1, <2>1 DEF TypeOK, Present
  <2>3. \A i \in DOMAIN refs[node] : i < at
    BY <1>1, <2>1, <2>2
  <2>. QED
    BY <1>4, <2>1, <2>3 DEF EdgeInv, Present
<1>8. CASE NextLevel \/ Finish
  <2>1. /\ level = {} /\ (level' = next \/ next = {}) /\ phase = "walk"
        /\ UNCHANGED <<refs, limits, depth, edges, cuts, node, at>> /\ Walked' = Walked
        /\ level' \cup next' = level \cup next
    BY <1>8 DEF NextLevel, Finish, Walked
  <2>. QED
    BY <1>4, <2>1 DEF EdgeInv, Present
<1>9. ASSUME CutDepth \/ CutFanout \/ CutNodes \/ Join \/ Discover PROVE EdgeInv'
  <2>0. PICK v, a : v = node /\ a = at
    OBVIOUS
  <2>1. /\ node # None /\ at <= Len(refs[node]) /\ at' = at + 1
        /\ UNCHANGED <<refs, limits, phase, level, node>>
        /\ edges \subseteq edges'
    BY <1>9 DEF CutDepth, CutFanout, CutNodes, Join, Discover, Visiting, Cut
  <2>2. node \in level /\ Present(node) /\ refs[node] \in Seq(Nodes) /\ depth[node] = current
        /\ node \in Walked
    BY <1>1, <2>1 DEF TypeOK, Present, LevelInv
  <2>3. Ref \in Nodes /\ at \in DOMAIN refs[node]
    BY <1>1, <2>1, <2>2 DEF Ref
  <2>4. /\ \A n \in Walked : n \in Walked' /\ depth'[n] = depth[n]
        /\ Walked' = Walked \/ Room
        /\ \A n \in Walked' : n \notin next' => n \in Walked /\ n \notin next
    <3>1. CASE Discover
      <4>1. Room /\ Ref \notin Walked /\ depth' = WithDepth(Ref, current + 1) /\ next' = next \cup {Ref}
        BY <3>1 DEF Discover
      <4>2. Walked' = Walked \cup {Ref} /\ \A m \in Walked : depth'[m] = depth[m]
        <5>1. current + 1 \in Nat
          BY <1>1
        <5>. QED
          BY <1>1, <4>1, <5>1, WithDepthType
      <4>. QED
        BY <4>1, <4>2
    <3>2. CASE UNCHANGED <<depth, next>>
      BY <3>2 DEF Walked
    <3>3. CutDepth \/ CutFanout \/ CutNodes \/ Join => UNCHANGED <<depth, next>>
      BY DEF CutDepth, CutFanout, CutNodes, Join, Cut
    <3>. QED
      BY <1>9, <3>1, <3>2, <3>3
  <2>5. CutAt \subseteq CutAt'
    <3>1. cuts \in Seq({"max_depth", "max_nodes", "max_fanout"} \X Nodes)
      BY <1>1 DEF TypeOK
    <3>2. CASE cuts' = cuts
      <4>1. CutAt' = CutAt
        BY <3>2 DEF CutAt
      <4>. QED
        BY <4>1
    <3>3. ASSUME NEW c \in {"max_depth", "max_nodes", "max_fanout"}, cuts' = Append(cuts, <<c, Ref>>)
          PROVE  CutAt' = CutAt \cup {Ref}
      BY <2>3, <3>1, <3>3, CutAtAppend
    <3>4. cuts' = cuts \/ \E c \in {"max_depth", "max_nodes", "max_fanout"} : cuts' = Append(cuts, <<c, Ref>>)
      BY <1>9 DEF CutDepth, CutFanout, CutNodes, Join, Discover, Cut
    <3>. QED
      BY <3>2, <3>3, <3>4
  <2>6. \A n \in Walked : \A i : Followed(n, i) => Followed(n, i)'
    BY <2>1, <2>4, <2>5, FollowedStays
  <2>7. Followed(v, a)'
    <3>1. CASE CutDepth
      <4>1. ~(depth[node] < limits.max_depth)
        BY <1>1, <2>2, <3>1, LimitsType DEF CutDepth, AtMaxDepth
      <4>. QED
        BY <2>0, <2>1, <2>2, <2>4, <4>1 DEF Followed
    <3>2. CASE CutFanout
      <4>1. ~(at <= limits.max_fanout)
        BY <1>1, <3>2, LimitsType DEF CutFanout, PastFanout
      <4>. QED
        BY <2>0, <2>1, <4>1 DEF Followed
    <3>3. CASE CutNodes
      <4>1. Ref \notin Walked /\ ~Room /\ cuts' = Append(cuts, <<"max_nodes", Ref>>) /\ depth' = depth
        BY <3>3 DEF CutNodes, Cut
      <4>2. cuts \in Seq({"max_depth", "max_nodes", "max_fanout"} \X Nodes)
        BY <1>1 DEF TypeOK
      <4>3. Ref \in CutAt'
        BY <2>3, <4>1, <4>2, CutAtAppend
      <4>4. Walked' = Walked /\ ~Room'
        BY <2>1, <4>1 DEF Walked, Room
      <4>. QED
        BY <2>0, <2>1, <4>1, <4>3, <4>4 DEF Followed, Ref
    <3>4. CASE Join \/ Discover
      <4>1. <<node, Ref>> \in edges'
        BY <3>4 DEF Join, Discover
      <4>. QED
        BY <2>0, <2>1, <4>1 DEF Followed, Ref
    <3>. QED
      BY <1>9, <3>1, <3>2, <3>3, <3>4
  <2>8. \A n \in Walked' : Present(n)' /\ phase' # "roots" /\ n \notin level' /\ n \notin next' =>
          \A i \in DOMAIN refs[n] : Followed(n, i)'
    BY <2>1, <2>4, <2>6 DEF EdgeInv, Present
  <2>9. \A i \in DOMAIN refs[v] : i < a + 1 => Followed(v, i)'
    <3>1. \A i \in DOMAIN refs[v] : i < a + 1 => i < a \/ i = a
      BY <1>1, <2>0, <2>2
    <3>2. \A i \in DOMAIN refs[v] : i < a => Followed(v, i)
      BY <2>0, <2>1 DEF EdgeInv
    <3>. QED
      BY <2>0, <2>2, <2>6, <2>7, <3>1, <3>2
  <2>10. \A i \in DOMAIN refs'[v] : i < at' => Followed(v, i)'
    BY <2>0, <2>1, <2>9
  <2>11. node' = v
    BY <2>0, <2>1
  <2>. QED
    BY <2>1, <2>8, <2>10, <2>11 DEF EdgeInv
<1>. QED
  BY <1>2, <1>3, <1>5, <1>6, <1>7, <1>8, <1>9 DEF Next

-----------------------------------------------------------------------------
(* Paths and the order among them *)

\* The order of paths of one length is transitive and total.
LEMMA BeforeOn ==
  ASSUME NEW k \in Nat, NEW p \in [1..k -> Nat], NEW q \in [1..k -> Nat], NEW r \in [1..k -> Nat],
         Paths!Before(p, q), Paths!Before(q, r)
  PROVE  Paths!Before(p, r)
<1>1. PICK i \in 1..k : p[i] < q[i] /\ \A j \in 1..(i - 1) : p[j] = q[j]
  BY DEF Paths!Before
<1>2. PICK h \in 1..k : q[h] < r[h] /\ \A j \in 1..(h - 1) : q[j] = r[j]
  BY DEF Paths!Before
<1>3. CASE i < h
  <2>1. p[i] < r[i] /\ \A j \in 1..(i - 1) : p[j] = r[j]
    BY <1>1, <1>2, <1>3
  <2>. QED
    BY <2>1 DEF Paths!Before
<1>4. CASE h < i
  <2>1. p[h] < r[h] /\ \A j \in 1..(h - 1) : p[j] = r[j]
    BY <1>1, <1>2, <1>4
  <2>. QED
    BY <2>1 DEF Paths!Before
<1>5. CASE h = i
  <2>1. p[i] < r[i]
    <3>1. p[i] \in Nat /\ q[i] \in Nat /\ r[i] \in Nat
      OBVIOUS
    <3>. QED
      BY <1>1, <1>2, <1>5, <3>1
  <2>2. \A j \in 1..(i - 1) : p[j] = r[j]
    BY <1>1, <1>2, <1>5
  <2>. QED
    BY <2>1, <2>2 DEF Paths!Before
<1>. QED
  BY <1>3, <1>4, <1>5

LEMMA NotBeforeItself ==
  ASSUME NEW k \in Nat, NEW p \in [1..k -> Nat]
  PROVE  ~Paths!Before(p, p)
  BY DEF Paths!Before

LEMMA BeforeOrAfter ==
  ASSUME NEW k \in Nat, NEW p \in [1..k -> Nat], NEW q \in [1..k -> Nat]
  PROVE  p = q \/ Paths!Before(p, q) \/ Paths!Before(q, p)
<1>. DEFINE Differ == {i \in 1..k : p[i] # q[i]}
<1>1. CASE Differ = {}
  <2>1. \A i \in 1..k : p[i] = q[i]
    BY <1>1
  <2>. QED
    BY <2>1
<1>2. CASE Differ # {}
  <2>1. Differ \in SUBSET Nat
    OBVIOUS
  <2>2. PICK i \in Differ : \A j \in Differ : i <= j
    <3>. HIDE DEF Differ
    <3>. QED
      BY <1>2, <2>1, LeastNumber
  <2>3. \A j \in 1..(i - 1) : p[j] = q[j]
    BY <2>2
  <2>4. p[i] < q[i] \/ q[i] < p[i]
    BY <2>2
  <2>. QED
    BY <2>2, <2>3, <2>4 DEF Paths!Before
<1>. QED
  BY <1>1, <1>2

LEMMA DistanceFacts ==
  ASSUME WalkInv, RootInv
  PROVE  /\ Walked \subseteq Nat /\ depth \in [Walked -> Nat]
         /\ \A e \in edges : /\ e[1] \in Walked /\ e[2] \in Walked /\ e = <<e[1], e[2]>>
                             /\ depth[e[2]] <= depth[e[1]] + 1
         /\ \A n \in Walked : depth[n] = 0 <=> n \in roots
         /\ \A n \in Walked : depth[n] # 0 =>
              \E m \in Walked : <<m, n>> \in edges /\ depth[n] = depth[m] + 1
<1>1. /\ Walked \subseteq Nat /\ depth \in [Walked -> Nat] /\ edges \subseteq Walked \X Walked
      /\ DepthIsDistance
  BY NodesAssumption DEF WalkInv, TypeOK
<1>2. \A e \in edges : /\ e[1] \in Walked /\ e[2] \in Walked /\ e = <<e[1], e[2]>>
                       /\ depth[e[2]] <= depth[e[1]] + 1
  BY <1>1 DEF DepthIsDistance
<1>3. \A n \in Walked : \/ n \in roots /\ depth[n] = 0
                        \/ \E m \in Walked : <<m, n>> \in edges /\ depth[n] = depth[m] + 1
  <2>1. SUFFICES ASSUME NEW n \in Walked, NEW e \in edges, e[2] = n, depth[n] = depth[e[1]] + 1
                 PROVE  \E m \in Walked : <<m, n>> \in edges /\ depth[n] = depth[m] + 1
    BY <1>1 DEF DepthIsDistance
  <2>2. e[1] \in Walked /\ <<e[1], n>> \in edges
    BY <1>2, <2>1
  <2>. QED
    BY <2>1, <2>2
<1>4. \A m \in Walked : depth[m] + 1 # 0
  BY <1>1
<1>. QED
  BY <1>1, <1>2, <1>3, <1>4 DEF RootInv

\* The node in place i of a path is at most i - 1 deep.
LEMMA PathDepth ==
  ASSUME WalkInv, RootInv, NEW k \in Nat \ {0}, NEW p \in [1..k -> Walked], Paths!IsPath(p)
  PROVE  \A i \in 1..k : depth[p[i]] <= i - 1
<1>. DEFINE Deeper == {i \in 1..k : ~(depth[p[i]] <= i - 1)}
<1>1. SUFFICES ASSUME Deeper # {} PROVE FALSE
  OBVIOUS
<1>2. Deeper \in SUBSET Nat
  OBVIOUS
<1>3. PICK i \in Deeper : \A j \in Deeper : i <= j
  <2>. HIDE DEF Deeper
  <2>. QED
    BY <1>1, <1>2, LeastNumber
<1>4. Len(p) = k
  OBVIOUS
<1>5. p[1] \in roots /\ \A j \in 1..(k - 1) : <<p[j], p[j + 1]>> \in edges
  BY <1>4 DEF Paths!IsPath
<1>6. i # 1
  <2>1. p[1] \in Walked
    OBVIOUS
  <2>2. depth[p[1]] = 0
    BY <1>5, <2>1, DistanceFacts
  <2>. QED
    BY <1>3, <2>2
<1>7. i - 1 \in 1..k /\ i - 1 \in 1..(k - 1) /\ (i - 1) + 1 = i
  BY <1>3, <1>6
<1>8. depth[p[i - 1]] <= (i - 1) - 1
  BY <1>3, <1>7
<1>9. <<p[i - 1], p[i]>> \in edges
  BY <1>5, <1>7
<1>10. depth[p[i]] <= depth[p[i - 1]] + 1
  <2>1. <<p[i - 1], p[i]>>[1] = p[i - 1] /\ <<p[i - 1], p[i]>>[2] = p[i]
    OBVIOUS
  <2>. QED
    BY <1>9, <2>1, DistanceFacts
<1>11. depth[p[i]] \in Nat /\ depth[p[i - 1]] \in Nat /\ i \in Nat
  BY <1>3, <1>7, DistanceFacts
<1>12. ~(depth[p[i]] <= i - 1)
  BY <1>3
<1>. HIDE DEF Deeper
<1>. QED
  BY <1>8, <1>10, <1>11, <1>12

-----------------------------------------------------------------------------
(* The path search *)

LEMMA PathsFixed ==
  ASSUME UNCHANGED vars
  PROVE  \A n, p : IsFirst(n, p)' <=> IsFirst(n, p)
<1>1. Walked' = Walked /\ depth' = depth
  BY DEF vars, walk, Walked
<1>2. \A p : Paths!IsPath(p)' <=> Paths!IsPath(p)
  BY DEF vars, input, walk, Paths!IsPath
<1>. QED
  BY <1>1, <1>2 DEF IsFirst, Paths!Before

\* The search starts with the roots, each its own path.
LEMMA PathsBegin ==
  ASSUME WalkInv, RootInv, Paths!Init
  PROVE  RingAt(0)
<1>1. /\ best = [r \in roots |-> <<r>>] /\ ring = roots /\ DOMAIN candidates = {} /\ looked = {}
  BY DEF Paths!Init
<1>2. \A n \in Walked : (n \in roots <=> depth[n] <= 0) /\ (n \in roots <=> depth[n] = 0)
  BY DistanceFacts
<1>3. ASSUME NEW n \in Walked, n \in roots PROVE IsFirst(n, <<n>>)
  <2>1. <<n>> \in Seq(Walked) /\ Len(<<n>>) = 1 /\ <<n>>[1] = n /\ depth[n] = 0
    BY <1>2, <1>3
  <2>2. Paths!IsPath(<<n>>)
    BY <1>3, <2>1 DEF Paths!IsPath
  <2>3. ASSUME NEW q \in [1..1 -> Walked], q[1] = n PROVE ~Paths!Before(q, <<n>>)
    <3>1. n \in Nat /\ <<n>>[1] = n
      BY DistanceFacts
    <3>2. \A i \in DOMAIN q : i = 1
      OBVIOUS
    <3>. QED
      BY <2>3, <3>1, <3>2 DEF Paths!Before
  <2>4. \A q \in [1..1 -> Walked] : Len(q) = 1
    OBVIOUS
  <2>. QED
    BY <2>1, <2>2, <2>3, <2>4 DEF IsFirst
<1>. QED
  BY <1>1, <1>2, <1>3 DEF RingAt

\* What the first path is, as a function on 1..k.
LEMMA FirstPath ==
  ASSUME WalkInv, RootInv, NEW n \in Walked, NEW p, IsFirst(n, p), NEW k, k = depth[n] + 1
  PROVE  /\ k \in Nat \ {0} /\ p \in Seq(Walked) /\ p \in [1..k -> Walked] /\ p \in [1..k -> Nat]
         /\ Len(p) = k /\ p[k] = n
<1>1. k \in Nat \ {0} /\ Walked \subseteq Nat
  BY DistanceFacts
<1>2. p \in Seq(Walked) /\ Len(p) = k /\ p[k] = n
  BY DEF IsFirst
<1>3. p \in [1..k -> Walked]
  BY <1>2
<1>. QED
  BY <1>1, <1>2, <1>3

LEMMA LookAlongStep ==
  ASSUME WalkInv, RootInv, NEW d \in Nat, RingAt(d), NEW e \in Paths!OutOfRing, Paths!LookAlong(e),
         UNCHANGED vars
  PROVE  RingAt(d)'
<1>. DEFINE path == Append(best[e[1]], e[2])
            taken == e[2] \notin DOMAIN best /\ Paths!Improves(e[2], path)
<1>1. /\ looked' = looked \cup {e} /\ best' = best /\ ring' = ring
      /\ candidates' = IF taken THEN Paths!Set(candidates, e[2], path) ELSE candidates
  BY DEF Paths!LookAlong
<1>2. Walked' = Walked /\ depth' = depth /\ Paths!OutOfRing' = Paths!OutOfRing
  BY <1>1 DEF vars, walk, Walked, Paths!OutOfRing
<1>3. /\ e[1] \in Walked /\ e[2] \in Walked /\ e[1] \in ring /\ depth[e[1]] = d
      /\ e[1] \in DOMAIN best
  BY DistanceFacts DEF RingAt, Paths!OutOfRing
<1>4. \A x \in looked : x[1] \in Walked /\ x[2] \in Walked /\ depth[x[1]] = d /\ x[1] \in DOMAIN best
  BY DistanceFacts DEF RingAt, Paths!OutOfRing
<1>5. ASSUME NEW m \in Walked, m \in DOMAIN best, depth[m] = d, NEW n \in Walked
      PROVE  Append(best[m], n) \in [1..(d + 2) -> Nat]
  <2>1. best[m] \in Seq(Walked) /\ Len(best[m]) = d + 1
    BY <1>5, FirstPath DEF RingAt
  <2>2. Append(best[m], n) \in Seq(Walked) /\ Len(Append(best[m], n)) = d + 2
    BY <2>1
  <2>3. Walked \subseteq Nat
    BY DistanceFacts
  <2>4. ASSUME NEW s \in Seq(Walked) PROVE s \in [1..Len(s) -> Nat]
    <3>1. s \in [1..Len(s) -> Walked]
      OBVIOUS
    <3>. QED
      BY <2>3, <3>1
  <2>. QED
    BY <2>2, <2>4
<1>6. path \in [1..(d + 2) -> Nat] /\ d + 2 \in Nat
  BY <1>3, <1>5
<1>9. /\ \A n \in Walked : (n \in DOMAIN best <=> depth[n] <= d) /\ (n \in ring <=> depth[n] = d)
      /\ \A n \in Walked \cap DOMAIN best : \A p : p = best[n] => IsFirst(n, p)'
  BY PathsFixed DEF RingAt
<1>7. CASE ~taken
  <2>1. candidates' = candidates
    BY <1>1, <1>7
  <2>2. \/ e[2] \in DOMAIN best
        \/ e[2] \in DOMAIN candidates /\ ~Paths!Before(path, candidates[e[2]])
    BY <1>7 DEF Paths!Improves
  <2>3. ASSUME NEW x \in looked'
        PROVE  \/ x[2] \in DOMAIN best
               \/ /\ x[2] \in DOMAIN candidates'
                  /\ ~Paths!Before(Append(best[x[1]], x[2]), candidates'[x[2]])
    BY <1>1, <2>1, <2>2, <2>3 DEF RingAt
  <2>4. looked' \subseteq Paths!OutOfRing'
    BY <1>1, <1>2 DEF RingAt
  <2>5. ASSUME NEW n \in DOMAIN candidates'
        PROVE  /\ n \in Walked \ DOMAIN best
               /\ \E x \in looked' : x[2] = n /\ candidates'[n] = Append(best[x[1]], n)
    BY <1>1, <2>1, <2>5 DEF RingAt
  <2>6. /\ \A n \in Walked' : (n \in DOMAIN best' <=> depth'[n] <= d) /\ (n \in ring' <=> depth'[n] = d)
        /\ \A n \in Walked' \cap DOMAIN best' : IsFirst(n, best[n])'
    BY <1>1, <1>2, <1>9
  <2>7. \A n \in DOMAIN candidates' :
          /\ n \in Walked' \ DOMAIN best'
          /\ \E x \in looked' : x[2] = n /\ candidates'[n] = Append(best'[x[1]], n)
    BY <1>1, <1>2, <2>5
  <2>8. \A x \in looked' :
          \/ x[2] \in DOMAIN best'
          \/ /\ x[2] \in DOMAIN candidates'
             /\ ~Paths!Before(Append(best[x[1]], x[2]), candidates[x[2]])'
    BY <1>1, <1>2, <2>3 DEF Paths!Before
  <2>. QED
    BY <2>4, <2>6, <2>7, <2>8 DEF RingAt
<1>8. CASE taken
  <2>1. /\ DOMAIN candidates' = DOMAIN candidates \cup {e[2]} /\ candidates'[e[2]] = path
        /\ \A n \in DOMAIN candidates : n # e[2] => candidates'[n] = candidates[n]
    BY <1>1, <1>8 DEF Paths!Set
  <2>2. ASSUME NEW n \in DOMAIN candidates'
        PROVE  /\ n \in Walked \ DOMAIN best
               /\ \E x \in looked' : x[2] = n /\ candidates'[n] = Append(best[x[1]], n)
    <3>1. CASE n = e[2]
      BY <1>1, <1>3, <1>8, <2>1, <3>1
    <3>2. CASE n # e[2]
      BY <1>1, <2>1, <2>2, <3>2 DEF RingAt
    <3>. QED
      BY <3>1, <3>2
  <2>3. ASSUME NEW x \in looked'
        PROVE  \/ x[2] \in DOMAIN best
               \/ /\ x[2] \in DOMAIN candidates'
                  /\ ~Paths!Before(Append(best[x[1]], x[2]), candidates'[x[2]])
    <3>1. CASE x = e
      BY <1>6, <2>1, <3>1, NotBeforeItself
    <3>2. CASE x \in looked /\ x[2] # e[2]
      BY <2>1, <3>2 DEF RingAt
    <3>3. CASE x \in looked /\ x[2] = e[2]
      <4>1. /\ x[2] \in DOMAIN candidates
            /\ ~Paths!Before(Append(best[x[1]], x[2]), candidates[x[2]])
        BY <1>8, <3>3 DEF RingAt
      <4>2. Paths!Before(path, candidates[e[2]])
        BY <1>8, <3>3, <4>1 DEF Paths!Improves
      <4>3. candidates[e[2]] \in [1..(d + 2) -> Nat]
        <5>1. PICK y \in looked : y[2] = e[2] /\ candidates[e[2]] = Append(best[y[1]], e[2])
          BY <3>3, <4>1 DEF RingAt
        <5>2. y[1] \in Walked /\ y[1] \in DOMAIN best /\ depth[y[1]] = d
          BY <1>4, <5>1
        <5>3. Append(best[y[1]], e[2]) \in [1..(d + 2) -> Nat]
          BY <1>3, <1>5, <5>2
        <5>. QED
          BY <5>1, <5>3
      <4>4. Append(best[x[1]], x[2]) \in [1..(d + 2) -> Nat]
        BY <1>4, <1>5, <3>3
      <4>5. ~Paths!Before(Append(best[x[1]], x[2]), path)
        <5>. HIDE DEF path
        <5>. QED
          BY <1>6, <3>3, <4>1, <4>2, <4>3, <4>4, BeforeOn
      <4>. QED
        BY <2>1, <3>3, <4>5
    <3>. QED
      BY <1>1, <3>1, <3>2, <3>3
  <2>4. looked' \subseteq Paths!OutOfRing'
    BY <1>1, <1>2 DEF RingAt
  <2>. QED
    BY <1>1, <1>2, <1>9, <2>2, <2>3, <2>4 DEF RingAt, Paths!Before
<1>. QED
  BY <1>7, <1>8

\* The first of the shortest paths to a node one deeper than the ring is the first of
\* the paths along the edges out of the ring: whatever else leads there passes through
\* the ring, on a path which is not before that of its node there.
LEMMA CandidateIsFirst ==
  ASSUME WalkInv, RootInv, NEW d \in Nat, RingAt(d), looked = Paths!OutOfRing,
         NEW n \in DOMAIN candidates
  PROVE  depth[n] = d + 1 /\ IsFirst(n, candidates[n])
<1>1. n \in Walked /\ n \notin DOMAIN best
  BY DEF RingAt
<1>2. PICK e \in looked : e[2] = n /\ candidates[n] = Append(best[e[1]], n)
  BY DEF RingAt
<1>. DEFINE l == e[1]
<1>3. l \in Walked /\ <<l, n>> \in edges /\ depth[n] <= depth[l] + 1 /\ depth[l] = d /\ l \in DOMAIN best
  <2>1. e \in edges /\ e[1] \in ring
    BY <1>2 DEF RingAt, Paths!OutOfRing
  <2>2. e[1] \in Walked /\ e = <<e[1], n>> /\ depth[n] <= depth[e[1]] + 1
    BY <1>2, <2>1, DistanceFacts
  <2>. QED
    BY <2>1, <2>2 DEF RingAt
<1>4. depth[n] = d + 1
  <2>1. ~(depth[n] <= d) /\ depth[n] \in Nat
    BY <1>1, DistanceFacts DEF RingAt
  <2>. QED
    BY <1>3, <2>1
<1>. DEFINE c == candidates[n]
<1>5. c = Append(best[l], n)
  BY <1>2
<1>6. IsFirst(l, best[l])
  BY <1>3 DEF RingAt
<1>. HIDE DEF l, c
<1>7. /\ best[l] \in Seq(Walked) /\ Len(best[l]) = d + 1 /\ best[l][d + 1] = l /\ Paths!IsPath(best[l])
  BY <1>3, <1>6 DEF IsFirst
<1>8. /\ c \in Seq(Walked) /\ Len(c) = d + 2 /\ c[d + 2] = n
      /\ \A i \in 1..(d + 1) : c[i] = best[l][i]
  BY <1>1, <1>5, <1>7
<1>9. Paths!IsPath(c)
  <2>1. best[l][1] \in roots /\ \A i \in 1..d : <<best[l][i], best[l][i + 1]>> \in edges
    BY <1>7 DEF Paths!IsPath
  <2>2. c[1] \in roots
    BY <1>8, <2>1
  <2>3. ASSUME NEW i \in 1..(d + 1) PROVE <<c[i], c[i + 1]>> \in edges
    <3>1. CASE i = d + 1
      <4>1. c[i] = l /\ i + 1 = d + 2
        BY <1>7, <1>8, <3>1
      <4>. QED
        BY <1>3, <1>8, <4>1
    <3>2. CASE i \in 1..d
      <4>1. i + 1 \in 1..(d + 1) /\ i \in 1..(d + 1)
        BY <3>2
      <4>. QED
        BY <1>8, <2>1, <3>2, <4>1
    <3>. QED
      BY <3>1, <3>2
  <2>4. Len(c) - 1 = d + 1
    BY <1>8
  <2>. QED
    BY <2>2, <2>3, <2>4 DEF Paths!IsPath
<1>10. Walked \subseteq Nat
  BY DistanceFacts
<1>11. c \in [1..(d + 2) -> Walked]
  BY <1>8
<1>12. ASSUME NEW q \in [1..(d + 2) -> Walked], Paths!IsPath(q), q[d + 2] = n, Paths!Before(q, c)
       PROVE  FALSE
  <2>. DEFINE m == q[d + 1]
              p == [i \in 1..(d + 1) |-> q[i]]
              b == Append(best[m], n)
  <2>1. m \in Walked /\ <<m, n>> \in edges /\ q[1] \in roots /\ \A i \in 1..d : <<q[i], q[i + 1]>> \in edges
    <3>1. Len(q) = d + 2 /\ Len(q) - 1 = d + 1 /\ (d + 1) + 1 = d + 2 /\ d + 1 \in 1..(d + 1)
      OBVIOUS
    <3>2. q[1] \in roots /\ \A i \in 1..(d + 1) : <<q[i], q[i + 1]>> \in edges
      BY <1>12, <3>1 DEF Paths!IsPath
    <3>3. <<q[d + 1], q[d + 2]>> \in edges
      BY <3>1, <3>2
    <3>. QED
      BY <1>12, <3>2, <3>3
  <2>2. depth[m] = d
    <3>1. \A i \in 1..(d + 2) : depth[q[i]] <= i - 1
      BY <1>12, PathDepth
    <3>2. depth[m] <= d
      <4>1. d + 1 \in 1..(d + 2) /\ (d + 1) - 1 = d
        OBVIOUS
      <4>. QED
        BY <3>1, <4>1
    <3>3. depth[n] <= depth[m] + 1
      <4>1. <<m, n>>[1] = m /\ <<m, n>>[2] = n
        OBVIOUS
      <4>. QED
        BY <2>1, <4>1, DistanceFacts
    <3>4. depth[m] \in Nat
      BY <2>1, DistanceFacts
    <3>. HIDE DEF m
    <3>. QED
      BY <1>4, <3>2, <3>3, <3>4
  <2>3. p \in [1..(d + 1) -> Walked] /\ Len(p) = d + 1 /\ p[d + 1] = m /\ p[1] = q[1]
    OBVIOUS
  <2>4. Paths!IsPath(p)
    <3>1. \A i \in 1..d : p[i] = q[i] /\ p[i + 1] = q[i + 1]
      OBVIOUS
    <3>2. Len(p) - 1 = d
      BY <2>3
    <3>. HIDE DEF p
    <3>. QED
      BY <2>1, <2>3, <3>1, <3>2 DEF Paths!IsPath
  <2>5. m \in DOMAIN best /\ IsFirst(m, best[m]) /\ <<m, n>> \in looked
    <3>1. m \in ring /\ m \in DOMAIN best
      BY <2>1, <2>2 DEF RingAt
    <3>. QED
      BY <2>1, <3>1 DEF RingAt, Paths!OutOfRing
  <2>. HIDE DEF m, p
  <2>6. best[m] \in Seq(Walked) /\ Len(best[m]) = d + 1 /\ best[m] \in [1..(d + 1) -> Walked]
    BY <2>2, <2>5 DEF IsFirst
  <2>7. ~Paths!Before(p, best[m])
    BY <2>2, <2>3, <2>4, <2>5, <2>6 DEF IsFirst
  <2>8. ~Paths!Before(b, c)
    <3>1. <<m, n>>[1] = m /\ <<m, n>>[2] = n
      OBVIOUS
    <3>. QED
      BY <1>1, <2>5, <3>1 DEF RingAt, c
  <2>9. b \in [1..(d + 2) -> Walked] /\ b[d + 2] = n /\ \A i \in 1..(d + 1) : b[i] = best[m][i]
    <3>1. b \in Seq(Walked) /\ Len(b) = d + 2
      BY <1>1, <2>6
    <3>2. b[d + 2] = n /\ \A i \in 1..(d + 1) : b[i] = best[m][i]
      BY <1>1, <2>6
    <3>. HIDE DEF b
    <3>. QED
      BY <3>1, <3>2
  <2>. HIDE DEF b
  <2>10. /\ b \in [1..(d + 2) -> Nat] /\ c \in [1..(d + 2) -> Nat] /\ q \in [1..(d + 2) -> Nat]
         /\ p \in [1..(d + 1) -> Nat] /\ best[m] \in [1..(d + 1) -> Nat]
    BY <1>10, <1>11, <2>3, <2>6, <2>9
  <2>11. \A i \in 1..(d + 1) : q[i] = p[i]
    BY DEF p
  <2>12. CASE p = best[m]
    <3>1. \A i \in 1..(d + 2) : q[i] = b[i]
      <4>1. \A i \in 1..(d + 2) : i \in 1..(d + 1) \/ i = d + 2
        OBVIOUS
      <4>. QED
        BY <1>12, <2>9, <2>11, <2>12, <4>1
    <3>2. q = b
      BY <2>10, <3>1
    <3>. QED
      BY <1>12, <2>8, <3>2
  <2>13. CASE Paths!Before(best[m], p)
    <3>1. d + 1 \in Nat /\ d + 2 \in Nat /\ (d + 1) + 1 = d + 2
      OBVIOUS
    <3>2. Paths!Before(b, q)
      <4>1. PICK i \in DOMAIN best[m] :
              best[m][i] < p[i] /\ \A j \in 1..(i - 1) : best[m][j] = p[j]
        BY <2>13 DEF Paths!Before
      <4>2. i \in 1..(d + 1) /\ i \in 1..(d + 2) /\ \A j \in 1..(i - 1) : j \in 1..(d + 1)
        <5>1. DOMAIN best[m] = 1..(d + 1)
          BY <2>6
        <5>2. i \in 1..(d + 1)
          BY <4>1, <5>1
        <5>. QED
          BY <5>2
      <4>3. b[i] < q[i] /\ \A j \in 1..(i - 1) : b[j] = q[j]
        BY <2>9, <2>11, <4>1, <4>2
      <4>4. i \in DOMAIN b
        BY <2>10, <4>2
      <4>. QED
        BY <4>3, <4>4 DEF Paths!Before
    <3>. QED
      BY <1>12, <2>8, <2>10, <3>1, <3>2, BeforeOn
  <2>14. d + 1 \in Nat
    OBVIOUS
  <2>. QED
    BY <2>7, <2>10, <2>12, <2>13, <2>14, BeforeOrAfter
<1>13. depth[n] + 1 = d + 2
  BY <1>4
<1>14. IsFirst(n, c)
  BY <1>8, <1>9, <1>12, <1>13 DEF IsFirst
<1>. QED
  BY <1>4, <1>14 DEF c

LEMMA NextRingStep ==
  ASSUME WalkInv, RootInv, NEW d \in Nat, RingAt(d), Paths!NextRing, UNCHANGED vars
  PROVE  RingAt(d + 1)'
<1>1. /\ looked = Paths!OutOfRing /\ looked' = {} /\ DOMAIN candidates' = {}
      /\ ring' = DOMAIN candidates /\ DOMAIN best' = DOMAIN best \cup DOMAIN candidates
      /\ \A n \in DOMAIN candidates : best'[n] = candidates[n]
      /\ \A n \in DOMAIN best : n \notin DOMAIN candidates => best'[n] = best[n]
  BY DEF Paths!NextRing
<1>2. Walked' = Walked /\ depth' = depth
  BY DEF vars, walk, Walked
<1>3. \A n \in DOMAIN candidates :
        n \in Walked /\ n \notin DOMAIN best /\ depth[n] = d + 1 /\ IsFirst(n, candidates[n])
  BY <1>1, CandidateIsFirst DEF RingAt
<1>4. ASSUME NEW n \in Walked, depth[n] = d + 1 PROVE n \in DOMAIN candidates
  <2>1. PICK m \in Walked : <<m, n>> \in edges /\ depth[n] = depth[m] + 1
    BY <1>4, DistanceFacts
  <2>2. depth[m] = d
    BY <1>4, <2>1, DistanceFacts
  <2>3. <<m, n>> \in looked
    BY <1>1, <2>1, <2>2 DEF RingAt, Paths!OutOfRing
  <2>4. n \notin DOMAIN best
    BY <1>4 DEF RingAt
  <2>5. <<m, n>>[2] = n
    OBVIOUS
  <2>. QED
    BY <2>3, <2>4, <2>5 DEF RingAt
<1>5. \A n \in Walked : depth[n] \in Nat /\ (n \in DOMAIN best <=> depth[n] <= d)
  BY DistanceFacts DEF RingAt
<1>6. ASSUME NEW n \in Walked'
      PROVE  (n \in DOMAIN best' <=> depth'[n] <= d + 1) /\ (n \in ring' <=> depth'[n] = d + 1)
  <2>1. depth[n] <= d + 1 <=> depth[n] <= d \/ depth[n] = d + 1
    BY <1>2, <1>5
  <2>. QED
    BY <1>1, <1>2, <1>3, <1>4, <1>5, <2>1
<1>7. ASSUME NEW n \in Walked \cap DOMAIN best', NEW p, p = best'[n] PROVE IsFirst(n, p)'
  <2>1. IsFirst(n, p)
    BY <1>1, <1>3, <1>7 DEF RingAt
  <2>. QED
    BY <2>1, PathsFixed
<1>8. \A n \in Walked' \cap DOMAIN best' : IsFirst(n, best[n])'
  BY <1>2, <1>7
<1>. QED
  BY <1>1, <1>6, <1>8 DEF RingAt

LEMMA PathsStep ==
  ASSUME WalkInv, RootInv, PathInv, Paths!Next, UNCHANGED vars
  PROVE  PathInv'
<1>1. PICK d \in Nat : RingAt(d)
  BY DEF PathInv
<1>2. ASSUME NEW e \in Paths!OutOfRing, Paths!LookAlong(e) PROVE PathInv'
  BY <1>1, <1>2, LookAlongStep DEF PathInv
<1>3. CASE Paths!NextRing
  <2>1. RingAt(d + 1)' /\ d + 1 \in Nat
    BY <1>1, <1>3, NextRingStep
  <2>. QED
    BY <2>1 DEF PathInv
<1>. QED
  BY <1>2, <1>3 DEF Paths!Next

\* When the ring is empty every walked node has its path: one that is deeper would
\* hang from the ring.
LEMMA PathsEnd ==
  ASSUME WalkInv, RootInv, PathInv, Paths!Finished
  PROVE  \A n \in Walked : n \in DOMAIN best /\ IsFirst(n, best[n])
<1>1. PICK d \in Nat : RingAt(d)
  BY DEF PathInv
<1>. DEFINE Deeper == {n \in Walked : ~(depth[n] <= d)}
<1>2. ASSUME Deeper # {} PROVE FALSE
  <2>1. \A n \in Deeper : depth[n] \in Nat
    BY DistanceFacts
  <2>2. PICK n \in Deeper : \A m \in Deeper : depth[n] <= depth[m]
    <3>. HIDE DEF Deeper
    <3>. QED
      BY <1>2, <2>1, LeastAt
  <2>3. n \in Walked /\ ~(depth[n] <= d) /\ depth[n] \in Nat /\ depth[n] # 0
    BY <2>1, <2>2
  <2>4. PICK m \in Walked : depth[n] = depth[m] + 1
    BY <2>3, DistanceFacts
  <2>5. depth[m] \in Nat
    BY DistanceFacts
  <2>6. depth[m] <= d
    BY <2>2, <2>4, <2>5
  <2>7. depth[m] = d
    BY <2>3, <2>4, <2>5, <2>6
  <2>. QED
    BY <1>1, <2>7 DEF RingAt, Paths!Finished
<1>. QED
  BY <1>1, <1>2 DEF RingAt

-----------------------------------------------------------------------------
(* The walk, then the cycles, then the paths *)

LEMMA InitGraph == GraphInit => GraphInv
<1>1. SUFFICES ASSUME GraphInit PROVE GraphInv
  OBVIOUS
<1>2. Init /\ Cycles!Init /\ Paths!Init
  BY <1>1 DEF GraphInit
<1>3. WalkInv
  BY <1>2, InitWalk
<1>4. Walked = {} /\ waiting = roots /\ node = None
  BY <1>2 DEF Init, Start, Walked
<1>5. RootInv /\ EdgeInv
  BY <1>4 DEF RootInv, EdgeInv
<1>. QED
  BY <1>2, <1>3, <1>5 DEF GraphInv

\* The walk is over when it is done.
LEMMA NothingAfterDone ==
  ASSUME WalkInv, Next
  PROVE  phase # "done"
<1>1. SUFFICES ASSUME phase = "done" PROVE FALSE
  OBVIOUS
<1>2. waiting = {} /\ level = {} /\ node = None
  BY <1>1 DEF WalkInv, PhaseInv, TypeOK
<1>. QED
  BY <1>1, <1>2
     DEF Next, StartWalk, LeaveNode, NextLevel, Finish, CutDepth, CutFanout, Join, CutNodes,
         Discover, Visiting

LEMMA CyclesKept ==
  ASSUME CycleInv, UNCHANGED vars, UNCHANGED cycleVars
  PROVE  CycleInv'
<1>1. UNCHANGED <<index, low, stack, work, cyclic>>
  BY DEF cycleVars
<1>2. /\ Walked' = Walked /\ Met' = Met /\ OnStack' = OnStack /\ Closed' = Closed
      /\ Explored' = Explored /\ Top' = Top
  BY <1>1, GraphFixed DEF Met, Cycles!Met, OnStack, ToSet, Closed, Explored, Top
<1>3. SearchTypeOK' /\ NumberInv'
  BY <1>1, <1>2 DEF CycleInv, SearchTypeOK, NumberInv
<1>4. WorkInv' /\ ClosedInv' /\ LeftInv'
  <2>1. \A c : Cycles!Succ(c)' = Cycles!Succ(c) /\ (Cycles!OnCycle(c)' <=> Cycles!OnCycle(c))
    BY GraphFixed
  <2>2. \A i \in DOMAIN work : \A v : v = work[i].node => Cycles!Succ(v)' = Cycles!Succ(v)
    BY <2>1
  <2>. QED
    BY <1>1, <1>2, <2>1, <2>2 DEF CycleInv, WorkInv, ClosedInv, LeftInv
<1>5. LowInv' /\ ChargeInv' /\ ReachInv'
  <2>1. \A a, b : Reaches(a, b)' <=> Reaches(a, b)
    BY GraphFixed
  <2>2. \A c : Cycles!Succ(c)' = Cycles!Succ(c)
    BY GraphFixed
  <2>3. \A m, x : (LookedAt(m, x)' <=> LookedAt(m, x)) /\ (Charged(m, x)' <=> Charged(m, x))
    BY <1>1, <1>2 DEF LookedAt, Charged
  <2>4. LowInv' /\ ChargeInv'
    BY <1>1, <1>2, <2>1, <2>2, <2>3 DEF CycleInv, LowInv, ChargeInv
  <2>5. ReachInv'
    BY <1>1, <1>2, <2>1 DEF CycleInv, ReachInv
  <2>. QED
    BY <2>4, <2>5
<1>. QED
  BY <1>3, <1>4, <1>5 DEF CycleInv

LEMMA PathsKept ==
  ASSUME PathInv, UNCHANGED vars, UNCHANGED pathVars
  PROVE  PathInv'
<1>1. PICK d \in Nat : RingAt(d)
  BY DEF PathInv
<1>2. UNCHANGED <<best, ring, candidates, looked>>
  BY DEF pathVars
<1>3. Walked' = Walked /\ depth' = depth /\ Paths!OutOfRing' = Paths!OutOfRing
  BY <1>2 DEF vars, walk, Walked, Paths!OutOfRing
<1>4. \A n \in Walked' \cap DOMAIN best' : IsFirst(n, best[n])'
  <2>1. \A n \in Walked \cap DOMAIN best : \A p : p = best[n] => IsFirst(n, p)'
    BY <1>1, PathsFixed DEF RingAt
  <2>. QED
    BY <1>2, <1>3, <2>1
<1>5. \A x \in looked' :
        \/ x[2] \in DOMAIN best'
        \/ /\ x[2] \in DOMAIN candidates'
           /\ ~Paths!Before(Append(best[x[1]], x[2]), candidates[x[2]])'
  <2>1. ASSUME NEW x \in looked
        PROVE  \/ x[2] \in DOMAIN best
               \/ /\ x[2] \in DOMAIN candidates
                  /\ ~Paths!Before(Append(best[x[1]], x[2]), candidates[x[2]])
    BY <1>1 DEF RingAt
  <2>. QED
    BY <1>2, <2>1 DEF Paths!Before
<1>6. \A n \in DOMAIN candidates' :
        /\ n \in Walked' \ DOMAIN best'
        /\ \E x \in looked' : x[2] = n /\ candidates'[n] = Append(best'[x[1]], n)
  BY <1>1, <1>2, <1>3 DEF RingAt
<1>7. /\ \A n \in Walked' : (n \in DOMAIN best' <=> depth'[n] <= d) /\ (n \in ring' <=> depth'[n] = d)
      /\ looked' \subseteq Paths!OutOfRing'
  BY <1>1, <1>2, <1>3 DEF RingAt
<1>8. RingAt(d)'
  BY <1>4, <1>5, <1>6, <1>7 DEF RingAt
<1>. QED
  BY <1>8 DEF PathInv

\* The searches and what rests only on the walk.
LEMMA WalkKept ==
  ASSUME WalkInv, RootInv, EdgeInv, UNCHANGED vars
  PROVE  WalkInv' /\ RootInv' /\ EdgeInv'
<1>1. WalkInv'
  BY NextWalk
<1>2. RootInv'
  BY DEF vars, input, walk, RootInv, Walked, Room
<1>3. EdgeInv'
  BY DEF vars, input, walk, EdgeInv, Followed, Walked, Room, CutAt, Present
<1>. QED
  BY <1>1, <1>2, <1>3

LEMMA NextGraph ==
  ASSUME GraphInv, [GraphNext]_allVars
  PROVE  GraphInv'
<1>1. WalkInv /\ RootInv /\ EdgeInv /\ IsFiniteSet(Walked)
  BY DEF GraphInv, WalkInv, TypeOK
<1>2. CycleInv
  BY CyclesBegin DEF GraphInv
<1>3. PathInv
  BY <1>1, PathsBegin DEF GraphInv, PathInv
<1>4. UNCHANGED cycleVars /\ Cycles!Init => Cycles!Init'
  BY DEF cycleVars, Cycles!Init
<1>5. UNCHANGED vars /\ UNCHANGED pathVars /\ Paths!Init => Paths!Init'
  BY DEF vars, input, pathVars, Paths!Init
<1>6. CASE Next /\ UNCHANGED <<cycleVars, pathVars>>
  <2>1. WalkInv' /\ RootInv' /\ EdgeInv'
    BY <1>1, <1>6, NextWalk, RootStep, EdgeStep
  <2>2. Cycles!Init /\ Paths!Init
    BY <1>1, <1>6, NothingAfterDone DEF GraphInv
  <2>3. roots' = roots
    BY <1>6 DEF Next, TakeRoot, CutRoot, StartWalk, SkipAbsent, EnterNode, CutDepth, CutFanout, Join,
                CutNodes, Cut, Discover, LeaveNode, NextLevel, Finish, input
  <2>4. Cycles!Init' /\ Paths!Init'
    BY <1>4, <1>6, <2>2, <2>3 DEF pathVars, Paths!Init
  <2>. QED
    BY <2>1, <2>4 DEF GraphInv
<1>7. CASE FindCycles
  <2>1. phase = "done" /\ phase' = phase /\ Cycles!Next /\ UNCHANGED vars /\ UNCHANGED pathVars
    BY <1>7 DEF FindCycles, vars, walk
  <2>2. CycleInv'
    BY <1>1, <1>2, <2>1, CyclesStep
  <2>3. PathInv'
    BY <1>3, <2>1, PathsKept
  <2>. QED
    BY <1>1, <2>1, <2>2, <2>3, WalkKept DEF GraphInv
<1>8. CASE FindPaths
  <2>1. phase = "done" /\ phase' = phase /\ Paths!Next /\ UNCHANGED vars /\ UNCHANGED cycleVars
    BY <1>8 DEF FindPaths, vars, walk
  <2>2. PathInv'
    BY <1>1, <1>3, <2>1, PathsStep
  <2>3. CycleInv'
    BY <1>2, <2>1, CyclesKept
  <2>. QED
    BY <1>1, <2>1, <2>2, <2>3, WalkKept DEF GraphInv
<1>9. CASE UNCHANGED allVars
  <2>1. UNCHANGED vars /\ UNCHANGED cycleVars /\ UNCHANGED pathVars /\ phase' = phase
    BY <1>9 DEF allVars, vars, walk
  <2>2. CycleInv' /\ PathInv'
    BY <1>2, <1>3, <2>1, CyclesKept, PathsKept
  <2>. QED
    BY <1>1, <1>4, <1>5, <2>1, <2>2, WalkKept DEF GraphInv
<1>. QED
  BY <1>6, <1>7, <1>8, <1>9 DEF GraphNext

LEMMA GraphAlways == GraphSpec => []GraphInv
  BY InitGraph, NextGraph, PTL DEF GraphSpec

LEMMA SearchesHold ==
  ASSUME GraphInv
  PROVE  CycleInv /\ PathInv /\ WalkInv /\ RootInv /\ EdgeInv /\ IsFiniteSet(Walked)
<1>1. WalkInv /\ RootInv /\ EdgeInv /\ IsFiniteSet(Walked)
  BY DEF GraphInv, WalkInv, TypeOK
<1>. QED
  BY <1>1, CyclesBegin, PathsBegin DEF GraphInv, PathInv

\* The nodes that _cycle_nodes reports are exactly those on a directed cycle of the walk
\* graph, for every bundle, all roots and limits, and in whatever order it takes them.
THEOREM FindsEveryCycle == GraphSpec => []CyclesAreFound
<1>1. GraphInv => CyclesAreFound
  BY SearchesHold, CyclesEnd DEF CyclesAreFound
<1>. QED
  BY <1>1, GraphAlways, PTL

\* The path that _shortest_paths gives a walked node is a path of the walk graph from a
\* root, as long as the node is deep, and the first among those in the order of ctx_ids.
THEOREM FindsFirstPaths == GraphSpec => []PathsAreShortest
<1>1. GraphInv => PathsAreShortest
  <2>1. SUFFICES ASSUME GraphInv, Done, NEW n \in Walked
                 PROVE  /\ n \in DOMAIN best
                        /\ Len(best[n]) = depth[n] + 1 /\ best[n][Len(best[n])] = n
                        /\ Paths!IsPath(best[n])
                        /\ \A p \in [1..Len(best[n]) -> Walked] :
                             Paths!IsPath(p) /\ p[Len(p)] = n => ~Paths!Before(p, best[n])
    BY DEF PathsAreShortest
  <2>2. n \in DOMAIN best /\ IsFirst(n, best[n])
    BY <2>1, SearchesHold, PathsEnd DEF Done
  <2>. QED
    BY <2>2 DEF IsFirst
<1>. QED
  BY <1>1, GraphAlways, PTL

\* Where no limit hides a reference and the walk calls itself complete, a context that
\* derives from itself through the bundle is reported as cyclic: the walk graph has
\* every reference of what was walked, so none of its cycles is missed.
THEOREM NoCycleIsMissed == GraphSpec => []NoCycleEscapes
<1>1. GraphInv => NoCycleEscapes
  <2>1. SUFFICES ASSUME GraphInv, Done, Complete, Unhidden, NEW n \in Walked \cap DOMAIN refs,
                        \A S \in SUBSET Nodes :
                          BundleClosed(S) /\ (\A i \in DOMAIN refs[n] : refs[n][i] \in S) => n \in S
                 PROVE  n \in cyclic
    BY DEF NoCycleEscapes
  <2>2. /\ CycleInv /\ WalkInv /\ EdgeInv /\ IsFiniteSet(Walked) /\ phase = "done" /\ Cycles!Finished
    BY <2>1, SearchesHold DEF Done
  <2>3. cyclic = {x \in Walked : Cycles!OnCycle(x)}
    BY <2>2, CyclesEnd
  <2>4. /\ Walked \subseteq Nodes /\ edges \subseteq Walked \X Walked /\ level = {} /\ next = {}
        /\ \A m \in Walked : Present(m) => refs[m] \in Seq(Nodes)
    BY <2>2 DEF WalkInv, PhaseInv, TypeOK, Present
  <2>5. ASSUME NEW m \in Walked, Present(m), NEW i \in DOMAIN refs[m]
        PROVE  refs[m][i] \in Cycles!Succ(m)
    <3>1. refs[m] \in Seq(Nodes)
      BY <2>4, <2>5
    <3>2. refs[m] # <<>> /\ i \in 1..Len(refs[m]) /\ Len(refs[m]) \in Nat
      BY <3>1
    <3>3. depth[m] < limits.max_depth /\ Len(refs[m]) <= limits.max_fanout
      BY <2>1, <2>5, <3>2 DEF Unhidden
    <3>4. i <= limits.max_fanout
      <4>1. limits.max_fanout \in Nat
        BY <2>2, LimitsType DEF WalkInv
      <4>. QED
        BY <3>2, <3>3, <4>1
    <3>5. Followed(m, i)
      BY <2>2, <2>4, <2>5 DEF EdgeInv
    <3>6. ~(refs[m][i] \in CutAt /\ refs[m][i] \notin Walked)
      BY <2>1 DEF Complete, Frontier
    <3>7. <<m, refs[m][i]>> \in edges
      BY <3>3, <3>4, <3>5, <3>6 DEF Followed
    <3>. QED
      BY <2>4, <3>7 DEF Cycles!Succ
  <2>6. ASSUME NEW S \in SUBSET Walked, Cycles!Succ(n) \subseteq S,
               \A m \in S : Cycles!Succ(m) \subseteq S
        PROVE  n \in S
    <3>1. BundleClosed(S)
      BY <2>5, <2>6 DEF BundleClosed, Present
    <3>2. \A i \in DOMAIN refs[n] : refs[n][i] \in S
      BY <2>5, <2>6 DEF Present
    <3>. QED
      BY <2>1, <2>4, <3>1, <3>2
  <2>7. Cycles!OnCycle(n)
    BY <2>6 DEF Cycles!OnCycle
  <2>. QED
    BY <2>3, <2>7
<1>. QED
  BY <1>1, GraphAlways, PTL
=============================================================================
