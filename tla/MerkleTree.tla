----------------------------- MODULE MerkleTree -----------------------------
(***************************************************************************)
(* The Merkle trees of the transparency log and the proofs over them       *)
(* (translog.py).  A hash is a term: what is hashed, a leaf or a pair of   *)
(* hashes, which the 0x00 and 0x01 prefixes keep apart.                    *)
(***************************************************************************)
EXTENDS Naturals, Sequences

LeafHash(entry) == <<entry>>
NodeHash(left, right) == <<left, right>>

\* The loops that shift bits.
Times(step, count, start) ==
  LET after[i \in 0..count] == IF i = 0 THEN start ELSE step[after[i - 1]]
  IN  after[count]
Doubling == [n \in Nat |-> 2 * n]
Halving == [n \in Nat |-> n \div 2]
PowerOfTwo(e) == Times(Doubling, e, 1)
Shifted(n, bits) == Times(Halving, bits, n)

-----------------------------------------------------------------------------
(* Roots and proofs.  A segment of the leaves is its offset and its size.  *)

\* The largest power of two that is less than n, for n > 1.
Split(n) == CHOOSE k \in {PowerOfTwo(e) : e \in 0..n} : k < n /\ n <= 2 * k

Segments(n) == {s \in (0..n) \X (0..n) : s[1] + s[2] <= n}
Left(s) == <<s[1], Split(s[2])>>
Right(s) == <<s[1] + Split(s[2]), s[2] - Split(s[2])>>

Roots(leaves) ==
  LET root[s \in Segments(Len(leaves))] ==
        IF s[2] = 0 THEN <<>>
        ELSE IF s[2] = 1 THEN leaves[s[1] + 1]
        ELSE NodeHash(root[Left(s)], root[Right(s)])
  IN  root
Root(leaves) == Roots(leaves)[<<0, Len(leaves)>>]

\* compute_inclusion_path and compute_consistency_path.
InclusionPath(index, leaves) ==
  LET path[s \in Segments(Len(leaves))] ==
        IF s[2] <= 1 THEN <<>>
        ELSE IF index < Right(s)[1] THEN Append(path[Left(s)], Roots(leaves)[Right(s)])
        ELSE Append(path[Right(s)], Roots(leaves)[Left(s)])
  IN  path[<<0, Len(leaves)>>]

\* The subtrees in which the old tree ends; one at offset 0 that ends with it is the old
\* tree, whose root is known.
Holding(first, n) == {s \in Segments(n) : s[1] < first /\ first <= s[1] + s[2]}
ConsistencyPath(first, leaves) ==
  LET path[s \in Holding(first, Len(leaves))] ==
        IF s[1] + s[2] = first THEN IF s[1] = 0 THEN <<>> ELSE <<Roots(leaves)[s]>>
        ELSE IF first <= Right(s)[1] THEN Append(path[Left(s)], Roots(leaves)[Right(s)])
        ELSE Append(path[Right(s)], Roots(leaves)[Left(s)])
  IN  path[<<0, Len(leaves)>>]

-----------------------------------------------------------------------------
(* The folds of verify_inclusion and verify_consistency: both climb from a *)
(* node and the right edge, rebuilding the root of the new tree and, where *)
(* the sibling is on the left, that of the old.                            *)

\* How many bits are shifted out before the last one is as given.
ShiftsTo(bit, n) ==
  CHOOSE z \in 0..n : /\ Shifted(n, z) % 2 = bit
                      /\ \A y \in 0..(z - 1) : Shifted(n, y) % 2 # bit

Climb(at, levels) == [at EXCEPT !.node = Shifted(@, levels), !.edge = Shifted(@, levels)]

\* Faulty variant: the last node of a level that has no sibling is not skipped.
AscendOne(at, sibling) ==
  IF at.edge = 0 THEN [at EXCEPT !.tooLong = TRUE]
  ELSE IF at.node % 2 = 1 \/ at.node = at.edge
  THEN Climb([at EXCEPT !.old = NodeHash(sibling, @), !.new = NodeHash(sibling, @)], 1)
  ELSE Climb([at EXCEPT !.new = NodeHash(@, sibling)], 1)
Ascend(at, sibling) ==
  IF at.edge = 0 THEN [at EXCEPT !.tooLong = TRUE]
  ELSE IF at.node % 2 = 1 \/ at.node = at.edge
  THEN Climb([at EXCEPT !.old = NodeHash(sibling, @), !.new = NodeHash(sibling, @)],
             1 + ShiftsTo(1, at.node))
  ELSE Climb([at EXCEPT !.new = NodeHash(@, sibling)], 1)

Foot(node, edge, hash) ==
  [node |-> node, edge |-> edge, old |-> hash, new |-> hash, tooLong |-> FALSE]
Folded(start, path) ==
  LET at[i \in 0..Len(path)] == IF i = 0 THEN start ELSE Ascend(at[i - 1], path[i])
  IN  at[Len(path)]

VerifyInclusion(leaf, index, size, path, root) ==
  /\ index < size
  /\ LET at == Folded(Foot(index, size - 1, leaf), path)
     IN  ~at.tooLong /\ at.edge = 0 /\ at.new = root

\* What the path climbs from; an exact power of two is the root of its own tree, which
\* the path leaves out.
Nodes(first, path, oldRoot) ==
  IF first = PowerOfTwo(ShiftsTo(0, first - 1)) THEN <<oldRoot>> \o path ELSE path
Climbed(first, second, nodes) ==
  LET skip == ShiftsTo(0, first - 1)
  IN  Folded(Foot(Shifted(first - 1, skip), Shifted(second - 1, skip), nodes[1]), Tail(nodes))

\* Faulty variant: the root retained is not compared.
VerifyNewRoot(first, second, path, oldRoot, newRoot) ==
  0 < first /\ first < second /\ path # <<>>
    => LET at == Climbed(first, second, Nodes(first, path, oldRoot))
       IN  ~at.tooLong /\ at.edge = 0 /\ at.new = newRoot
VerifyConsistency(first, second, path, oldRoot, newRoot) ==
  IF first = second THEN path = <<>> /\ oldRoot = newRoot
  ELSE /\ 0 < first /\ first < second /\ path # <<>>
       /\ LET at == Climbed(first, second, Nodes(first, path, oldRoot))
          IN  ~at.tooLong /\ at.edge = 0 /\ at.old = oldRoot /\ at.new = newRoot
=============================================================================
