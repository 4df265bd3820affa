---------------------------- MODULE WitnessedLog ----------------------------
(***************************************************************************)
(* A transparency log, the witnesses that cosign its checkpoints and the   *)
(* consumer that counts them and checks proofs (cosignature.py             *)
(* evaluate_quorum, translog.py verify_checkpoint, verify_log_inclusion).  *)
(* The registry may show two views of the log that part at some entry.     *)
(* Entries are numbered; those of the second view count from 100.          *)
(***************************************************************************)
EXTENDS MerkleTree, WitnessPolicy

CONSTANTS
  Witnesses,     \* trusted or not
  Partings,      \* where the two views may differ
  MaxEntries, MaxCosigned, MaxCosignatures   \* bounds of the model

ASSUME LogBoundAssumption == MaxEntries \in Nat

VARIABLES
  logged,         \* how many entries the registry has recorded
  parting,        \* after how many its two views differ
  retained,       \* the checkpoint each witness cosigned last
  cosignatures,   \* the cosignatures in circulation
  claimed         \* the inclusion proof the consumer was handed last

logVars == <<logged, parting, retained, cosignatures, claimed>>

Views == {"true", "other"}
Recorded(view, part, size) ==
  [i \in 1..size |-> LeafHash(IF view = "other" /\ i > part THEN 100 + i ELSE i)]
History(view, size) == Recorded(view, parting, size)
Checkpoint(view, size) == [size |-> size, root |-> Root(History(view, size))]
Checkpoints == {Checkpoint(view, size) : view \in Views, size \in 0..logged}
NoCheckpoint == [size |-> 0, root |-> <<>>]
NoClaim == [leaf |-> <<>>]

\* Honest proofs and those with a node too few or too many.
Paths(proper) ==
  proper \cup {Tail(p) : p \in proper \ {<<>>}} \cup {Append(p, LeafHash(1)) : p \in proper}

ConsistencyPaths(size) ==
  Paths({ConsistencyPath(first, History(view, size)) : view \in Views, first \in 1..size})
InclusionPaths ==
  Paths({InclusionPath(size - 1, History(view, size)) : view \in Views, size \in 1..logged}
        \cup {InclusionPath(index, History(view, logged)) : view \in Views, index \in 0..(logged - 1)})

-----------------------------------------------------------------------------
(* The registry and the witnesses (external) *)

Record ==
  /\ claimed = NoClaim /\ logged < MaxEntries /\ logged' = logged + 1
  /\ UNCHANGED <<parting, retained, cosignatures, claimed>>

\* A cosignature is by a key of some DID, about a checkpoint; a witness may sign the
\* same one again later.
Cosignature(w, checkpoint, again) ==
  [witness |-> w, checkpoint |-> checkpoint, again |-> again]
MayCosign ==
  claimed = NoClaim /\ Cardinality(cosignatures) < MaxCosignatures /\ logged <= MaxCosigned

\* An honest witness cosigns what a proof shows to continue what it cosigned last.
Shown(w, checkpoint) ==
  \E path \in ConsistencyPaths(checkpoint.size) :
    VerifyConsistency(retained[w].size, checkpoint.size, path, retained[w].root, checkpoint.root)
Cosign(w, checkpoint, again) ==
  /\ MayCosign /\ (retained[w] = NoCheckpoint \/ Shown(w, checkpoint))
  /\ retained' = [retained EXCEPT ![w] = checkpoint]
  /\ cosignatures' = cosignatures \cup {Cosignature(w, checkpoint, again)}
  /\ UNCHANGED <<logged, parting, claimed>>

\* Any other signs anything.
CosignAnything(w, checkpoint, again) ==
  /\ MayCosign
  /\ cosignatures' = cosignatures \cup {Cosignature(w, checkpoint, again)}
  /\ UNCHANGED <<logged, parting, retained, claimed>>

\* The consumer is handed a proof that some entry is in the tree of a checkpoint.
HandProof(entry, index, checkpoint, path) ==
  /\ claimed = NoClaim /\ cosignatures = {}
  /\ claimed' = [leaf |-> LeafHash(entry), index |-> index, size |-> checkpoint.size,
                 root |-> checkpoint.root, path |-> path]
  /\ UNCHANGED <<logged, parting, retained, cosignatures>>

-----------------------------------------------------------------------------
(* The consumer *)

\* verify_cosignature against the checkpoint under evaluation: the witness is trusted,
\* and what it cosigned is this very checkpoint.
\* Faulty variant: a cosignature counts for whatever checkpoint it comes with.
AboutAny(c, checkpoint) == c.witness \in Trusted
VerifiesFor(c, checkpoint) == c.witness \in Trusted /\ c.checkpoint = checkpoint

\* evaluate_quorum: distinct witnesses.
\* Faulty variant: every cosignature counts.
CountCosignatures(checkpoint) == Cardinality({c \in cosignatures : VerifiesFor(c, checkpoint)})
WitnessedCount(checkpoint) ==
  Cardinality({c.witness : c \in {d \in cosignatures : VerifiesFor(d, checkpoint)}})
Meets(checkpoint) == WitnessedCount(checkpoint) >= Quorum

Included == VerifyInclusion(claimed.leaf, claimed.index, claimed.size, claimed.path, claimed.root)

-----------------------------------------------------------------------------
LogInit ==
  /\ logged = 0 /\ parting \in Partings /\ cosignatures = {} /\ claimed = NoClaim
  /\ retained = [w \in Honest |-> NoCheckpoint]

LogNext ==
  \/ Record
  \/ \E checkpoint \in Checkpoints \ {NoCheckpoint}, again \in BOOLEAN, w \in Witnesses :
       IF w \in Honest THEN Cosign(w, checkpoint, again) ELSE CosignAnything(w, checkpoint, again)
  \/ \E view \in Views, entry \in 1..logged, index \in 0..logged, path \in InclusionPaths :
       HandProof(entry, index, Checkpoint(view, logged), path)

LogSpec == LogInit /\ [][LogNext]_logVars

-----------------------------------------------------------------------------
(* Properties *)

\* The entries under a root that the registry made.
EntriesOf(checkpoint) ==
  CHOOSE history \in {History(view, checkpoint.size) : view \in Views} :
    Root(history) = checkpoint.root

\* An inclusion proof is accepted if and only if the entry stands at its index and the
\* path is the one the log computes: for trees of every shape, the right edge of
\* those whose size is not a power of two included.
ProofsAreExact ==
  claimed # NoClaim =>
    LET entries == EntriesOf(claimed)
    IN  Included <=> /\ claimed.index < claimed.size
                     /\ entries[claimed.index + 1] = claimed.leaf
                     /\ claimed.path = InclusionPath(claimed.index, entries)

\* Two checkpoints that both meet the quorum are of one history, whatever view of
\* the log the registry shows to whom.
QuorumMeansOneHistory ==
  \A one, other \in {c.checkpoint : c \in cosignatures} :
    Meets(one) /\ Meets(other) /\ one.size <= other.size =>
      EntriesOf(one) = SubSeq(EntriesOf(other), 1, one.size)

\* Witnesses that follow the proofs keep the contract.
Contract == INSTANCE WitnessContract WITH
  Histories <- {Recorded(view, part, size) : view \in Views, part \in Partings,
                  size \in 0..MaxEntries},
  named <- [w \in Trusted |->
              {EntriesOf(c.checkpoint) : c \in {d \in cosignatures : d.witness = w}}]
KeepsWitnessContract == Contract!WitnessSpec
=============================================================================
