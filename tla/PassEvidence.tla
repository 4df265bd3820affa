---------------------------- MODULE PassEvidence ----------------------------
(***************************************************************************)
(* What one pass of the chain verifier (chain.py _Pass) may look at: the   *)
(* evidence dated by T in an as-of pass, all of it in the latest pass, and *)
(* the snapshot of a DID document that speaks for a DID (sections 6.2, 6.4).*)
(***************************************************************************)
EXTENDS Integers, Sequences

Latest == -1   \* the pass without a T
NoTime == -2   \* evidence that carries no (verified) date
NoKey == 0

\* A DID document: the key in assertionMethod, and all in verificationMethod.
Document(keys) == [current : keys, methods : SUBSET keys]
NoDocument == [current |-> NoKey, methods |-> {}]

\* An entry of did_documents, or of pinned.snapshots.
Snapshot(keys) == [at : Nat, pinned : BOOLEAN, doc : Document(keys)]

Admits(t, pass) == pass = Latest \/ (t # NoTime /\ t <= pass)

\* Greatest time; at one time a pinned snapshot, then the later in the array.
Outranks(s, i, j) ==
  \/ s[i].at > s[j].at
  \/ /\ s[i].at = s[j].at
     /\ (s[i].pinned /\ ~s[j].pinned) \/ (s[i].pinned = s[j].pinned /\ i > j)

\* Faulty variant: the last snapshot of the array, whatever its date.
LastSnapshot(s, pass) == {i \in DOMAIN s : i = Len(s)}
Chosen(s, pass) ==
  {i \in DOMAIN s : /\ Admits(s[i].at, pass)
                    /\ \A j \in DOMAIN s \ {i} : Admits(s[j].at, pass) => Outranks(s, i, j)}

Selected(s, pass) ==
  LET chosen == Chosen(s, pass)
  IN  IF chosen = {} THEN NoDocument ELSE s[CHOOSE i \in chosen : TRUE].doc
=============================================================================
