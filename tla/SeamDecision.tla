---------------------------- MODULE SeamDecision ----------------------------
(***************************************************************************)
(* The verdict on a seam.decision anchor (seamdecision.py): the digest of  *)
(* a sealed record is recomputed from what its holder discloses of it.     *)
(* Of the eighteen slots there is one of each kind: two strings that must  *)
(* not be empty, two that may be absent, a digest whose input may be       *)
(* disclosed too, and the version, which selects the construction.         *)
(***************************************************************************)
EXTENDS Naturals, Sequences

CONSTANTS
  Strings,        \* what a string slot may hold: sequences of bytes
  Participants,   \* lists of participant ids
  Absent,         \* what stands for a slot that is absent
  Sha256(_)       \* the digest of a sequence of bytes

VARIABLES
  sealed,      \* the record as it was sealed; the anchor is the digest of its slots
  disclosed    \* what the verifier is shown: slots, their version and perhaps raw inputs

seamVars == <<sealed, disclosed>>

SupportedVersion == 4
NotSealed == [id |-> <<>>]
NotDisclosed == [version |-> 0]
Records ==
  [id : Strings, outcome : Strings, mode : Strings \cup {Absent},
   supersedes : Strings \cup {Absent}, participants : Participants]

-----------------------------------------------------------------------------
(* preimage_v4 *)

\* le32(len(x)) || x, and 0x00 or 0x01 || frame(x)
\* Faulty variant: without the length.
Bare(bytes) == bytes
Frame(bytes) == <<Len(bytes)>> \o bytes
Opt(slot) == IF slot = Absent THEN <<0>> ELSE <<1>> \o Frame(slot)

\* In stored order, the count not framed.
ParticipantsBytes(ids) ==
  LET upTo[n \in 0..Len(ids)] == IF n = 0 THEN <<Len(ids)>> ELSE upTo[n - 1] \o Frame(ids[n])
  IN  upTo[Len(ids)]
ParticipantsDigest(ids) == Sha256(ParticipantsBytes(ids))

Preimage(slots) ==
  Frame(slots.id) \o Frame(slots.outcome) \o Opt(slots.mode) \o Opt(slots.supersedes)
    \o Frame(<<slots.participants_digest>>) \o Frame(<<SupportedVersion>>)

ASSUME StringsAssumption == Strings \subseteq Seq(Nat) /\ Absent \notin Strings
ASSUME ParticipantsAssumption == Participants \subseteq Seq(Strings)

\* A digest is a number that tells apart what is hashed.
ASSUME DigestAssumption ==
  \A one \in Participants :
    /\ ParticipantsDigest(one) \in Nat
    /\ \A other \in Participants :
         ParticipantsDigest(one) = ParticipantsDigest(other) =>
           ParticipantsBytes(one) = ParticipantsBytes(other)

-----------------------------------------------------------------------------
(* The sealer and whoever discloses (external) *)

SlotsOf(record) ==
  [id |-> record.id, outcome |-> record.outcome, mode |-> record.mode,
   supersedes |-> record.supersedes,
   participants_digest |-> ParticipantsDigest(record.participants)]

MandatoryThere(record) == record.id # <<>> /\ record.outcome # <<>>

Seal(record) ==
  /\ sealed = NotSealed /\ MandatoryThere(record)
  /\ sealed' = record
  /\ UNCHANGED disclosed

\* The slots of a record are shown, with the raw participants of one or without, as of some version.
Disclose(record, version, raw) ==
  /\ sealed # NotSealed /\ disclosed = NotDisclosed
  /\ disclosed' = [slots |-> SlotsOf(record), version |-> version, raw |-> raw]
  /\ UNCHANGED sealed

-----------------------------------------------------------------------------
(* parse_disclosed_record and verify_anchor *)

Consistent(d) == d.raw = Absent \/ ParticipantsDigest(d.raw) = d.slots.participants_digest

VerifyAnchor(anchor, d) ==
  IF d.version # SupportedVersion THEN "unknown_record_digest_version"
  ELSE IF ~MandatoryThere(d.slots) THEN "malformed_record"
  ELSE IF ~Consistent(d) THEN "inconsistent_disclosure"
  ELSE IF Preimage(d.slots) = anchor THEN "match" ELSE "mismatch"

SeamInit == sealed = NotSealed /\ disclosed = NotDisclosed
SeamNext ==
  \/ \E record \in Records : Seal(record)
  \/ \E record \in Records : Disclose(record, SupportedVersion, Absent)
  \/ \E version \in {3, 4, 5}, raw \in Participants \cup {Absent} :
       sealed # NotSealed /\ Disclose(sealed, version, raw)
SeamSpec == SeamInit /\ [][SeamNext]_seamVars

-----------------------------------------------------------------------------
\* A disclosure matches if and only if its slots are those that were sealed, what is
\* absent in one absent in the other, and its raw inputs, if any, are theirs: bytes
\* never move from one slot to the next, and no other version falls back to this one.
MatchMeansSealed ==
  disclosed # NotDisclosed =>
    (VerifyAnchor(Preimage(SlotsOf(sealed)), disclosed) = "match" <=>
       /\ disclosed.slots = SlotsOf(sealed)
       /\ disclosed.version = SupportedVersion
       /\ disclosed.raw \in {Absent, sealed.participants})
=============================================================================
