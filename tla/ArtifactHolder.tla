--------------------------- MODULE ArtifactHolder ---------------------------
(***************************************************************************)
(* An A2A agent that streams artifacts in chunks and signs a body for each *)
(* one it completes, and the holder that assembles what reaches it and     *)
(* verifies it (a2a.py assemble_chunks and verify_artifact, section 8).    *)
(* The stream may lose a chunk; links may be failed, lack a salt or name   *)
(* another body.                                                           *)
(***************************************************************************)
EXTENDS FixedOrder

CONSTANTS
  Artifacts,   \* artifact ids
  Agents,      \* who may sign a body: for each whether its DID is a did:key
  Forms,       \* how a part may be written on the wire
  Labels,       \* labels; "" is an absent one
  Holders,     \* what a holder trusts and knows
  MaxChunks    \* bound of the model

ASSUME HoldersAssumption ==
  \A h \in Holders : /\ h.trusts \subseteq DOMAIN Agents
                     /\ h.card \in DOMAIN Agents \cup {""} /\ h.aid \in DOMAIN Agents \cup {""}
                     /\ h.task \in STRING

VARIABLES
  made,       \* the artifacts as the agent means them
  completed,  \* the bodies signed, by artifact
  received,   \* the chunks that reached the holder, in order
  lost        \* the artifacts of which a chunk was lost

artifactVars == <<made, completed, received, lost>>

Task == "task"
NotMade == [parts |-> <<>>, name |-> ""]
NoBody == [signer |-> ""]
NoLink == [names |-> "", form |-> "none"]
Nothing == [parts |-> <<>>, name |-> "", link |-> NoLink]

-----------------------------------------------------------------------------
(* The agent and the stream (external) *)

Part(content, form) == [content |-> content, form |-> form]
Chunk(id, append, parts, name, link) ==
  [id |-> id, append |-> append, parts |-> parts, name |-> name, link |-> link]

Deliver(chunk, arrives) ==
  /\ received' = IF arrives THEN Append(received, chunk) ELSE received
  /\ lost' = IF arrives THEN lost ELSE lost \cup {chunk.id}

Label(name, before) == IF name = "" THEN before ELSE name
\* One chunk may be lost.
MayArrive(arrives) == Len(received) < MaxChunks /\ (arrives \/ lost = {})

\* The agent starts an artifact, or starts it again, with one part.
Start(id, form, name, arrives) ==
  /\ MayArrive(arrives) /\ completed[id] = NoBody
  /\ made' = [made EXCEPT ![id] = [parts |-> <<"first">>, name |-> Label(name, @.name)]]
  /\ Deliver(Chunk(id, FALSE, <<Part("first", form)>>, name, NoLink), arrives)
  /\ UNCHANGED completed

Extend(id, form, arrives) ==
  /\ MayArrive(arrives) /\ completed[id] = NoBody /\ made[id] # NotMade
  /\ made' = [made EXCEPT ![id] = [parts |-> Append(@.parts, "more"), name |-> @.name]]
  /\ Deliver(Chunk(id, TRUE, <<Part("more", form)>>, "", NoLink), arrives)
  /\ UNCHANGED completed

\* Somebody signs a body for what was made and sends the last chunk with a link; the
\* link may be to the body of another artifact.
Complete(id, signer, link, arrives) ==
  /\ MayArrive(arrives) /\ completed[id] = NoBody /\ made[id] # NotMade
  /\ completed' = [completed EXCEPT ![id] =
       [signer |-> signer, id |-> id, parts |-> made[id].parts, name |-> made[id].name]]
  /\ Deliver(Chunk(id, TRUE, <<>>, "", link), arrives)
  /\ UNCHANGED made

-----------------------------------------------------------------------------
(* assemble_chunks *)

\* A fresh start replaces the parts; the labels stay the last carried.
\* Faulty variant: a fresh start drops them.
JoinAfresh(before, chunk) ==
  IF chunk.append /\ before # Nothing
  THEN [parts |-> before.parts \o chunk.parts, name |-> Label(chunk.name, before.name),
        link |-> IF chunk.link = NoLink THEN before.link ELSE chunk.link]
  ELSE [parts |-> chunk.parts, name |-> chunk.name, link |-> chunk.link]
Join(before, chunk) ==
  LET extends == chunk.append /\ before # Nothing
  IN  [parts |-> IF extends THEN before.parts \o chunk.parts ELSE chunk.parts,
       name |-> Label(chunk.name, before.name),
       link |-> IF extends /\ chunk.link = NoLink THEN before.link ELSE chunk.link]

Assemble(chunks, id) ==
  LET upTo[n \in 0..Len(chunks)] ==
        IF n = 0 THEN Nothing
        ELSE IF chunks[n].id = id THEN Join(upTo[n - 1], chunks[n]) ELSE upTo[n - 1]
  IN  upTo[Len(chunks)]
Assembled(id) == Assemble(received, id)

-----------------------------------------------------------------------------
(* verify_artifact *)

\* Null members and empty file names are as good as absent; a member outside the Part
\* is refused.
Normalizable(parts) == \A i \in DOMAIN parts : parts[i].form # "unknown member"
Normalized(parts) == [i \in DOMAIN parts |-> parts[i].content]

SameParts(parts, body) == Normalizable(parts) /\ Normalized(parts) = body.parts

\* Faulty variant: the parts are enough to tell an artifact.
AnyArtifact(id, body) == body.id # ""
SameArtifact(id, body) == body.id = id

StepsOf(h, id, held, body) ==
  << Step("link_failed", held.link # NoLink /\ held.link.form # "failed"),
     Step("link_mismatch", body # NoBody /\ held.link.names = body.id),
     Step("untrusted_agent", body.signer \in h.trusts),
     Step("card_mismatch", h.card \in {"", body.signer}),
     Step("aid_mismatch", h.aid \in {"", body.signer} \/ ~Agents[body.signer]),
     Step("salt_invalid", held.link.form # "saltless"),
     Step("parts_mismatch", SameParts(held.parts, body)),
     Step("artifact_id_mismatch", SameArtifact(id, body)),
     Step("label_mismatch", body.name \in {"", held.name}),
     Step("task_mismatch", h.task \in {"", Task}) >>

\* The steps that read a body are only taken where there is one.
VerifyArtifact(h, id, held, body) ==
  IF held.link = NoLink \/ body = NoBody THEN "link_failed"
  ELSE FirstFailure(StepsOf(h, id, held, body))

-----------------------------------------------------------------------------
LinksFor(id) ==
  {[names |-> names, form |-> "proper"] : names \in Artifacts}
  \cup {[names |-> id, form |-> form] : form \in {"failed", "saltless"}}

ArtifactInit ==
  /\ made = [id \in Artifacts |-> NotMade] /\ completed = [id \in Artifacts |-> NoBody]
  /\ received = <<>> /\ lost = {}

ArtifactNext ==
  \E id \in Artifacts, arrives \in BOOLEAN :
    \/ \E form \in Forms, name \in Labels : Start(id, form, name, arrives)
    \/ \E form \in Forms : Extend(id, form, arrives)
    \/ \E signer \in DOMAIN Agents, link \in LinksFor(id) : Complete(id, signer, link, arrives)

ArtifactSpec == ArtifactInit /\ [][ArtifactNext]_artifactVars

-----------------------------------------------------------------------------
(* Properties *)

\* What a holder accepts is what an agent it trusts completed under that id, part by
\* part and with its name, whatever was lost, started again or linked wrongly.
AcceptedIsCompleted ==
  \A h \in Holders, id \in Artifacts, of \in Artifacts :
    VerifyArtifact(h, id, Assembled(id), completed[of]) = Passed =>
      /\ completed[id].signer \in h.trusts
      /\ Normalizable(Assembled(id).parts)
      /\ Normalized(Assembled(id).parts) = made[id].parts
      /\ made[id].name \in {"", Assembled(id).name}

\* What arrives whole, in parts the holder can read and with a proper link to a body of
\* the agent it reached, is accepted.
DeliveredIsAccepted ==
  \A h \in Holders, id \in Artifacts :
    /\ completed[id] # NoBody /\ id \notin lost
    /\ Normalizable(Assembled(id).parts)
    /\ Assembled(id).link = [names |-> id, form |-> "proper"]
    /\ completed[id].signer \in h.trusts /\ h.card \in {"", completed[id].signer}
    /\ h.aid \in {"", completed[id].signer} /\ h.task \in {"", Task}
    => VerifyArtifact(h, id, Assembled(id), completed[id]) = Passed

\* An artifact is accepted if an agent the holder trusts completed it as it was
\* assembled, and only then.
ArtifactsAreExact == AcceptedIsCompleted /\ DeliveredIsAccepted
=============================================================================
