---------------------------- MODULE MCVerifiers ----------------------------
(***************************************************************************)
(* The verifiers that share nothing with each other, side by side: each    *)
(* behaviour has one subject, whose world moves while the others' stand.   *)
(***************************************************************************)
EXTENDS MCKeyless, MCEncodings, WitnessedLog, ArtifactHolder, ArtifactStatus, SeamDecision,
        SignedContext, ToolResult, WireShapes
LOCAL INSTANCE SequencesExt

-----------------------------------------------------------------------------
(* Instances *)

MCAgents == [did_web |-> FALSE, did_key |-> TRUE]
Holder(trusts, card, aid, task) == [trusts |-> trusts, card |-> card, aid |-> aid, task |-> task]
MCHolders ==
  {Holder({"did_web"}, "", "", ""), Holder({"did_web"}, "did_web", "did_key", "task"),
   Holder({"did_web", "did_key"}, "", "did_key", "task"),
   Holder({"did_key"}, "did_web", "", ""), Holder({"did_web"}, "", "", "another task")}

MCStrings == {<<>>, <<1>>, <<1, 1>>}
MCParticipants == {<<>>, <<<<1>>>>, <<<<1>>, <<1>>>>}
MCAbsent == <<0, 0, 0>>
\* A number that no other sequence of bytes below 7 has.
MCSha256(message) == FoldLeft(LAMBDA number, byte : 8 * number + byte + 1, 0, message)

Content(agent, version, word) == [agent |-> agent, version |-> version, word |-> word]
MCContents ==
  {Content("owner", 1, "a"), Content("owner", 2, "b"), Content("neighbour", 1, "a")}
Stating(author, agent, owner, since) ==
  [author |-> author, agent |-> agent, controller |-> owner, since |-> since]
MCStatements ==
  {Stating("owner", "owner", "owner", 1), Stating("thief", "owner", "owner", 1),
   Stating("neighbour", "neighbour", "owner", 1),
   Stating("neighbour", "neighbour", "neighbour", 1), Stating("registry", "registry", "owner", 2)}

Returned(content, isError, rest) == [content |-> content, isError |-> isError, rest |-> rest]
MCResults == {Returned("x", "absent", "r"), Returned("y", "true", "s")}

-----------------------------------------------------------------------------
(* One subject at a time *)

VARIABLE subject

\* The worlds that stand do so in one of their initial states.
VerifiersInit ==
  /\ subject \in {"keyless", "log", "artifact", "status", "seam", "context", "shape", "tool", "encoding"}
  /\ KeylessInit /\ LogInit /\ ArtifactInit /\ StatusInit /\ SeamInit /\ ContextInit
  /\ ShapeInit /\ ToolInit /\ EncodingInit
  /\ subject # "keyless" => Len(controller.services) = 1
  /\ subject # "shape" => kind = "body"

VerifiersNext ==
  \/ /\ subject = "keyless" /\ KeylessNext
     /\ UNCHANGED <<subject, logVars, artifactVars, statusVars, seamVars, contextVars, shapeVars, toolVars, encodingVars>>
  \/ /\ subject = "log" /\ LogNext
     /\ UNCHANGED <<subject, keylessVars, artifactVars, statusVars, seamVars, contextVars, shapeVars, toolVars, encodingVars>>
  \/ /\ subject = "artifact" /\ ArtifactNext
     /\ UNCHANGED <<subject, keylessVars, logVars, statusVars, seamVars, contextVars, shapeVars, toolVars, encodingVars>>
  \/ /\ subject = "status" /\ StatusNext
     /\ UNCHANGED <<subject, keylessVars, logVars, artifactVars, seamVars, contextVars, shapeVars, toolVars, encodingVars>>
  \/ /\ subject = "seam" /\ SeamNext
     /\ UNCHANGED <<subject, keylessVars, logVars, artifactVars, statusVars, contextVars, shapeVars, toolVars, encodingVars>>
  \/ /\ subject = "context" /\ ContextNext
     /\ UNCHANGED <<subject, keylessVars, logVars, artifactVars, statusVars, seamVars, shapeVars, toolVars, encodingVars>>
  \/ /\ subject = "shape" /\ EditShape
     /\ UNCHANGED <<subject, keylessVars, logVars, artifactVars, statusVars, seamVars, contextVars, toolVars, encodingVars>>
  \/ /\ subject = "tool" /\ ToolNext
     /\ UNCHANGED <<subject, keylessVars, logVars, artifactVars, statusVars, seamVars, contextVars, shapeVars, encodingVars>>
  \/ /\ subject = "encoding" /\ EncodingNext
     /\ UNCHANGED <<subject, keylessVars, logVars, artifactVars, statusVars, seamVars, contextVars, shapeVars, toolVars>>

VerifiersSpec ==
  VerifiersInit /\ [][VerifiersNext]_<<subject, keylessVars, logVars, artifactVars, statusVars,
                                       seamVars, contextVars, shapeVars, toolVars, encodingVars>>
=============================================================================
