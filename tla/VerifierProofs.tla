--------------------------- MODULE VerifierProofs ---------------------------
(***************************************************************************)
(* Proofs about the offline verifiers, for whatever may be published and   *)
(* served: tool results, signed contexts with their receipts, keyless      *)
(* identities, artifacts and their status, sealed records, and the shapes  *)
(* of what is sent.                                                        *)
(***************************************************************************)
EXTENDS KeylessNode, ArtifactHolder, ArtifactStatus, SignedContext, ToolResult,
        SeamDecision, WireShapes, FixedOrderProofs, SequenceTheorems, FiniteSetTheorems

-----------------------------------------------------------------------------
(* Tool results *)

\* Every tool result of a trusted proxy is the record of a call it forwarded.
ToolInv ==
  /\ calls \subseteq Calls
  /\ \A body \in bodies : body = Body(body.agent, body.record, body.type, body.ctx)
  /\ \A body \in bodies :
       body.agent \in TrustedProxies /\ body.type = "tool-result" =>
         \E call \in calls : body.record = RecordOf(call)

LEMMA InitTool == ToolInit => ToolInv
  BY DEF ToolInit, ToolInv

LEMMA NextTool == ToolInv /\ [ToolNext]_toolVars => ToolInv'
<1>1. SUFFICES ASSUME ToolInv, [ToolNext]_toolVars PROVE ToolInv'
  OBVIOUS
<1>2. ASSUME NEW agent \in Publishers, NEW call \in Calls, Forward(agent, call) PROVE ToolInv'
  <2>. DEFINE new == Body(agent, RecordOf(call), "tool-result", Cardinality(bodies) + 1)
  <2>1. /\ bodies' = bodies \cup {new}
        /\ calls' = IF agent \in TrustedProxies THEN calls \cup {call} ELSE calls
    BY <1>2 DEF Forward, Publishes
  <2>2. /\ new.agent = agent /\ new.record = RecordOf(call)
        /\ new = Body(new.agent, new.record, new.type, new.ctx)
    BY DEF Body
  <2>3. calls \subseteq calls' /\ calls' \subseteq Calls
    BY <1>1, <2>1 DEF ToolInv
  <2>4. agent \in TrustedProxies => call \in calls'
    BY <2>1
  <2>. HIDE DEF new
  <2>. QED
    BY <1>1, <2>1, <2>2, <2>3, <2>4 DEF ToolInv
<1>3. ASSUME NEW agent \in Publishers, NEW call \in Calls, PublishOther(agent, call) PROVE ToolInv'
  <2>. DEFINE new == Body(agent, RecordOf(call), "other", Cardinality(bodies) + 1)
  <2>1. bodies' = bodies \cup {new} /\ calls' = calls
    BY <1>3 DEF PublishOther, Publishes
  <2>2. new.type = "other" /\ new = Body(new.agent, new.record, new.type, new.ctx)
    BY DEF Body
  <2>. HIDE DEF new
  <2>. QED
    BY <1>1, <2>1, <2>2 DEF ToolInv
<1>4. ASSUME NEW body \in bodies, NEW ctx \in 1..MaxBodies, Relabel(body, ctx) PROVE ToolInv'
  <2>. DEFINE new == [body EXCEPT !.ctx = ctx]
  <2>1. bodies' = bodies \cup {new} /\ calls' = calls
    BY <1>4 DEF Relabel, Publishes
  <2>2. /\ new.agent = body.agent /\ new.record = body.record /\ new.type = body.type
        /\ new = Body(new.agent, new.record, new.type, new.ctx)
    <3>1. body = Body(body.agent, body.record, body.type, body.ctx)
      BY <1>1 DEF ToolInv
    <3>2. new = Body(body.agent, body.record, body.type, ctx)
      BY <3>1 DEF Body
    <3>. HIDE DEF new
    <3>. QED
      BY <3>2 DEF Body
  <2>. HIDE DEF new
  <2>. QED
    BY <1>1, <2>1, <2>2 DEF ToolInv
<1>5. CASE UNCHANGED toolVars
  BY <1>1, <1>5 DEF ToolInv, toolVars
<1>. QED
  BY <1>1, <1>2, <1>3, <1>4, <1>5 DEF ToolNext

LEMMA RecordFields ==
  ASSUME NEW call
  PROVE  /\ RecordOf(call).tool = call.tool
         /\ RecordOf(call).arguments = CallHash(call.arguments, call.salt)
         /\ RecordOf(call).result = CallHash(HashedResult(call.result), call.salt)
         /\ call.request = NotGiven => RecordOf(call).request = NoHash
         /\ call.request # NotGiven => RecordOf(call).request = CallHash(call.request, call.salt)
         /\ RecordOf(call).is_error = IsError(call.result)
         /\ RecordOf(call).salted = (call.salt # "")
<1>1. RecordOf(call).tool = call.tool
  BY DEF RecordOf
<1>2. RecordOf(call).arguments = CallHash(call.arguments, call.salt)
  BY DEF RecordOf
<1>3. RecordOf(call).result = CallHash(HashedResult(call.result), call.salt)
  BY DEF RecordOf
<1>4. call.request = NotGiven => RecordOf(call).request = NoHash
  BY DEF RecordOf
<1>5. call.request # NotGiven => RecordOf(call).request = CallHash(call.request, call.salt)
  BY DEF RecordOf
<1>6. RecordOf(call).is_error = IsError(call.result)
  BY DEF RecordOf, IsError
<1>7. RecordOf(call).salted = (call.salt # "")
  BY DEF RecordOf
<1>. QED
  BY <1>1, <1>2, <1>3, <1>4, <1>5, <1>6, <1>7

\* A salted hash tells salts and values apart.
LEMMA HashIsOpaque ==
  \A v, w, s, t : CallHash(v, s) = CallHash(w, t) => v = w /\ s = t
  BY DEF CallHash

\* What the holder of a tool result accepts is the result of one call that a trusted
\* proxy forwarded, for any tools, results, salts and publishers, and it accepts every
\* result with its own link.
THEOREM ProvenanceHolds == ToolSpec => []ProvenanceIsExact
<1>1. ToolInv => ProvenanceIsExact
  <2>1. SUFFICES ASSUME ToolInv PROVE ProvenanceIsExact
    OBVIOUS
  <2>2. ASSUME NEW body \in bodies, NEW link \in Links, NEW result \in Results, NEW tool \in Tools,
               NEW arguments \in Arguments \cup {NotGiven}, NEW id \in RequestIds \cup {NotGiven},
               VerifyToolResult(body, link, result, tool, [arguments |-> arguments, id |-> id])
        PROVE  \E call \in calls :
                 /\ call.tool = tool /\ HashedResult(call.result) = HashedResult(result)
                 /\ arguments \in {call.arguments, NotGiven}
                 /\ id = NotGiven \/ call.request \in {id, NotGiven}
    <3>1. /\ Recognised(body) /\ SameResult(body.record, link, result, tool)
          /\ arguments # NotGiven => body.record.arguments = CallHash(arguments, SaltOf(link))
          /\ id # NotGiven /\ body.record.request # NoHash =>
               body.record.request = CallHash(id, SaltOf(link))
      BY <2>2 DEF VerifyToolResult, SameRequest
    <3>2. PICK call \in calls : body.record = RecordOf(call)
      BY <2>1, <3>1 DEF ToolInv, Recognised
    <3>3. /\ body.record.tool = call.tool
          /\ body.record.arguments = CallHash(call.arguments, call.salt)
          /\ body.record.result = CallHash(HashedResult(call.result), call.salt)
          /\ body.record.request = IF call.request = NotGiven THEN NoHash
                                   ELSE CallHash(call.request, call.salt)
      BY <3>2, RecordFields
    <3>4. call.tool = tool /\ HashedResult(call.result) = HashedResult(result)
      <4>1. /\ body.record.tool = tool
            /\ body.record.result = CallHash(HashedResult(result), SaltOf(link))
        BY <3>1 DEF SameResult
      <4>2. CallHash(HashedResult(call.result), call.salt) = CallHash(HashedResult(result), SaltOf(link))
        BY <3>3, <4>1
      <4>. QED
        BY <3>3, <4>1, <4>2, HashIsOpaque
    <3>5. arguments \in {call.arguments, NotGiven}
      BY <3>1, <3>3, HashIsOpaque
    <3>6. call.request # NotGiven => body.record.request # NoHash
      BY <3>3, HashIsOpaque DEF NoHash
    <3>7. id = NotGiven \/ call.request \in {id, NotGiven}
      BY <3>1, <3>3, <3>6, HashIsOpaque
    <3>. QED
      BY <3>4, <3>5, <3>7
  <2>3. ASSUME NEW body \in bodies, NEW call \in calls, Recognised(body), body.record = RecordOf(call)
        PROVE  VerifyToolResult(body, LinkOf(body, call.salt), call.result, call.tool,
                                [arguments |-> call.arguments, id |-> call.request])
    <3>. DEFINE link == LinkOf(body, call.salt)
    <3>1. call.salt \in Salts /\ call.salt # NotGiven
      BY <2>1, SaltsAssumption DEF ToolInv, Calls, NotGiven
    <3>2. /\ link.ctx = body.ctx /\ link.of = body.record
          /\ link.salt = IF call.salt = "" THEN NotGiven ELSE call.salt
      BY DEF LinkOf
    <3>3. SaltOf(link) = call.salt
      BY <3>1, <3>2 DEF SaltOf
    <3>4. /\ body.record.tool = call.tool /\ body.record.is_error = IsError(call.result)
          /\ body.record.arguments = CallHash(call.arguments, call.salt)
          /\ body.record.result = CallHash(HashedResult(call.result), call.salt)
          /\ body.record.request = IF call.request = NotGiven THEN NoHash
                                   ELSE CallHash(call.request, call.salt)
          /\ body.record.salted = (call.salt # "")
      BY <2>3, RecordFields
    <3>. HIDE DEF link
    <3>5. SaltFits(link, body.record)
      BY <3>1, <3>2, <3>4 DEF SaltFits, NotGiven
    <3>6. LinkNames(link, body) /\ SameResult(body.record, link, call.result, call.tool)
      BY <3>2, <3>3, <3>4 DEF LinkNames, SameResult
    <3>7. SameRequest(body.record, link, [arguments |-> call.arguments, id |-> call.request])
      BY <3>3, <3>4 DEF SameRequest
    <3>. QED
      BY <2>3, <3>5, <3>6, <3>7 DEF VerifyToolResult, link
  <2>. QED
    BY <2>2, <2>3 DEF ProvenanceIsExact
<1>. QED
  BY <1>1, InitTool, NextTool, PTL DEF ToolSpec

-----------------------------------------------------------------------------
(* Signed contexts *)

OwnersKeys == {1, 2}
RegistrysKeys == {3, 4}
KeysOf(agent) == IF agent = "owner" THEN OwnersKeys ELSE {NeighboursKey}

DocumentsInv ==
  /\ owners \in [current : OwnersKeys, methods : SUBSET OwnersKeys]
  /\ registrys \in [current : RegistrysKeys, methods : SUBSET RegistrysKeys]

\* What is published was signed with a key of its agent, and comes in the order of time.
PublishedInv ==
  /\ hour \in Nat
  /\ published \in Seq([content : Contents, lineage : Nat, at : Nat,
                        key : OwnersKeys \cup {NeighboursKey}, issuedWith : RegistrysKeys])
  /\ \A i \in DOMAIN published : published[i].at <= hour

\* A head receipt names what was the newest version when it was issued.
HeadsInv ==
  \A h \in heads :
    /\ h.by = "registry" /\ h.status = "active" /\ h.asOf \in Nat /\ h.asOf <= hour
    /\ \E k \in Versions(h.lineage) :
         /\ h.head = Ctx(k) /\ published[k].at <= h.asOf
         /\ \A i \in Versions(h.lineage) : published[i].at < h.asOf => i <= k

\* Those who may revoke the owner's key did not sign with it.
StatementsInv ==
  \A s \in statements :
    /\ s.author \in {"owner", "thief", "neighbour", "registry"}
    /\ s.agent \in Producers \cup {"registry"} /\ s.controller \in Producers /\ s.since \in Nat
    /\ s.author \in {"owner", "registry"} => s.agent = s.author /\ s.controller = "owner"
    /\ s.signer \in CASE s.author = "owner" -> {2} [] s.author = "thief" -> {StolenKey}
                      [] s.author = "registry" -> RegistrysKeys [] OTHER -> {NeighboursKey}

ContextInv == DocumentsInv /\ PublishedInv /\ HeadsInv /\ StatementsInv

LEMMA InitContext == ContextInit => ContextInv
<1>1. SUFFICES ASSUME ContextInit PROVE ContextInv
  OBVIOUS
<1>2. /\ hour = 1 /\ published = <<>> /\ heads = {} /\ statements = {}
      /\ owners = [current |-> 1, methods |-> {1}] /\ registrys = [current |-> 3, methods |-> {3}]
  BY <1>1 DEF ContextInit, StolenKey
<1>3. DocumentsInv
  BY <1>2 DEF DocumentsInv, OwnersKeys, RegistrysKeys
<1>4. PublishedInv
  BY <1>2 DEF PublishedInv
<1>. QED
  BY <1>2, <1>3, <1>4 DEF ContextInv, HeadsInv, StatementsInv

\* The keys under which each of them signs now.
LEMMA CurrentKeys ==
  ASSUME DocumentsInv
  PROVE  /\ CurrentOf("owner") = owners.current /\ CurrentOf("registry") = registrys.current
         /\ CurrentOf("neighbour") = NeighboursKey
         /\ MethodsOf("owner") \subseteq OwnersKeys /\ MethodsOf("registry") \subseteq RegistrysKeys
         /\ MethodsOf("neighbour") = {NeighboursKey} /\ MethodsOf("relay") = {RelaysKey}
         /\ owners.current \in OwnersKeys /\ registrys.current \in RegistrysKeys
  BY DEF DocumentsInv, CurrentOf, MethodsOf

LEMMA DocumentsStep ==
  ASSUME ContextInv, [ContextNext]_contextVars
  PROVE  DocumentsInv'
<1>1. DocumentsInv
  BY DEF ContextInv
<1>2. CASE UNCHANGED <<owners, registrys>>
  BY <1>1, <1>2 DEF DocumentsInv
<1>3. CASE OwnerRotates
  <2>1. owners.current = 1 /\ owners' = [current |-> 2, methods |-> {2} \cup owners.methods] /\ registrys' = registrys
    BY <1>3 DEF OwnerRotates, NextKey, StolenKey
  <2>. QED
    BY <1>1, <2>1 DEF DocumentsInv, OwnersKeys
<1>4. ASSUME NEW keeps \in BOOLEAN, RegistryRotatesTo(keeps) PROVE DocumentsInv'
  <2>1. /\ registrys.current = 3 /\ owners' = owners
        /\ registrys' = [current |-> 4, methods |-> {4} \cup IF keeps THEN registrys.methods ELSE {}]
    BY <1>4 DEF RegistryRotatesTo, NextKey
  <2>. QED
    BY <1>1, <2>1 DEF DocumentsInv, RegistrysKeys
<1>5. /\ HourPasses => UNCHANGED <<owners, registrys>>
      /\ \A c, l : PublishContent(c, l) => UNCHANGED <<owners, registrys>>
      /\ \A l : IssueHead(l) => UNCHANGED <<owners, registrys>>
      /\ \A s : Revoke(s) => UNCHANGED <<owners, registrys>>
      /\ UNCHANGED contextVars => UNCHANGED <<owners, registrys>>
  BY DEF HourPasses, PublishContent, IssueHead, Revoke, contextVars
<1>. QED
  BY <1>2, <1>3, <1>4, <1>5 DEF ContextNext

\* Publishing adds to the end.
LEMMA PublishStep ==
  ASSUME ContextInv, NEW content \in Contents, NEW lineage \in 1..MaxPublished,
         PublishContent(content, lineage)
  PROVE  PublishedInv' /\ HeadsInv'
<1>. DEFINE new == [content |-> content, lineage |-> lineage, at |-> hour,
                    key |-> CurrentOf(content.agent), issuedWith |-> registrys.current]
            Publication == [content : Contents, lineage : Nat, at : Nat,
                        key : OwnersKeys \cup {NeighboursKey}, issuedWith : RegistrysKeys]
<1>1. DocumentsInv /\ PublishedInv /\ HeadsInv
  BY DEF ContextInv
<1>2. published' = Append(published, new) /\ UNCHANGED <<hour, heads>>
  BY DEF PublishContent
<1>3. content.agent \in Producers
  BY ContentsAssumption
<1>4. new \in Publication
  BY <1>1, <1>3, CurrentKeys DEF PublishedInv, Producers
<1>5. published \in Seq(Publication) /\ hour \in Nat
  BY <1>1 DEF PublishedInv
<1>6. new.at = hour /\ new.lineage = lineage
  OBVIOUS
<1>. HIDE DEF Publication, new
<1>7. /\ published' \in Seq(Publication) /\ Len(published') = Len(published) + 1 /\ Len(published) \in Nat
      /\ DOMAIN published = 1..Len(published) /\ DOMAIN published' = 1..(Len(published) + 1)
      /\ published'[Len(published) + 1] = new
      /\ \A i \in DOMAIN published : published'[i] = published[i]
  BY <1>2, <1>4, <1>5
<1>8. \A i \in DOMAIN published' : i \in DOMAIN published \/ (i = Len(published) + 1 /\ published'[i] = new)
  BY <1>7
<1>9. PublishedInv'
  <2>1. \A i \in DOMAIN published' : published'[i].at <= hour
    BY <1>1, <1>5, <1>6, <1>7, <1>8 DEF PublishedInv
  <2>. QED
    BY <1>2, <1>5, <1>7, <2>1 DEF PublishedInv, Publication
<1>10. HeadsInv'
  <2>1. SUFFICES ASSUME NEW h \in heads
                 PROVE  /\ h.by = "registry" /\ h.status = "active" /\ h.asOf \in Nat /\ h.asOf <= hour
                        /\ \E k \in Versions(h.lineage)' :
                             /\ h.head = Ctx(k) /\ published'[k].at <= h.asOf
                             /\ \A i \in Versions(h.lineage)' : published'[i].at < h.asOf => i <= k
    BY <1>2 DEF HeadsInv, Ctx
  <2>2. PICK k \in Versions(h.lineage) :
          /\ h.head = Ctx(k) /\ published[k].at <= h.asOf
          /\ \A i \in Versions(h.lineage) : published[i].at < h.asOf => i <= k
    BY <1>1 DEF HeadsInv
  <2>3. h.by = "registry" /\ h.status = "active" /\ h.asOf \in Nat /\ h.asOf <= hour
    BY <1>1 DEF HeadsInv
  <2>4. k \in DOMAIN published /\ k \in Versions(h.lineage)'
    BY <1>7, <2>2 DEF Versions
  <2>5. ASSUME NEW i \in Versions(h.lineage)', published'[i].at < h.asOf PROVE i <= k
    <3>1. i \in DOMAIN published' /\ published'[i].lineage = h.lineage
      BY <2>5 DEF Versions
    <3>2. CASE i \in DOMAIN published
      BY <1>7, <2>2, <2>5, <3>1, <3>2 DEF Versions
    <3>3. CASE i = Len(published) + 1
      BY <1>5, <1>6, <1>7, <2>3, <2>5, <3>3
    <3>. QED
      BY <1>8, <3>1, <3>2, <3>3
  <2>. QED
    BY <1>7, <2>2, <2>3, <2>4, <2>5
<1>. QED
  BY <1>9, <1>10

\* A head receipt is issued for the newest version.
LEMMA HeadStep ==
  ASSUME ContextInv, NEW lineage, IssueHead(lineage)
  PROVE  HeadsInv'
<1>. DEFINE i == Newest(lineage)
<1>1. PublishedInv /\ HeadsInv
  BY DEF ContextInv
<1>2. UNCHANGED <<hour, published>> /\ Versions(lineage) # {}
  BY DEF IssueHead
<1>3. \A l : Versions(l)' = Versions(l)
  BY <1>2 DEF Versions
<1>4. i \in Versions(lineage) /\ \A j \in Versions(lineage) : j <= i
  <2>1. Versions(lineage) \subseteq 1..Len(published) /\ Len(published) \in Nat
    BY <1>1 DEF Versions, PublishedInv
  <2>. DEFINE later == {Len(published) - v : v \in Versions(lineage)}
  <2>2. later \in SUBSET Nat /\ later # {}
    BY <1>2, <2>1
  <2>3. PICK m \in later : \A n \in later : m <= n
    <3>. HIDE DEF later
    <3>. QED
      BY <2>2, LeastNumber
  <2>4. PICK v \in Versions(lineage) : m = Len(published) - v
    BY <2>3
  <2>5. \A j \in Versions(lineage) : Len(published) - v <= Len(published) - j
    BY <2>3, <2>4
  <2>6. \A j \in Versions(lineage) : j <= v
    BY <2>1, <2>5
  <2>. QED
    BY <2>6 DEF Newest
<1>. DEFINE h == [by |-> "registry", under |-> "registry", key |-> registrys.current,
                  made |-> registrys.current, lineage |-> lineage, head |-> Ctx(i),
                  version |-> published[i].content.version, status |-> "active", asOf |-> hour]
<1>5. /\ heads' = heads \cup {h} /\ h.by = "registry" /\ h.lineage = lineage /\ h.head = Ctx(i)
      /\ h.status = "active" /\ h.asOf = hour
  BY DEF IssueHead
<1>. HIDE DEF i, h
<1>6. hour \in Nat /\ i \in DOMAIN published /\ published[i].at <= hour
  BY <1>1, <1>4 DEF PublishedInv, Versions
<1>7. ASSUME NEW g \in heads'
      PROVE  /\ g.by = "registry" /\ g.status = "active" /\ g.asOf \in Nat /\ g.asOf <= hour
             /\ \E k \in Versions(g.lineage) :
                  /\ g.head = Ctx(k) /\ published[k].at <= g.asOf
                  /\ \A j \in Versions(g.lineage) : published[j].at < g.asOf => j <= k
  <2>1. CASE g \in heads
    BY <1>1, <2>1 DEF HeadsInv
  <2>2. CASE g = h
    BY <1>4, <1>5, <1>6, <2>2
  <2>. QED
    BY <1>5, <2>1, <2>2
<1>. QED
  BY <1>2, <1>3, <1>7 DEF HeadsInv, Ctx, Versions

\* Whoever revokes the key signs with a key of its own.
LEMMA RevokeStep ==
  ASSUME ContextInv, NEW s \in Statements, Revoke(s)
  PROVE  StatementsInv'
<1>. DEFINE new == [author |-> s.author, agent |-> s.agent, controller |-> s.controller,
                    since |-> s.since,
                    signer |-> IF s.author = "thief" THEN StolenKey ELSE CurrentOf(s.author)]
<1>1. DocumentsInv /\ StatementsInv
  BY DEF ContextInv
<1>2. statements' = statements \cup {new} /\ (s.author = "owner" => owners.current # StolenKey)
  BY DEF Revoke
<1>3. /\ s.author \in {"owner", "thief", "neighbour", "registry"}
      /\ s.agent \in Producers \cup {"registry"} /\ s.controller \in Producers /\ s.since \in Nat
      /\ s.author \in {"owner", "registry"} => s.agent = s.author /\ s.controller = "owner"
  BY StatementsAssumption, GoodFaithAssumption
<1>4. new.signer \in CASE s.author = "owner" -> {2} [] s.author = "thief" -> {StolenKey}
                       [] s.author = "registry" -> RegistrysKeys [] OTHER -> {NeighboursKey}
  BY <1>1, <1>2, <1>3, CurrentKeys DEF OwnersKeys, StolenKey
<1>5. /\ new.author = s.author /\ new.agent = s.agent /\ new.controller = s.controller
      /\ new.since = s.since
  OBVIOUS
<1>. HIDE DEF new
<1>. QED
  BY <1>1, <1>2, <1>3, <1>4, <1>5 DEF StatementsInv

LEMMA NextContext == ContextInv /\ [ContextNext]_contextVars => ContextInv'
<1>1. SUFFICES ASSUME ContextInv, [ContextNext]_contextVars PROVE ContextInv'
  OBVIOUS
<1>2. DocumentsInv'
  BY <1>1, DocumentsStep
<1>3. CASE UNCHANGED <<published, heads, statements>> /\ (hour' = hour \/ hour' = hour + 1)
  <2>1. PublishedInv /\ HeadsInv /\ StatementsInv /\ hour \in Nat
    BY <1>1 DEF ContextInv, PublishedInv
  <2>2. hour' \in Nat /\ hour <= hour'
    BY <1>3, <2>1
  <2>3. \A n \in Nat : n <= hour => n <= hour'
    BY <2>1, <2>2
  <2>4. PublishedInv'
    <3>1. \A i \in DOMAIN published : published[i].at \in Nat
      <4>. DEFINE Publication == [content : Contents, lineage : Nat, at : Nat,
                            key : OwnersKeys \cup {NeighboursKey}, issuedWith : RegistrysKeys]
      <4>1. published \in Seq(Publication)
        BY <2>1 DEF PublishedInv
      <4>. HIDE DEF Publication
      <4>2. \A i \in DOMAIN published : published[i] \in Publication
        BY <4>1
      <4>. QED
        BY <4>2 DEF Publication
    <3>. QED
      BY <1>3, <2>1, <2>2, <2>3, <3>1 DEF PublishedInv
  <2>5. HeadsInv'
    BY <1>3, <2>1, <2>3 DEF HeadsInv, Versions, Ctx
  <2>6. StatementsInv'
    BY <1>3, <2>1 DEF StatementsInv
  <2>. QED
    BY <1>2, <2>4, <2>5, <2>6 DEF ContextInv
<1>4. ASSUME NEW content \in Contents, NEW lineage \in 1..MaxPublished, PublishContent(content, lineage)
      PROVE  ContextInv'
  <2>1. statements' = statements
    BY <1>4 DEF PublishContent
  <2>2. StatementsInv'
    BY <1>1, <2>1 DEF ContextInv, StatementsInv
  <2>. QED
    BY <1>1, <1>2, <1>4, <2>2, PublishStep DEF ContextInv
<1>5. ASSUME NEW lineage \in 1..MaxPublished, IssueHead(lineage) PROVE ContextInv'
  <2>1. UNCHANGED <<hour, published, statements>>
    BY <1>5 DEF IssueHead
  <2>2. PublishedInv' /\ StatementsInv'
    BY <1>1, <2>1 DEF ContextInv, PublishedInv, StatementsInv
  <2>. QED
    BY <1>1, <1>2, <1>5, <2>2, HeadStep DEF ContextInv
<1>6. ASSUME NEW s \in Statements, Revoke(s) PROVE ContextInv'
  <2>1. UNCHANGED <<hour, published, heads>>
    BY <1>6 DEF Revoke
  <2>2. PublishedInv' /\ HeadsInv'
    BY <1>1, <2>1 DEF ContextInv, PublishedInv, HeadsInv, Versions, Ctx
  <2>. QED
    BY <1>1, <1>2, <1>6, <2>2, RevokeStep DEF ContextInv
<1>7. HourPasses \/ OwnerRotates \/ (\E keeps \in BOOLEAN : RegistryRotatesTo(keeps))
        \/ UNCHANGED contextVars
        => UNCHANGED <<published, heads, statements>> /\ (hour' = hour \/ hour' = hour + 1)
  BY DEF HourPasses, OwnerRotates, RegistryRotatesTo, contextVars
<1>. QED
  BY <1>1, <1>3, <1>4, <1>5, <1>6, <1>7 DEF ContextNext

\* What the verification of a body, of its receipt and of a head receipt establish.
LEMMA BodyVerified ==
  ASSUME NEW body, Verified(body)
  PROVE  /\ body.claimed = body.content /\ body.names.did = body.content.agent
         /\ body.names.key \in MethodsOf(body.names.did)
         /\ body.made.key = body.names.key /\ body.made.over = body.content
<1>. DEFINE steps == <<
       Step("schema_violation", body.origin = body.ctx.authority),
       Step("hash_mismatch", body.claimed = body.content),
       Step("key_not_authorized", BoundToAgent(body)),
       Step("key_resolution_failed", body.names.key \in MethodsOf(body.names.did)),
       Step("key_not_authorized",
            TRUE \/ body.names.key = CurrentOf(body.names.did)),
       Step("invalid_signature",
            body.made.key = body.names.key /\ body.made.over = body.content)>>
<1>1. DOMAIN steps = 1..6 /\ \A i \in 1..6 : steps[i].reason # Passed
  <2>1. DOMAIN steps = 1..6
    OBVIOUS
  <2>2. /\ steps[1].reason # Passed /\ steps[2].reason # Passed /\ steps[3].reason # Passed
        /\ steps[4].reason # Passed /\ steps[5].reason # Passed /\ steps[6].reason # Passed
    BY DEF Step, Passed
  <2>3. \A i \in 1..6 : i = 1 \/ i = 2 \/ i = 3 \/ i = 4 \/ i = 5 \/ i = 6
    OBVIOUS
  <2>. HIDE DEF steps
  <2>. QED
    BY <2>1, <2>2, <2>3
<1>2. FirstFailure(steps) = Passed
  BY DEF Verified, VerifyContextBody
<1>3. \A i \in 1..6 : steps[i].holds
  <2>. HIDE DEF steps
  <2>. QED
    BY <1>1, <1>2, PassedMeansAll
<1>4. steps[2].holds /\ steps[3].holds /\ steps[4].holds /\ steps[6].holds
  <2>. HIDE DEF steps
  <2>. QED
    BY <1>3
<1>. QED
  BY <1>4 DEF Step, BoundToAgent

LEMMA ReceiptVerifiedMeans ==
  ASSUME NEW body, NEW r, Receipted(body, r)
  PROVE  /\ EnvelopeVerified(r) /\ r.by = "registry" /\ r.ctx = body.ctx /\ r.lineage = body.lineage
         /\ r.at = body.at /\ r.content = body.content /\ r.fingerprint = body.names.key
<1>. DEFINE steps == <<
       Step("invalid_receipt", EnvelopeVerified(r)),
       Step("invalid_receipt", OfServing(r, "registry")),
       Step("invalid_receipt", r.origin = r.ctx.authority /\ r.origin = r.by),
       Step("invalid_receipt", BindsContext(r, body, body.ctx)),
       Step("invalid_receipt", r.content = body.content),
       Step("invalid_receipt", r.fingerprint = body.names.key)>>
<1>1. DOMAIN steps = 1..6 /\ \A i \in 1..6 : steps[i].reason # Passed
  <2>1. DOMAIN steps = 1..6
    OBVIOUS
  <2>2. /\ steps[1].reason # Passed /\ steps[2].reason # Passed /\ steps[3].reason # Passed
        /\ steps[4].reason # Passed /\ steps[5].reason # Passed /\ steps[6].reason # Passed
    BY DEF Step, Passed
  <2>3. \A i \in 1..6 : i = 1 \/ i = 2 \/ i = 3 \/ i = 4 \/ i = 5 \/ i = 6
    OBVIOUS
  <2>. HIDE DEF steps
  <2>. QED
    BY <2>1, <2>2, <2>3
<1>2. FirstFailure(steps) = Passed
  BY DEF Receipted, VerifyReceipt
<1>3. \A i \in 1..6 : steps[i].holds
  <2>. HIDE DEF steps
  <2>. QED
    BY <1>1, <1>2, PassedMeansAll
<1>4. /\ steps[1].holds /\ steps[2].holds /\ steps[4].holds /\ steps[5].holds /\ steps[6].holds
  <2>. HIDE DEF steps
  <2>. QED
    BY <1>3
<1>. QED
  BY <1>4 DEF Step, OfServing, BindsContext

LEMMA HeadVerifiedMeans ==
  ASSUME NEW h, NEW body, NEW state, NEW lineage,
         VerifyHeadReceipt(h, body, state, "registry", lineage) = Passed
  PROVE  /\ EnvelopeVerified(h) /\ h.by = "registry" /\ h.lineage = lineage
         /\ BindsHead(h, body, state)
<1>. DEFINE steps == <<
       Step("invalid_receipt", h.status \notin {"superseded", "retracted"}),
       Step("invalid_receipt", EnvelopeVerified(h)),
       Step("invalid_receipt", OfServing(h, "registry") /\ h.head.authority = h.by),
       Step("invalid_receipt", h.lineage = lineage),
       Step("invalid_receipt", BindsHead(h, body, state)),
       Step("invalid_receipt", h.asOf <= hour + Skew)>>
<1>1. DOMAIN steps = 1..6 /\ \A i \in 1..6 : steps[i].reason # Passed
  <2>1. DOMAIN steps = 1..6
    OBVIOUS
  <2>2. /\ steps[1].reason # Passed /\ steps[2].reason # Passed /\ steps[3].reason # Passed
        /\ steps[4].reason # Passed /\ steps[5].reason # Passed /\ steps[6].reason # Passed
    BY DEF Step, Passed
  <2>3. \A i \in 1..6 : i = 1 \/ i = 2 \/ i = 3 \/ i = 4 \/ i = 5 \/ i = 6
    OBVIOUS
  <2>. HIDE DEF steps
  <2>. QED
    BY <2>1, <2>2, <2>3
<1>2. FirstFailure(steps) = Passed
  BY DEF VerifyHeadReceipt
<1>3. \A i \in 1..6 : steps[i].holds
  <2>. HIDE DEF steps
  <2>. QED
    BY <1>1, <1>2, PassedMeansAll
<1>4. steps[2].holds /\ steps[3].holds /\ steps[4].holds /\ steps[5].holds
  <2>. HIDE DEF steps
  <2>. QED
    BY <1>3
<1>. QED
  BY <1>4 DEF Step, OfServing

\* Nothing that the relay signs is under a key of the registry.
LEMMA ForgeryFails ==
  ASSUME DocumentsInv, NEW r, r.made = RelaysKey, r.by = "registry"
  PROVE  ~EnvelopeVerified(r)
  BY CurrentKeys DEF EnvelopeVerified, RegistrysKeys, RelaysKey

LEMMA VerifiedIsPublished ==
  ASSUME ContextInv, NEW body \in ServedBodies, Verified(body),
         NEW r \in IssuedReceipts \cup ForgedReceipts(body), Receipted(body, r)
  PROVE  Published(body, r) /\ r \in IssuedReceipts
<1>1. DocumentsInv
  BY DEF ContextInv
<1>2. /\ EnvelopeVerified(r) /\ r.by = "registry" /\ r.ctx = body.ctx /\ r.lineage = body.lineage
      /\ r.at = body.at /\ r.content = body.content /\ r.fingerprint = body.names.key
  BY ReceiptVerifiedMeans
<1>3. r \notin ForgedReceipts(body)
  <2>1. \A x \in ForgedReceipts(body) : x.made = RelaysKey
    BY DEF ForgedReceipts
  <2>. QED
    BY <1>1, <1>2, <2>1, ForgeryFails
<1>4. PICK i \in DOMAIN published : r = ReceiptFor(i)
  BY <1>3 DEF IssuedReceipts
<1>5. /\ r.ctx = Ctx(i) /\ r.lineage = published[i].lineage /\ r.at = published[i].at
      /\ r.content = published[i].content /\ r.fingerprint = published[i].key
      /\ r.key = published[i].issuedWith
  BY <1>4 DEF ReceiptFor
<1>6. body.made.key = body.names.key
  BY BodyVerified
<1>. QED
  BY <1>2, <1>3, <1>5, <1>6 DEF Published

LEMMA VerifiedWasHead ==
  ASSUME ContextInv, NEW body, NEW h \in heads \cup ForgedHeads(body),
         NEW state \in {"active", "superseded"},
         VerifyHeadReceipt(h, body, state, "registry", body.lineage) = Passed
  PROVE  WasHead(body, h, state)
<1>1. DocumentsInv /\ HeadsInv
  BY DEF ContextInv
<1>2. /\ EnvelopeVerified(h) /\ h.by = "registry" /\ h.lineage = body.lineage
      /\ BindsHead(h, body, state)
  BY HeadVerifiedMeans
<1>3. h \in heads
  <2>1. \A x \in ForgedHeads(body) : x.made = RelaysKey
    BY DEF ForgedHeads
  <2>. QED
    BY <1>1, <1>2, <2>1, ForgeryFails
<1>4. PICK k \in Versions(body.lineage) :
        /\ h.head = Ctx(k) /\ published[k].at <= h.asOf
        /\ \A i \in Versions(body.lineage) : published[i].at < h.asOf => i <= k
  BY <1>1, <1>2, <1>3 DEF HeadsInv
<1>5. h.head.id = k /\ h.status = "active"
  BY <1>1, <1>3, <1>4 DEF Ctx, HeadsInv
<1>6. state = "active" <=> h.head = body.ctx
  BY <1>2, <1>5 DEF BindsHead
<1>. QED
  BY <1>4, <1>5, <1>6 DEF WasHead

\* Whatever a relay recombines of what anybody signed, only what the registry accepted
\* verifies, in its own place and at its own time, and as the head only if it was.
THEOREM OnlyPublishedPasses == ContextSpec => []OnlyPublishedVerifies
<1>1. ContextInv => OnlyPublishedVerifies
  <2>1. SUFFICES ASSUME ContextInv, NEW body \in ServedBodies, Verified(body)
                 PROVE  /\ SignedByItsAgent(body)
                        /\ \A r \in IssuedReceipts \cup ForgedReceipts(body) : Receipted(body, r) =>
                             /\ Published(body, r)
                             /\ \A h \in heads \cup ForgedHeads(body),
                                   state \in {"active", "superseded"} :
                                  VerifyHeadReceipt(h, body, state, "registry", body.lineage) = Passed
                                    => WasHead(body, h, state)
    BY DEF OnlyPublishedVerifies
  <2>2. SignedByItsAgent(body)
    <3>1. body.made.key \in MethodsOf(body.content.agent) /\ body.content.agent = body.names.did
      BY <2>1, BodyVerified
    <3>2. body.names.did \in Producers
      BY <2>1 DEF ServedBodies
    <3>. QED
      BY <2>1, <3>1, <3>2, CurrentKeys DEF SignedByItsAgent, ContextInv, Producers, OwnersKeys
  <2>. QED
    BY <2>1, <2>2, VerifiedIsPublished, VerifiedWasHead
<1>. QED
  BY <1>1, InitContext, NextContext, PTL DEF ContextSpec

\* The boundary of a stolen key is where its owner and the registry put it: the thief and
\* whoever does not speak for the producer can neither set it nor move it.
THEOREM BoundaryIsTheOwners == ContextSpec => []OwnerSetsTheBoundary
<1>1. ContextInv => OwnerSetsTheBoundary
  <2>1. SUFFICES ASSUME ContextInv,
                        NEW body \in ServedBodies, body.made.key = StolenKey, Verified(body),
                        NEW r \in IssuedReceipts, Receipted(body, r), statements # {},
                        \A s \in statements :
                          s.author \in {"owner", "registry"} => s.signer = CurrentOf(s.author),
                        r.key = registrys.current,
                        NEW given, given = {s \in statements : s.author \in {"owner", "registry"}},
                        NEW class, class = ClassifyRevoked(r,
                          {s \in statements : Counts(s, body.content.agent)})
                 PROVE  /\ class = "not revoked" <=> given = {}
                        /\ class = "pre-compromise" <=> given # {} /\ \A s \in given : r.at < s.since
    BY DEF OwnerSetsTheBoundary
  <2>2. DocumentsInv /\ StatementsInv
    BY <2>1 DEF ContextInv
  <2>3. body.content.agent = "owner"
    <3>1. body.made.key \in MethodsOf(body.content.agent) /\ body.content.agent = body.names.did
      BY <2>1, BodyVerified
    <3>2. body.names.did \in Producers
      BY <2>1 DEF ServedBodies
    <3>. QED
      BY <2>1, <2>2, <3>1, <3>2, CurrentKeys DEF Producers, StolenKey, NeighboursKey
  <2>4. ASSUME NEW s \in statements PROVE Counts(s, "owner") <=> s \in given
    <3>1. /\ s.author \in {"owner", "thief", "neighbour", "registry"}
          /\ s.agent \in Producers \cup {"registry"} /\ s.controller \in Producers
          /\ s.author \in {"owner", "registry"} => s.agent = s.author /\ s.controller = "owner"
      BY <2>2 DEF StatementsInv
    <3>2. /\ s.author = "owner" => s.signer = 2
          /\ s.author = "thief" => s.signer = 1
          /\ s.author = "registry" => s.signer \in {3, 4}
          /\ s.author = "neighbour" => s.signer = 10
      BY <2>2, <3>1 DEF StatementsInv, StolenKey, RegistrysKeys, NeighboursKey
    <3>3. CASE s.author = "owner" \/ s.author = "registry"
      BY <2>1, <3>1, <3>2, <3>3 DEF Counts, NotSelfSigned, AppliesTo, StolenKey
    <3>4. CASE s.author = "thief"
      BY <2>1, <3>2, <3>4 DEF Counts, NotSelfSigned, StolenKey
    <3>5. CASE s.author = "neighbour"
      <4>1. s.agent = "owner" \/ s.agent = "registry" => s.signer # CurrentOf(s.agent)
        BY <2>2, <3>2, <3>5, CurrentKeys DEF OwnersKeys, RegistrysKeys
      <4>2. ~Counts(s, "owner")
        BY <3>1, <4>1 DEF Counts, AppliesTo, Producers
      <4>. QED
        BY <2>1, <3>5, <4>2
    <3>. QED
      BY <3>1, <3>3, <3>4, <3>5
  <2>5. {s \in statements : Counts(s, body.content.agent)} = given
    BY <2>1, <2>3, <2>4
  <2>6. r.by = "registry" /\ r.key = CurrentOf(r.by)
    BY <2>1, <2>2, ReceiptVerifiedMeans, CurrentKeys
  <2>. QED
    BY <2>1, <2>5, <2>6 DEF ClassifyRevoked
<1>. QED
  BY <1>1, InitContext, NextContext, PTL DEF ContextSpec

-----------------------------------------------------------------------------
(* Keyless identities: the first failure of the checks, and what it decides *)

\* The seven checks of a signature by an ephemeral key.
ChecksHold(claim, ev) ==
  /\ AttestationValid(claim.key, ev) /\ ev.accepts /\ claim.form # "misbound"
  /\ PlacedBy(claim, ev) /\ InWindow(claim) /\ claim.form # "forged" /\ ~claim.withdrawn

LEMMA ChecksSay ==
  ASSUME NEW claim, NEW ev
  PROVE  /\ FirstFailure(ChecksOf(claim, ev)) = Passed <=> ChecksHold(claim, ev)
         /\ FirstFailure(ChecksOf(claim, ev)) = "untrusted_attester"
              <=> AttestationValid(claim.key, ev) /\ ~ev.accepts
<1>. DEFINE steps == ChecksOf(claim, ev)
<1>1. DOMAIN steps = 1..7 /\ DOMAIN steps \in SUBSET Nat
  BY DEF ChecksOf
<1>2. /\ steps[1].holds <=> AttestationValid(claim.key, ev)
      /\ steps[2].holds <=> ev.accepts
      /\ steps[3].holds <=> claim.form # "misbound"
      /\ steps[4].holds <=> PlacedBy(claim, ev)
      /\ steps[5].holds <=> InWindow(claim)
      /\ steps[6].holds <=> claim.form # "forged"
      /\ steps[7].holds <=> ~claim.withdrawn
  BY DEF ChecksOf, Step
<1>3. /\ steps[1].reason = "attestation_invalid" /\ steps[2].reason = "untrusted_attester"
      /\ steps[3].reason = "attestation_mismatch" /\ steps[4].reason = "unplaceable"
      /\ steps[5].reason = "outside_attestation_window"
      /\ steps[6].reason = "invalid_signature" /\ steps[7].reason = "attestation_withdrawn"
  BY DEF ChecksOf, Step
<1>4. \A i \in 1..7 : i = 1 \/ i = 2 \/ i = 3 \/ i = 4 \/ i = 5 \/ i = 6 \/ i = 7
  OBVIOUS
<1>. HIDE DEF steps
<1>5. \A i \in DOMAIN steps : steps[i].reason # Passed
  BY <1>1, <1>3, <1>4 DEF Passed
<1>6. FirstFailure(steps) = Passed => ChecksHold(claim, ev)
  <2>1. SUFFICES ASSUME FirstFailure(steps) = Passed PROVE ChecksHold(claim, ev)
    OBVIOUS
  <2>2. \A i \in DOMAIN steps : steps[i].holds
    BY <1>1, <1>5, <2>1, PassedMeansAll
  <2>. QED
    BY <1>1, <1>2, <2>2 DEF ChecksHold
<1>7. ChecksHold(claim, ev) => FirstFailure(steps) = Passed
  <2>1. SUFFICES ASSUME ChecksHold(claim, ev) PROVE \A i \in DOMAIN steps : steps[i].holds
    BY AllMeansPassed
  <2>. QED
    BY <1>1, <1>2, <1>4, <2>1 DEF ChecksHold
<1>8. ASSUME AttestationValid(claim.key, ev), ~ev.accepts
      PROVE  FirstFailure(steps) = "untrusted_attester"
  <2>1. \A i \in DOMAIN steps : i < 2 => steps[i].holds
    BY <1>1, <1>2, <1>8
  <2>. QED
    BY <1>1, <1>2, <1>3, <1>8, <2>1, FirstToFail
<1>9. ASSUME FirstFailure(steps) = "untrusted_attester"
      PROVE  AttestationValid(claim.key, ev) /\ ~ev.accepts
  <2>1. ~steps[2].holds
    <3>1. PICK i \in DOMAIN steps : ~steps[i].holds /\ FirstFailure(steps) = steps[i].reason
      BY <1>1, <1>9, ReasonIsOfAStep DEF Passed
    <3>. QED
      BY <1>1, <1>3, <1>4, <1>9, <3>1
  <2>2. ASSUME ~steps[1].holds PROVE FALSE
    <3>1. \A i \in DOMAIN steps : i < 1 => steps[i].holds
      BY <1>1
    <3>2. FirstFailure(steps) = steps[1].reason
      BY <1>1, <2>2, <3>1, FirstToFail
    <3>. QED
      BY <1>3, <1>9, <3>2
  <2>. QED
    BY <1>2, <2>1, <2>2
<1>. QED
  BY <1>6, <1>7, <1>8, <1>9 DEF steps

LEMMA Appended ==
  ASSUME NEW a, NEW b, NEW c, NEW d, NEW e, NEW f, NEW g, NEW h, NEW i
  PROVE  <<a, b, c, d, e, f, g>> \o <<h, i>> = <<a, b, c, d, e, f, g, h, i>>
<1>. DEFINE S == {a, b, c, d, e, f, g, h, i}
            seven == <<a, b, c, d, e, f, g>>
            two == <<h, i>>
            nine == <<a, b, c, d, e, f, g, h, i>>
            joined == seven \o two
<1>1. /\ seven \in Seq(S) /\ two \in Seq(S) /\ nine \in Seq(S)
      /\ Len(seven) = 7 /\ Len(two) = 2 /\ Len(nine) = 9
  OBVIOUS
<1>2. /\ seven[1] = a /\ seven[2] = b /\ seven[3] = c /\ seven[4] = d /\ seven[5] = e
      /\ seven[6] = f /\ seven[7] = g /\ two[1] = h /\ two[2] = i
  OBVIOUS
<1>3. /\ nine[1] = a /\ nine[2] = b /\ nine[3] = c /\ nine[4] = d /\ nine[5] = e
      /\ nine[6] = f /\ nine[7] = g /\ nine[8] = h /\ nine[9] = i
  OBVIOUS
<1>. HIDE DEF S, seven, two, nine
<1>4. /\ joined \in Seq(S) /\ Len(joined) = 9
      /\ \A k \in 1..9 : joined[k] = IF k <= 7 THEN seven[k] ELSE two[k - 7]
  <2>1. /\ joined \in Seq(S) /\ Len(joined) = Len(seven) + Len(two)
        /\ \A k \in 1..(Len(seven) + Len(two)) :
             joined[k] = IF k <= Len(seven) THEN seven[k] ELSE two[k - Len(seven)]
    BY <1>1, ConcatProperties
  <2>. HIDE DEF joined
  <2>2. Len(seven) + Len(two) = 9 /\ 1..(Len(seven) + Len(two)) = 1..9
    BY <1>1
  <2>. QED
    BY <1>1, <2>1, <2>2
<1>. HIDE DEF joined
<1>5. \A k \in 1..9 : joined[k] = nine[k]
  BY <1>2, <1>3, <1>4
<1>6. joined = nine
  BY <1>1, <1>4, <1>5, SeqEqual
<1>. QED
  BY <1>6 DEF joined, seven, two, nine

\* What decide makes of the checks, the boundaries and the controller's document.
Passes(claim, boundaries, ev) ==
  /\ ChecksHold(claim, ev) /\ BeforeAll(claim.receipt.at, boundaries)
  /\ boundaries # {} \/ ev.controller # Unseen

StatusIf(claim, boundaries, ev) ==
  IF boundaries # {} THEN "pre_compromise"
  ELSE IF Attested[claim.key].identity \in Listed(ev.controller) THEN "current" ELSE "historical"

LEMMA DecideSays ==
  ASSUME NEW claim, NEW boundaries, NEW ev
  PROVE  /\ Passes(claim, boundaries, ev)
              => Decide(claim, boundaries, ev).status = StatusIf(claim, boundaries, ev)
         /\ ~Passes(claim, boundaries, ev) => Decide(claim, boundaries, ev).status = "refused"
         /\ Decide(claim, boundaries, ev).reason = "revoked"
              => ~BeforeAll(claim.receipt.at, boundaries)
         /\ Decide(claim, boundaries, ev).reason = "attestation_withdrawn" => claim.withdrawn
<1>. DEFINE last == << Step("revoked", BeforeAll(claim.receipt.at, boundaries)),
                       Step("controller_unreachable", boundaries # {} \/ ev.controller # Unseen) >>
            steps == ChecksOf(claim, ev) \o last
            all == << Step("attestation_invalid", AttestationValid(claim.key, ev)),
                      Step("untrusted_attester", ev.accepts),
                      Step("attestation_mismatch", claim.form # "misbound"),
                      Step("unplaceable", PlacedBy(claim, ev)),
                      Step("outside_attestation_window", InWindow(claim)),
                      Step("invalid_signature", claim.form # "forged"),
                      Step("attestation_withdrawn", ~claim.withdrawn),
                      Step("revoked", BeforeAll(claim.receipt.at, boundaries)),
                      Step("controller_unreachable", boundaries # {} \/ ev.controller # Unseen) >>
<1>1. steps = all
  BY Appended DEF ChecksOf
<1>2. DOMAIN all = 1..9 /\ DOMAIN all \in SUBSET Nat
  OBVIOUS
<1>3. /\ all[1].holds <=> AttestationValid(claim.key, ev)
      /\ all[2].holds <=> ev.accepts
      /\ all[3].holds <=> claim.form # "misbound"
      /\ all[4].holds <=> PlacedBy(claim, ev)
      /\ all[5].holds <=> InWindow(claim)
      /\ all[6].holds <=> claim.form # "forged"
      /\ all[7].holds <=> ~claim.withdrawn
      /\ all[8].holds <=> BeforeAll(claim.receipt.at, boundaries)
      /\ all[9].holds <=> (boundaries # {} \/ ev.controller # Unseen)
  BY DEF Step
<1>4. /\ all[1].reason = "attestation_invalid" /\ all[2].reason = "untrusted_attester"
      /\ all[3].reason = "attestation_mismatch" /\ all[4].reason = "unplaceable"
      /\ all[5].reason = "outside_attestation_window"
      /\ all[6].reason = "invalid_signature" /\ all[7].reason = "attestation_withdrawn"
      /\ all[8].reason = "revoked" /\ all[9].reason = "controller_unreachable"
  BY DEF Step
<1>5. \A i \in 1..9 : \/ i = 1 \/ i = 2 \/ i = 3 \/ i = 4 \/ i = 5 \/ i = 6 \/ i = 7 \/ i = 8
                      \/ i = 9
  OBVIOUS
<1>6. /\ Decide(claim, boundaries, ev).reason = FirstFailure(steps)
      /\ FirstFailure(steps) # Passed => Decide(claim, boundaries, ev).status = "refused"
      /\ FirstFailure(steps) = Passed
           => Decide(claim, boundaries, ev).status = StatusIf(claim, boundaries, ev)
  BY DEF Decide, StatusIf
<1>. HIDE DEF all, steps
<1>7. \A i \in DOMAIN all : all[i].reason # Passed
  BY <1>2, <1>4, <1>5 DEF Passed
<1>8. FirstFailure(all) = Passed <=> Passes(claim, boundaries, ev)
  <2>1. ASSUME FirstFailure(all) = Passed PROVE Passes(claim, boundaries, ev)
    <3>1. \A i \in DOMAIN all : all[i].holds
      BY <1>2, <1>7, <2>1, PassedMeansAll
    <3>. QED
      BY <1>2, <1>3, <3>1 DEF Passes, ChecksHold
  <2>2. ASSUME Passes(claim, boundaries, ev) PROVE FirstFailure(all) = Passed
    <3>1. \A i \in DOMAIN all : all[i].holds
      BY <1>2, <1>3, <1>5, <2>2 DEF Passes, ChecksHold
    <3>. QED
      BY <3>1, AllMeansPassed
  <2>. QED
    BY <2>1, <2>2
<1>9. /\ FirstFailure(all) = "revoked" => ~all[8].holds
      /\ FirstFailure(all) = "attestation_withdrawn" => ~all[7].holds
  <2>1. SUFFICES ASSUME FirstFailure(all) # Passed
                 PROVE  /\ FirstFailure(all) = "revoked" => ~all[8].holds
                        /\ FirstFailure(all) = "attestation_withdrawn" => ~all[7].holds
    BY DEF Passed
  <2>2. PICK i \in DOMAIN all : ~all[i].holds /\ FirstFailure(all) = all[i].reason
    BY <1>2, <2>1, ReasonIsOfAStep
  <2>. QED
    BY <1>2, <1>4, <1>5, <2>2
<1>. QED
  BY <1>1, <1>3, <1>6, <1>8, <1>9

-----------------------------------------------------------------------------
(* Keyless identities: the invariant of the world *)

DocInv(doc) ==
  /\ doc = [current |-> doc.current, methods |-> doc.methods, services |-> doc.services]
  /\ doc.current \in Nat \ {0} /\ doc.methods \in SUBSET Nat
  /\ doc.current \in doc.methods /\ \A m \in doc.methods : m <= doc.current

Speakers == {"registry", "mirror", "bystander", "document"} \cup DOMAIN Attested
RevokersInv ==
  \A rev \in revokers :
    /\ rev = [who |-> rev.who, since |-> rev.since, key |-> rev.key, receipt |-> rev.receipt]
    /\ rev.who \in Speakers

LifecycleEvents ==
  [type : {"retracted", "republished"}, actor : {"registry", "other"}, proven : BOOLEAN,
   key : Nat]

\* What a consumer was told stays the case while the keys do.
Everything == Evidence(TRUE)
StillRevoked ==
  \E rev \in revokers : Classify(rev, Everything) = "applied" /\ ~(signed.receipt.at < rev.since)
ToldInv ==
  told # NotAsked =>
    /\ signed # NotSigned
    /\ told.registry \in SUBSET Nat /\ told.controller \in SUBSET Nat
    /\ \A m \in told.registry : m <= registry.current
    /\ \A m \in told.controller : m <= controller.current
    /\ told.registry = registry.methods /\ told.controller = controller.methods =>
         \/ StillRevoked
         \/ told.reason = "attestation_withdrawn" /\ (Retracted(Everything) \/ Restored)

WorldInv ==
  /\ DocInv(registry) /\ DocInv(controller) /\ clock \in Nat
  /\ signed # NotSigned => signed.receipt.at \in Nat
  /\ withdrawals \in Seq(LifecycleEvents)
  /\ RevokersInv
KeylessInv == WorldInv /\ ToldInv

LEMMA EvidenceHas ==
  ASSUME NEW attestations, NEW docs, NEW accepts, NEW revs
  PROVE  LET ev == EvidenceOf(attestations, docs, accepts, revs)
         IN  /\ ev.attestations = attestations /\ ev.registry = docs.registry
             /\ ev.controller = docs.controller /\ ev.accepts = accepts /\ ev.body = signed
             /\ ev.events = withdrawals /\ ev.revocations = revs
  BY DEF EvidenceOf

LEMMA AllEvidence ==
  ASSUME NEW accepts
  PROVE  /\ Evidence(accepts).attestations = DOMAIN Attested
         /\ Evidence(accepts).registry = registry /\ Evidence(accepts).controller = controller
         /\ Evidence(accepts).accepts = accepts /\ Evidence(accepts).body = signed
         /\ Evidence(accepts).events = withdrawals /\ Evidence(accepts).revocations = revokers
<1>1. Present.registry = registry /\ Present.controller = controller
  BY DEF Present
<1>. QED
  BY <1>1, EvidenceHas DEF Evidence

LEMMA DocsAreSeen ==
  ASSUME NEW doc, DocInv(doc)
  PROVE  doc # Unseen
  BY DEF DocInv, Unseen

\* One voice at a time.
LEMMA ClassifySays ==
  ASSUME NEW rev, NEW ev
  PROVE  /\ rev.who \in DOMAIN Attested => Classify(rev, ev) = ClassifyKeyless(rev, ev)
         /\ rev.who = "document" => Classify(rev, ev) = ClassifyDocument(rev, ev)
         /\ rev.who = "registry" => Classify(rev, ev) =
              IF rev.key = ev.registry.current THEN "applied" ELSE "ignored"
         /\ rev.who = "mirror" => Classify(rev, ev) =
              IF "mirror" \in Origins(ev) THEN "applied" ELSE "hint"
         /\ rev.who = "bystander" => Classify(rev, ev) = "hint"
<1>1. /\ "document" \notin DOMAIN Attested /\ "registry" \notin DOMAIN Attested
      /\ "mirror" \notin DOMAIN Attested /\ "bystander" \notin DOMAIN Attested
  BY AttestedAssumption
<1>2. CASE rev.who \in DOMAIN Attested
  BY <1>1, <1>2 DEF Classify, KeylessVoice
<1>3. CASE rev.who = "document"
  BY <1>1, <1>3 DEF Classify, KeylessVoice
<1>4. CASE rev.who = "registry"
  BY <1>1, <1>4 DEF Classify, KeylessVoice
<1>5. CASE rev.who = "mirror"
  BY <1>1, <1>5 DEF Classify, KeylessVoice
<1>6. CASE rev.who = "bystander"
  BY <1>1, <1>6 DEF Classify, KeylessVoice
<1>. QED
  BY <1>1, <1>2, <1>3, <1>4, <1>5, <1>6

LEMMA KeylessClassSays ==
  ASSUME NEW rev, NEW ev
  PROVE  LET claim == Claim(rev.who, "proper", rev.receipt, FALSE)
         IN  ClassifyKeyless(rev, ev) =
               IF rev.who = SignedWithKey THEN "ignored"
               ELSE IF ChecksHold(claim, ev)
                    THEN IF Attested[rev.who].wide THEN "applied" ELSE "hint"
               ELSE IF Unavailable(rev.who, ev) \/ (AttestationValid(rev.who, ev) /\ ~ev.accepts)
                    THEN "unknown" ELSE "ignored"
<1>. DEFINE claim == Claim(rev.who, "proper", rev.receipt, FALSE)
<1>1. claim.key = rev.who
  BY DEF Claim
<1>2. /\ Signer(rev, ev) = Passed <=> ChecksHold(claim, ev)
      /\ Signer(rev, ev) = "untrusted_attester" <=> AttestationValid(claim.key, ev) /\ ~ev.accepts
  BY ChecksSay DEF Signer
<1>. HIDE DEF claim
<1>3. CASE rev.who = SignedWithKey
  BY <1>3 DEF ClassifyKeyless
<1>4. CASE rev.who # SignedWithKey /\ Signer(rev, ev) # Passed
  BY <1>1, <1>2, <1>4 DEF ClassifyKeyless, claim
<1>5. CASE rev.who # SignedWithKey /\ Signer(rev, ev) = Passed
  BY <1>1, <1>2, <1>5 DEF ClassifyKeyless, claim
<1>. QED
  BY <1>3, <1>4, <1>5

\* What a revocation counts for depends on the documents' keys, on the attestations and
\* on the body, not on the other revocations, on the events or on the services.
LEMMA ClassifyReads ==
  ASSUME NEW rev, NEW one, NEW other,
         one.attestations = other.attestations, one.registry = other.registry,
         one.accepts = other.accepts, one.body = other.body,
         \/ rev.who # "document"
         \/ /\ one.controller # Unseen /\ other.controller # Unseen
            /\ one.controller.current = other.controller.current
            /\ one.controller.methods = other.controller.methods,
         rev.who \in Speakers
  PROVE  Classify(rev, one) = Classify(rev, other)
<1>1. Unavailable(rev.who, one) <=> Unavailable(rev.who, other)
  BY DEF Unavailable
<1>2. AttestationValid(rev.who, one) <=> AttestationValid(rev.who, other)
  BY <1>1 DEF AttestationValid
<1>3. \A receipt : ReceiptVerified(receipt, one) <=> ReceiptVerified(receipt, other)
  BY DEF ReceiptVerified, KeyKnown
<1>4. CASE rev.who \in DOMAIN Attested
  <2>. DEFINE claim == Claim(rev.who, "proper", rev.receipt, FALSE)
  <2>1. claim.key = rev.who
    BY DEF Claim
  <2>. HIDE DEF claim
  <2>2. ChecksHold(claim, one) <=> ChecksHold(claim, other)
    BY <1>2, <1>3, <2>1 DEF ChecksHold, PlacedBy
  <2>3. ClassifyKeyless(rev, one) = ClassifyKeyless(rev, other)
    BY <1>1, <1>2, <2>2, KeylessClassSays DEF claim
  <2>. QED
    BY <1>4, <2>3, ClassifySays
<1>5. CASE rev.who = "document"
  <2>1. ClassifyDocument(rev, one) = ClassifyDocument(rev, other)
    BY <1>3, <1>5 DEF ClassifyDocument
  <2>. QED
    BY <1>5, <2>1, ClassifySays
<1>6. CASE rev.who = "registry" \/ rev.who = "mirror" \/ rev.who = "bystander"
  <2>1. Origins(one) = Origins(other)
    BY DEF Origins
  <2>. QED
    BY <1>6, <2>1, ClassifySays
<1>. QED
  BY <1>4, <1>5, <1>6 DEF Speakers

-----------------------------------------------------------------------------
(* Keyless identities: the two readers, and poorer evidence *)

ClaimOf(ev) == Claim(SignedWithKey, ev.body.form, ev.body.receipt, Retracted(ev))
OfClass(label, ev) == {rev \in ev.revocations : Classify(rev, ev) = label}
AppliedBoundaries(ev) == Boundaries(OfClass("applied", ev))
BodyPasses(ev) == Passes(ClaimOf(ev), AppliedBoundaries(ev), ev)

LEMMA VerifySays ==
  ASSUME NEW ev
  PROVE  LET claim == ClaimOf(ev)
             applied == AppliedBoundaries(ev)
             withdrawn == IF claim.withdrawn THEN {Attested[SignedWithKey].from} ELSE {}
         IN  VerifyKeyless(ev) =
               [status |-> Decide(claim, applied, ev).status,
                reason |-> Decide(claim, applied, ev).reason,
                class |-> IF AttestationValid(SignedWithKey, ev)
                          THEN RevocationClass(claim, applied \cup withdrawn,
                                               OfClass("unknown", ev), ev)
                          ELSE "not-revoked"]
<1>. DEFINE classes == {<<Classify(rev, ev), rev>> : rev \in ev.revocations}
<1>1. ASSUME NEW label
      PROVE  {c[2] : c \in {d \in classes : d[1] = label}} = OfClass(label, ev)
  <2>1. \A rev \in OfClass(label, ev) : <<Classify(rev, ev), rev>> \in {d \in classes : d[1] = label}
    BY DEF OfClass
  <2>2. OfClass(label, ev) \subseteq {c[2] : c \in {d \in classes : d[1] = label}}
    <3>1. SUFFICES ASSUME NEW rev \in OfClass(label, ev)
                   PROVE  \E c \in {d \in classes : d[1] = label} : rev = c[2]
      OBVIOUS
    <3>2. <<Classify(rev, ev), rev>>[2] = rev
      OBVIOUS
    <3>. HIDE DEF classes
    <3>. QED
      BY <2>1, <3>2
  <2>3. \A d \in classes : d[1] = label => d[2] \in OfClass(label, ev)
    <3>1. SUFFICES ASSUME NEW rev \in ev.revocations, <<Classify(rev, ev), rev>>[1] = label
                   PROVE  <<Classify(rev, ev), rev>>[2] \in OfClass(label, ev)
      OBVIOUS
    <3>. QED
      BY <3>1 DEF OfClass
  <2>. HIDE DEF classes
  <2>. QED
    BY <2>2, <2>3
<1>. QED
  BY <1>1 DEF VerifyKeyless, ClaimOf, AppliedBoundaries

LEMMA ClaimHas ==
  ASSUME NEW ev
  PROVE  /\ ClaimOf(ev).key = SignedWithKey /\ ClaimOf(ev).form = ev.body.form
         /\ ClaimOf(ev).receipt = ev.body.receipt /\ ClaimOf(ev).withdrawn = Retracted(ev)
  BY DEF ClaimOf, Claim

\* What verify_keyless says, read as a consumer must.
LEMMA ReadingSays ==
  ASSUME NEW ev
  PROVE  Reading(VerifyKeyless(ev)) =
           IF ~BodyPasses(ev) THEN "refused"
           ELSE IF OfClass("unknown", ev) # {} THEN "unknown"
           ELSE StatusIf(ClaimOf(ev), AppliedBoundaries(ev), ev)
<1>. DEFINE claim == ClaimOf(ev)
            applied == AppliedBoundaries(ev)
            unknown == OfClass("unknown", ev)
            withdrawn == IF claim.withdrawn THEN {Attested[SignedWithKey].from} ELSE {}
            result == VerifyKeyless(ev)
<1>1. /\ result.status = Decide(claim, applied, ev).status
      /\ result.class = IF AttestationValid(SignedWithKey, ev)
                        THEN RevocationClass(claim, applied \cup withdrawn, unknown, ev)
                        ELSE "not-revoked"
  BY VerifySays
<1>2. claim.key = SignedWithKey
  BY ClaimHas
<1>. HIDE DEF claim, applied, unknown, result
<1>3. /\ Passes(claim, applied, ev) => result.status = StatusIf(claim, applied, ev)
      /\ ~Passes(claim, applied, ev) => result.status = "refused"
  BY <1>1, DecideSays
<1>4. StatusIf(claim, applied, ev) \in {"pre_compromise", "current", "historical"}
  BY DEF StatusIf
<1>5. ASSUME Passes(claim, applied, ev) PROVE result.class = "unknown" <=> unknown # {}
  <2>1. /\ AttestationValid(SignedWithKey, ev) /\ PlacedBy(claim, ev) /\ ~claim.withdrawn
        /\ BeforeAll(claim.receipt.at, applied)
    BY <1>2, <1>5 DEF Passes, ChecksHold
  <2>2. result.class = RevocationClass(claim, applied, unknown, ev)
    <3>1. applied \cup withdrawn = applied
      BY <2>1
    <3>. QED
      BY <1>1, <2>1, <3>1
  <2>. QED
    BY <2>1, <2>2 DEF RevocationClass
<1>6. Reading(result) = IF ~Passes(claim, applied, ev) THEN "refused"
                        ELSE IF unknown # {} THEN "unknown" ELSE StatusIf(claim, applied, ev)
  BY <1>3, <1>4, <1>5 DEF Reading
<1>. QED
  BY <1>6 DEF BodyPasses, claim, applied, unknown, result

LEMMA AcceptedMeans ==
  ASSUME NEW ev
  PROVE  Accepted(ev) <=> BodyPasses(ev) /\ OfClass("unknown", ev) = {}
  BY ReadingSays DEF Accepted, StatusIf

\* What the node counts is what verify_keyless applies.
LEMMA CountsAlike ==
  ASSUME WorldInv, NEW accepts \in BOOLEAN, AllCurrent(Evidence(accepts)), NEW rev \in revokers
  PROVE  NodeCounts(rev, Evidence(accepts)) <=> Classify(rev, Evidence(accepts)) = "applied"
<1>. DEFINE ev == Evidence(accepts)
            claim == Claim(rev.who, "proper", rev.receipt, FALSE)
<1>1. /\ ev.registry = registry /\ ev.controller = controller /\ ev.revocations = revokers
      /\ ev.accepts = accepts /\ ev.attestations = DOMAIN Attested
  BY AllEvidence
<1>2. rev.who \in Speakers /\ DocInv(registry) /\ DocInv(controller)
  BY DEF WorldInv, RevokersInv
<1>3. /\ rev.who = "document" => rev.key = ev.controller.current
      /\ rev.who = "registry" => rev.key = ev.registry.current
  BY <1>1 DEF AllCurrent
<1>4. /\ "document" \notin DOMAIN Attested /\ "registry" \notin DOMAIN Attested
      /\ "mirror" \notin DOMAIN Attested /\ "bystander" \notin DOMAIN Attested
  BY AttestedAssumption
<1>5. /\ claim.key = rev.who /\ claim.form = "proper" /\ claim.withdrawn = FALSE
      /\ claim.receipt = rev.receipt
  BY DEF Claim
<1>6. ev.controller # Unseen
  BY <1>1, <1>2, DocsAreSeen
<1>. HIDE DEF ev
<1>7. CASE rev.who \in DOMAIN Attested
  <2>1. NodeCounts(rev, ev) <=> /\ rev.who # SignedWithKey /\ Attested[rev.who].wide
                                /\ NodeKeyResolved(claim, TRUE, ev) /\ NodePlaced(claim, ev)
    BY <1>4, <1>7 DEF NodeCounts, KeylessVoice
  <2>. HIDE DEF claim
  <2>2. NodeKeyResolved(claim, TRUE, ev) /\ NodePlaced(claim, ev) <=> ChecksHold(claim, ev)
    BY <1>5 DEF NodeKeyResolved, NodePlaced, ChecksHold
  <2>3. ClassifyKeyless(rev, ev) = "applied"
          <=> rev.who # SignedWithKey /\ ChecksHold(claim, ev) /\ Attested[rev.who].wide
    BY KeylessClassSays DEF claim
  <2>. QED
    BY <1>7, <2>1, <2>2, <2>3, ClassifySays DEF ev
<1>8. CASE rev.who = "document"
  <2>1. NodeCounts(rev, ev) <=> rev.key \in ev.controller.methods
    BY <1>3, <1>4, <1>8 DEF NodeCounts, KeylessVoice
  <2>2. ClassifyDocument(rev, ev) = "applied" <=> rev.key \in ev.controller.methods
    BY <1>3, <1>6, <1>8 DEF ClassifyDocument
  <2>. QED
    BY <1>8, <2>1, <2>2, ClassifySays DEF ev
<1>9. CASE rev.who = "registry"
  <2>1. NodeCounts(rev, ev) <=> rev.key \in ev.registry.methods
    BY <1>3, <1>4, <1>9 DEF NodeCounts, KeylessVoice
  <2>2. rev.key \in ev.registry.methods
    BY <1>1, <1>2, <1>3, <1>9 DEF DocInv
  <2>. QED
    BY <1>3, <1>9, <2>1, <2>2, ClassifySays DEF ev
<1>10. CASE rev.who = "mirror" \/ rev.who = "bystander"
  <2>1. NodeCounts(rev, ev) <=> rev.who = "mirror" /\ "mirror" \in Origins(ev)
    BY <1>4, <1>10 DEF NodeCounts, KeylessVoice
  <2>. QED
    BY <1>10, <2>1, ClassifySays DEF ev
<1>. QED
  BY <1>2, <1>7, <1>8, <1>9, <1>10 DEF Speakers, ev

\* And what it cannot evaluate is unknown to verify_keyless, of a body whose own
\* attestation is valid and accepted.
LEMMA UnknownAlike ==
  ASSUME WorldInv, NEW accepts \in BOOLEAN, AllCurrent(Evidence(accepts)), NEW rev \in revokers,
         AttestationValid(SignedWithKey, Evidence(accepts)), accepts
  PROVE  NodeUnevaluable(rev, Evidence(accepts)) <=> Classify(rev, Evidence(accepts)) = "unknown"
<1>. DEFINE ev == Evidence(accepts)
            claim == Claim(rev.who, "proper", rev.receipt, FALSE)
<1>1. /\ ev.registry = registry /\ ev.controller = controller /\ ev.revocations = revokers
      /\ ev.accepts = accepts /\ ev.attestations = DOMAIN Attested
  BY AllEvidence
<1>2. rev.who \in Speakers /\ DocInv(registry) /\ DocInv(controller)
  BY DEF WorldInv, RevokersInv
<1>3. rev.who = "document" => rev.key = ev.controller.current
  BY <1>1 DEF AllCurrent
<1>4. /\ "document" \notin DOMAIN Attested /\ "registry" \notin DOMAIN Attested
      /\ "mirror" \notin DOMAIN Attested /\ "bystander" \notin DOMAIN Attested
  BY AttestedAssumption
<1>5. claim.key = rev.who
  BY DEF Claim
<1>6. ev.controller # Unseen
  BY <1>1, <1>2, DocsAreSeen
<1>. HIDE DEF ev
<1>7. CASE rev.who \in DOMAIN Attested
  <2>1. NodeUnevaluable(rev, ev) <=> NodeKeyUnevaluable(claim, ev)
    BY <1>7 DEF NodeUnevaluable, KeylessVoice
  <2>. HIDE DEF claim
  <2>2. NodeKeyUnevaluable(claim, ev)
          <=> Unavailable(rev.who, ev) \/ (AttestationValid(rev.who, ev) /\ ~ev.accepts)
    BY <1>5 DEF NodeKeyUnevaluable
  <2>3. ~Unavailable(SignedWithKey, ev)
    BY DEF AttestationValid, ev
  <2>4. ChecksHold(claim, ev) => AttestationValid(rev.who, ev) /\ ev.accepts
    BY <1>5 DEF ChecksHold
  <2>5. AttestationValid(rev.who, ev) => ~Unavailable(rev.who, ev)
    BY DEF AttestationValid
  <2>6. ClassifyKeyless(rev, ev) = "unknown"
          <=> Unavailable(rev.who, ev) \/ (AttestationValid(rev.who, ev) /\ ~ev.accepts)
    <3>1. CASE rev.who = SignedWithKey
      BY <1>1, <2>3, <3>1, KeylessClassSays
    <3>2. CASE rev.who # SignedWithKey
      BY <2>4, <2>5, <3>2, KeylessClassSays DEF claim
    <3>. QED
      BY <3>1, <3>2
  <2>. QED
    BY <1>7, <2>1, <2>2, <2>6, ClassifySays DEF ev
<1>8. CASE rev.who = "document"
  <2>1. ~NodeUnevaluable(rev, ev)
    BY <1>4, <1>8 DEF NodeUnevaluable, KeylessVoice
  <2>2. ClassifyDocument(rev, ev) # "unknown"
    BY <1>3, <1>6, <1>8 DEF ClassifyDocument
  <2>. QED
    BY <1>8, <2>1, <2>2, ClassifySays DEF ev
<1>9. CASE rev.who = "registry" \/ rev.who = "mirror" \/ rev.who = "bystander"
  <2>1. ~NodeUnevaluable(rev, ev)
    BY <1>4, <1>9 DEF NodeUnevaluable, KeylessVoice
  <2>. QED
    BY <1>9, <2>1, ClassifySays DEF ev
<1>. QED
  BY <1>2, <1>7, <1>8, <1>9 DEF Speakers, ev

\* Where every event is admitted, both read the events alike.
LEMMA RetractedAlike ==
  ASSUME WorldInv, NEW accepts \in BOOLEAN, AllCurrent(Evidence(accepts))
  PROVE  NodeRetracted(Evidence(accepts)) <=> Retracted(Evidence(accepts))
<1>. DEFINE ev == Evidence(accepts)
<1>1. ev.events = withdrawals /\ withdrawals \in Seq(LifecycleEvents)
  BY AllEvidence DEF WorldInv
<1>2. \A i \in DOMAIN ev.events : EventAdmitted(ev.events[i], ev)
  BY DEF AllCurrent
<1>3. Len(ev.events) \in Nat /\ DOMAIN ev.events = 1..Len(ev.events)
  BY <1>1
<1>. HIDE DEF ev
<1>4. \A i \in DOMAIN ev.events : \A j \in 1..i : EventAdmitted(ev.events[j], ev)
  BY <1>2, <1>3
<1>5. \A i \in DOMAIN ev.events :
        (\A j \in (i + 1)..Len(ev.events) :
           (\A h \in 1..j : EventAdmitted(ev.events[h], ev)) => ev.events[j].type # "republished")
          <=> (\A j \in DOMAIN ev.events :
                 j > i /\ EventAdmitted(ev.events[j], ev) => ev.events[j].type # "republished")
  <2>1. \A i, j \in DOMAIN ev.events : j > i <=> j \in (i + 1)..Len(ev.events)
    BY <1>3
  <2>2. \A i \in DOMAIN ev.events : \A j \in (i + 1)..Len(ev.events) : j \in DOMAIN ev.events
    BY <1>3
  <2>. QED
    BY <1>2, <1>4, <2>1, <2>2
<1>6. NodeRetracted(ev) <=> Retracted(ev)
  BY <1>2, <1>4, <1>5 DEF NodeRetracted, Retracted
<1>. QED
  BY <1>6 DEF ev

\* verify_keyless and the node of the chain verifier say the same of one body.
LEMMA ReadAlike ==
  ASSUME WorldInv, signed # NotSigned, NEW accepts \in BOOLEAN, AllCurrent(Evidence(accepts))
  PROVE  Reading(VerifyKeyless(Evidence(accepts))) = ReadKeylessNode(Evidence(accepts))
<1>. DEFINE ev == Evidence(accepts)
            claim == ClaimOf(ev)
            theirs == Claim(SignedWithKey, ev.body.form, ev.body.receipt, FALSE)
            applied == AppliedBoundaries(ev)
            boundaries == Boundaries({rev \in ev.revocations : NodeCounts(rev, ev)})
              \cup IF NodeRetracted(ev) THEN {Attested[theirs.key].from} ELSE {}
            unevaluable == \E rev \in ev.revocations : NodeUnevaluable(rev, ev)
            class == NodeRevocation(theirs, ev)
            refused == \/ ~NodeKeyResolved(theirs, FALSE, ev) \/ ~NodePlaced(theirs, ev)
                       \/ theirs.form = "forged" \/ class \in {"revoked", "unplaceable"}
<1>1. /\ ev.registry = registry /\ ev.controller = controller /\ ev.revocations = revokers
      /\ ev.accepts = accepts /\ ev.attestations = DOMAIN Attested /\ ev.body = signed
  BY AllEvidence
<1>2. /\ claim.key = SignedWithKey /\ claim.form = ev.body.form /\ claim.receipt = ev.body.receipt
      /\ claim.withdrawn = Retracted(ev)
  BY ClaimHas
<1>3. /\ theirs.key = SignedWithKey /\ theirs.form = ev.body.form /\ theirs.receipt = ev.body.receipt
  BY DEF Claim
<1>4. ev.controller # Unseen
  BY <1>1, DocsAreSeen DEF WorldInv
<1>5. ReceiptVerified(claim.receipt, ev) => ReceiptIsCurrent(claim.receipt, ev)
  BY <1>2 DEF AllCurrent, ReceiptVerified
<1>6. NodeRetracted(ev) <=> Retracted(ev)
  BY RetractedAlike
<1>7. applied = Boundaries({rev \in ev.revocations : NodeCounts(rev, ev)})
  <2>1. {rev \in ev.revocations : NodeCounts(rev, ev)} = OfClass("applied", ev)
    BY <1>1, CountsAlike DEF OfClass
  <2>. QED
    BY <2>1 DEF AppliedBoundaries
<1>8. class = IF boundaries # {}
                  /\ ~(ReceiptVerified(theirs.receipt, ev) /\ ReceiptIsCurrent(theirs.receipt, ev))
               THEN "unplaceable"
               ELSE IF ~BeforeAll(theirs.receipt.at, boundaries) THEN "revoked"
               ELSE IF unevaluable THEN "unknown"
               ELSE IF boundaries # {} THEN "pre-compromise" ELSE "not-revoked"
  BY DEF NodeRevocation
<1>9. ReadKeylessNode(ev) =
        IF refused THEN "refused" ELSE IF class = "unknown" THEN "unknown"
        ELSE IF class = "pre-compromise" THEN "pre_compromise"
        ELSE IF Attested[theirs.key].identity \in Listed(ev.controller)
             THEN "current" ELSE "historical"
  BY DEF ReadKeylessNode
<1>10. /\ boundaries = applied \cup IF NodeRetracted(ev) THEN {Attested[theirs.key].from} ELSE {}
       /\ refused <=> \/ ~NodeKeyResolved(theirs, FALSE, ev) \/ ~NodePlaced(theirs, ev)
                      \/ theirs.form = "forged" \/ class \in {"revoked", "unplaceable"}
  BY <1>7
<1>11. signed.receipt.at \in Nat /\ Attested[SignedWithKey].from \in Nat
  BY AttestedAssumption DEF WorldInv
<1>12. BodyPasses(ev) <=> Passes(claim, applied, ev)
  BY DEF BodyPasses
<1>13. AttestationValid(SignedWithKey, ev) /\ accepts
         => (unevaluable <=> OfClass("unknown", ev) # {})
  BY <1>1, UnknownAlike DEF OfClass
<1>14. Reading(VerifyKeyless(ev)) =
         IF ~BodyPasses(ev) THEN "refused"
         ELSE IF OfClass("unknown", ev) # {} THEN "unknown" ELSE StatusIf(claim, applied, ev)
  BY ReadingSays
<1>. HIDE DEF ev, claim, theirs, applied, boundaries, unevaluable, class, refused
<1>15. NodePlaced(theirs, ev) <=> PlacedBy(claim, ev) /\ InWindow(claim)
  BY <1>2, <1>3 DEF NodePlaced, PlacedBy, InWindow
<1>16. NodeKeyResolved(theirs, FALSE, ev)
         <=> AttestationValid(claim.key, ev) /\ ev.accepts /\ claim.form # "misbound"
  BY <1>2, <1>3, <1>4 DEF NodeKeyResolved
<1>17. ASSUME BodyPasses(ev)
       PROVE  /\ ~refused
              /\ class = IF unevaluable THEN "unknown"
                         ELSE IF applied # {} THEN "pre-compromise" ELSE "not-revoked"
  <2>1. ChecksHold(claim, ev) /\ BeforeAll(claim.receipt.at, applied)
    BY <1>12, <1>17 DEF Passes
  <2>2. boundaries = applied
    BY <1>2, <1>6, <1>10, <2>1 DEF ChecksHold
  <2>3. ReceiptVerified(theirs.receipt, ev) /\ ReceiptIsCurrent(theirs.receipt, ev)
    BY <1>2, <1>3, <1>5, <2>1 DEF ChecksHold, PlacedBy
  <2>4. class = IF unevaluable THEN "unknown"
                ELSE IF applied # {} THEN "pre-compromise" ELSE "not-revoked"
    BY <1>2, <1>3, <1>8, <2>1, <2>2, <2>3
  <2>. QED
    BY <1>2, <1>3, <1>10, <1>15, <1>16, <2>1, <2>4 DEF ChecksHold
<1>18. ASSUME ~BodyPasses(ev) PROVE refused
  <2>1. SUFFICES ASSUME ~refused PROVE FALSE
    OBVIOUS
  <2>2. /\ AttestationValid(claim.key, ev) /\ ev.accepts /\ claim.form # "misbound"
        /\ PlacedBy(claim, ev) /\ InWindow(claim) /\ claim.form # "forged"
        /\ class \notin {"revoked", "unplaceable"}
    BY <1>2, <1>3, <1>10, <1>15, <1>16, <2>1
  <2>3. BeforeAll(claim.receipt.at, boundaries)
    BY <1>2, <1>3, <1>8, <2>2
  <2>4. ~Retracted(ev)
    <3>1. SUFFICES ASSUME Retracted(ev) PROVE FALSE
      OBVIOUS
    <3>2. Attested[SignedWithKey].from \in boundaries
      BY <1>3, <1>6, <1>10, <3>1
    <3>3. claim.receipt.at < Attested[SignedWithKey].from
      BY <2>3, <3>2 DEF BeforeAll
    <3>4. Attested[SignedWithKey].from <= claim.receipt.at
      BY <1>2, <2>2 DEF InWindow
    <3>. QED
      BY <1>1, <1>2, <1>11, <3>3, <3>4
  <2>5. BeforeAll(claim.receipt.at, applied)
    BY <1>10, <2>3 DEF BeforeAll
  <2>. QED
    BY <1>2, <1>4, <1>12, <1>18, <2>2, <2>4, <2>5 DEF Passes, ChecksHold
<1>19. BodyPasses(ev) => AttestationValid(SignedWithKey, ev) /\ accepts
  BY <1>1, <1>2, <1>12 DEF Passes, ChecksHold
<1>20. Reading(VerifyKeyless(ev)) = ReadKeylessNode(ev)
  <2>1. CASE ~BodyPasses(ev)
    BY <1>9, <1>14, <1>18, <2>1
  <2>2. CASE BodyPasses(ev)
    BY <1>2, <1>3, <1>9, <1>13, <1>14, <1>17, <1>19, <2>2 DEF StatusIf
  <2>. QED
    BY <2>1, <2>2
<1>. QED
  BY <1>20 DEF ev

\* Without the attestations of those who revoke.
LEMMA WithoutAttestations ==
  ASSUME WorldInv,
         NEW poorer,
         poorer = EvidenceOf(DOMAIN Attested \ {rev.who : rev \in revokers}, Present, TRUE, revokers),
         Accepted(poorer)
  PROVE  Accepted(Everything)
<1>1. /\ poorer.attestations = DOMAIN Attested \ {rev.who : rev \in revokers}
      /\ poorer.revocations = revokers
  BY DEF EvidenceOf
<1>2. BodyPasses(poorer) /\ OfClass("unknown", poorer) = {}
  BY AcceptedMeans
<1>3. AttestationValid(SignedWithKey, poorer)
  BY <1>2, ClaimHas DEF BodyPasses, Passes, ChecksHold
<1>4. ASSUME NEW rev \in revokers, rev.who \in DOMAIN Attested PROVE FALSE
  <2>1. Unavailable(rev.who, poorer) /\ ~AttestationValid(rev.who, poorer)
    BY <1>1 DEF Unavailable, AttestationValid
  <2>2. rev.who # SignedWithKey
    BY <1>3, <2>1
  <2>3. Classify(rev, poorer) = "unknown"
    <3>1. ~ChecksHold(Claim(rev.who, "proper", rev.receipt, FALSE), poorer)
      BY <2>1 DEF ChecksHold, Claim
    <3>. QED
      BY <1>4, <2>1, <2>2, <3>1, KeylessClassSays, ClassifySays
  <2>. QED
    BY <1>1, <1>2, <2>3 DEF OfClass
<1>5. DOMAIN Attested \ {rev.who : rev \in revokers} = DOMAIN Attested
  BY <1>4
<1>6. poorer = Everything
  BY <1>5 DEF Everything, Evidence
<1>. QED
  BY <1>6

\* Two bodies of evidence under which the same attestation, body and events are read.
LEMMA PassesAlike ==
  ASSUME NEW one, NEW other,
         one.attestations = other.attestations, one.registry = other.registry,
         one.accepts = other.accepts, one.body = other.body, one.events = other.events,
         AppliedBoundaries(one) = AppliedBoundaries(other), other.controller # Unseen,
         BodyPasses(one)
  PROVE  BodyPasses(other)
<1>1. \A key : AttestationValid(key, one) <=> AttestationValid(key, other)
  BY DEF AttestationValid, Unavailable
<1>2. \A receipt : ReceiptVerified(receipt, one) <=> ReceiptVerified(receipt, other)
  BY DEF ReceiptVerified, KeyKnown
<1>3. \A e : EventAdmitted(e, one) <=> EventAdmitted(e, other)
  BY DEF EventAdmitted
<1>4. Retracted(one) <=> Retracted(other)
  BY <1>3 DEF Retracted
<1>. DEFINE claim == ClaimOf(one)
            same == ClaimOf(other)
<1>5. /\ claim.key = SignedWithKey /\ claim.form = one.body.form
      /\ claim.receipt = one.body.receipt /\ claim.withdrawn = Retracted(one)
      /\ same.key = SignedWithKey /\ same.form = other.body.form
      /\ same.receipt = other.body.receipt /\ same.withdrawn = Retracted(other)
  BY ClaimHas
<1>6. Passes(claim, AppliedBoundaries(one), one)
  BY DEF BodyPasses
<1>. HIDE DEF claim, same
<1>7. ChecksHold(same, other)
  BY <1>1, <1>2, <1>4, <1>5, <1>6 DEF Passes, ChecksHold, PlacedBy, InWindow
<1>8. Passes(same, AppliedBoundaries(other), other)
  BY <1>5, <1>6, <1>7 DEF Passes
<1>. QED
  BY <1>8 DEF BodyPasses, same

\* Without the controller's document.
LEMMA WithoutDocument ==
  ASSUME WorldInv,
         NEW poorer,
         poorer = EvidenceOf(DOMAIN Attested, [Present EXCEPT !.controller = Unseen], TRUE, revokers),
         Accepted(poorer)
  PROVE  Accepted(Everything)
<1>1. /\ poorer.attestations = DOMAIN Attested /\ poorer.revocations = revokers
      /\ poorer.registry = registry /\ poorer.controller = Unseen /\ poorer.accepts = Everything.accepts
      /\ poorer.body = signed /\ poorer.events = withdrawals
  <2>1. /\ [Present EXCEPT !.controller = Unseen].registry = registry
        /\ [Present EXCEPT !.controller = Unseen].controller = Unseen
    BY DEF Present
  <2>. QED
    BY <2>1 DEF EvidenceOf, Everything, Evidence
<1>2. /\ Everything.attestations = DOMAIN Attested /\ Everything.revocations = revokers
      /\ Everything.registry = registry /\ Everything.controller = controller
      /\ Everything.body = signed /\ Everything.events = withdrawals
  BY AllEvidence DEF Everything
<1>3. BodyPasses(poorer) /\ OfClass("unknown", poorer) = {}
  BY AcceptedMeans
<1>4. ASSUME NEW rev \in revokers PROVE Classify(rev, poorer) = Classify(rev, Everything)
  <2>1. rev.who # "document"
    <3>1. SUFFICES ASSUME rev.who = "document" PROVE FALSE
      OBVIOUS
    <3>2. Classify(rev, poorer) = "unknown"
      BY <1>1, <3>1, ClassifySays DEF ClassifyDocument
    <3>. QED
      BY <1>1, <1>3, <3>2 DEF OfClass
  <2>2. rev.who \in Speakers
    BY DEF WorldInv, RevokersInv
  <2>. QED
    BY <1>1, <1>2, <2>1, <2>2, ClassifyReads
<1>5. \A label : OfClass(label, poorer) = OfClass(label, Everything)
  BY <1>1, <1>2, <1>4 DEF OfClass
<1>6. AppliedBoundaries(poorer) = AppliedBoundaries(Everything)
  BY <1>5 DEF AppliedBoundaries
<1>7. Everything.controller # Unseen
  BY <1>2, DocsAreSeen DEF WorldInv
<1>8. BodyPasses(Everything)
  BY <1>1, <1>2, <1>3, <1>6, <1>7, PassesAlike
<1>. QED
  BY <1>3, <1>5, <1>8, AcceptedMeans

\* Without the receipts of what the controller's keys revoke.
Stripped(rev) ==
  [rev EXCEPT !.receipt = IF rev.who = "document" THEN NotReceipted ELSE @]

LEMMA WithoutReceipts ==
  ASSUME WorldInv,
         NEW poorer,
         poorer = EvidenceOf(DOMAIN Attested, Present, TRUE, {Stripped(rev) : rev \in revokers}),
         Accepted(poorer)
  PROVE  Accepted(Everything)
<1>1. /\ poorer.attestations = DOMAIN Attested
      /\ poorer.revocations = {Stripped(rev) : rev \in revokers}
      /\ poorer.registry = registry /\ poorer.controller = controller /\ poorer.accepts = Everything.accepts
      /\ poorer.body = signed /\ poorer.events = withdrawals
  <2>1. Present.registry = registry /\ Present.controller = controller
    BY DEF Present
  <2>. QED
    BY <2>1 DEF EvidenceOf, Everything, Evidence
<1>2. /\ Everything.attestations = DOMAIN Attested /\ Everything.revocations = revokers
      /\ Everything.registry = registry /\ Everything.controller = controller
      /\ Everything.body = signed /\ Everything.events = withdrawals
  BY AllEvidence DEF Everything
<1>3. BodyPasses(poorer) /\ OfClass("unknown", poorer) = {}
  BY AcceptedMeans
<1>4. controller # Unseen
  BY DocsAreSeen DEF WorldInv
<1>5. ASSUME NEW rev \in revokers
      PROVE  /\ Classify(Stripped(rev), poorer) = Classify(rev, Everything)
             /\ Stripped(rev).since = rev.since
  <2>1. /\ rev = [who |-> rev.who, since |-> rev.since, key |-> rev.key, receipt |-> rev.receipt]
        /\ rev.who \in Speakers
    BY DEF WorldInv, RevokersInv
  <2>2. Stripped(rev) = [who |-> rev.who, since |-> rev.since, key |-> rev.key,
          receipt |-> IF rev.who = "document" THEN NotReceipted ELSE rev.receipt]
    BY <2>1 DEF Stripped
  <2>3. CASE rev.who # "document"
    <3>1. Stripped(rev) = rev
      BY <2>1, <2>2, <2>3
    <3>. QED
      BY <1>1, <1>2, <2>1, <2>3, <3>1, ClassifyReads
  <2>4. CASE rev.who = "document"
    <3>1. /\ Stripped(rev).who = "document" /\ Stripped(rev).key = rev.key
          /\ Stripped(rev).since = rev.since /\ Stripped(rev).receipt = NotReceipted
      BY <2>2, <2>4
    <3>2. /\ Classify(Stripped(rev), poorer) =
               IF rev.key \notin controller.methods THEN "ignored"
               ELSE IF rev.key = controller.current THEN "applied" ELSE "unknown"
      BY <1>1, <1>4, <3>1, ClassifySays DEF ClassifyDocument, ReceiptVerified
    <3>3. Classify(Stripped(rev), poorer) # "unknown"
      BY <1>1, <1>3 DEF OfClass
    <3>4. /\ Classify(rev, Everything) =
               IF rev.key \notin controller.methods THEN "ignored"
               ELSE IF rev.key = controller.current \/ ReceiptVerified(rev.receipt, Everything)
               THEN "applied" ELSE "unknown"
      BY <1>2, <1>4, <2>4, ClassifySays DEF ClassifyDocument
    <3>. QED
      BY <3>1, <3>2, <3>3, <3>4
  <2>. QED
    BY <2>3, <2>4
<1>6. OfClass("unknown", Everything) = {}
  <2>1. SUFFICES ASSUME NEW rev \in revokers, Classify(rev, Everything) = "unknown" PROVE FALSE
    BY <1>2 DEF OfClass
  <2>2. Stripped(rev) \in poorer.revocations
    BY <1>1
  <2>. QED
    BY <1>3, <1>5, <2>1, <2>2 DEF OfClass
<1>7. AppliedBoundaries(poorer) = AppliedBoundaries(Everything)
  <2>1. ASSUME NEW rev \in OfClass("applied", Everything)
        PROVE  Stripped(rev) \in OfClass("applied", poorer) /\ Stripped(rev).since = rev.since
    <3>1. rev \in revokers
      BY <1>2 DEF OfClass
    <3>2. Stripped(rev) \in poorer.revocations
      BY <1>1, <3>1
    <3>. QED
      BY <1>5, <2>1, <3>1, <3>2 DEF OfClass
  <2>2. ASSUME NEW bare \in OfClass("applied", poorer)
        PROVE  \E rev \in OfClass("applied", Everything) : rev.since = bare.since
    <3>1. PICK rev \in revokers : bare = Stripped(rev)
      BY <1>1 DEF OfClass
    <3>2. rev \in OfClass("applied", Everything)
      BY <1>2, <1>5, <2>2, <3>1 DEF OfClass
    <3>. QED
      BY <1>5, <3>1, <3>2
  <2>. QED
    <3>. DEFINE ours == OfClass("applied", Everything)
                theirs == OfClass("applied", poorer)
    <3>1. /\ \A rev \in ours : \E bare \in theirs : bare.since = rev.since
          /\ \A bare \in theirs : \E rev \in ours : rev.since = bare.since
      BY <2>1, <2>2
    <3>. HIDE DEF ours, theirs
    <3>2. {rev.since : rev \in ours} = {bare.since : bare \in theirs}
      BY <3>1
    <3>. QED
      BY <3>2 DEF AppliedBoundaries, Boundaries, ours, theirs
<1>8. BodyPasses(Everything)
  BY <1>1, <1>2, <1>3, <1>4, <1>7, PassesAlike
<1>. QED
  BY <1>6, <1>8, AcceptedMeans

LEMMA LessNeverClears ==
  ASSUME WorldInv
  PROVE  LessEvidenceNeverClears
<1>1. \A poorer \in Poorer : Accepted(poorer) => Accepted(Everything)
  <2>1. {[rev EXCEPT !.receipt = IF rev.who = "document" THEN NotReceipted ELSE @] :
           rev \in revokers} = {Stripped(rev) : rev \in revokers}
    BY DEF Stripped
  <2>. QED
    BY <2>1, WithoutAttestations, WithoutDocument, WithoutReceipts DEF Poorer
<1>. QED
  BY <1>1 DEF LessEvidenceNeverClears, Everything

-----------------------------------------------------------------------------
(* Keyless identities: every step keeps the invariant *)

LEMMA InitKeyless == KeylessInit => KeylessInv
<1>. SUFFICES ASSUME KeylessInit PROVE KeylessInv
  OBVIOUS
<1>1. DocInv(registry) /\ DocInv(controller)
  BY DEF KeylessInit, AttestingKey, DocInv
<1>2. WorldInv
  BY <1>1 DEF KeylessInit, WorldInv, RevokersInv
<1>3. ToldInv
  BY DEF KeylessInit, ToldInv
<1>. QED
  BY <1>2, <1>3 DEF KeylessInv

LEMMA NewKeyIsNew ==
  ASSUME NEW doc, DocInv(doc), NEW keeps \in BOOLEAN
  PROVE  /\ DocInv(NewKey(doc, keeps)) /\ NewKey(doc, keeps).current = doc.current + 1
         /\ doc.current + 1 \in NewKey(doc, keeps).methods
         /\ NewKey(doc, keeps).services = doc.services
  BY DEF NewKey, DocInv

LEMMA NextWorld == WorldInv /\ [KeylessNext]_keylessVars => WorldInv'
<1>. SUFFICES ASSUME WorldInv, [KeylessNext]_keylessVars PROVE WorldInv'
  OBVIOUS
<1>. USE DEF WorldInv
<1>1. ASSUME NEW keeps \in BOOLEAN, RegistryRotates(keeps) PROVE WorldInv'
  BY <1>1, NewKeyIsNew DEF RegistryRotates, RevokersInv
<1>2. ASSUME NEW keeps \in BOOLEAN, ControllerRotates(keeps) PROVE WorldInv'
  BY <1>2, NewKeyIsNew DEF ControllerRotates, RevokersInv
<1>3. CASE ClockTicks
  BY <1>3 DEF ClockTicks, RevokersInv
<1>4. ASSUME NEW services \in ServiceLists, ControllerLists(services) PROVE WorldInv'
  <2>1. DocInv(controller')
    BY <1>4 DEF ControllerLists, DocInv
  <2>. QED
    BY <1>4, <2>1 DEF ControllerLists, RevokersInv
<1>5. ASSUME NEW body \in Bodies, PublishKeyless(body) PROVE WorldInv'
  <2>1. signed'.receipt.at \in Nat
    <3>1. NotReceipted.at = 0 /\ ReceiptOf(body.of, body.origin).at = clock
      BY DEF NotReceipted, ReceiptOf
    <3>2. signed'.receipt = IF body.of = "" THEN NotReceipted ELSE ReceiptOf(body.of, body.origin)
      BY <1>5 DEF PublishKeyless
    <3>3. signed'.receipt.at = 0 \/ signed'.receipt.at = clock
      BY <3>1, <3>2
    <3>. QED
      BY <3>3
  <2>. QED
    BY <1>5, <2>1 DEF PublishKeyless, RevokersInv
<1>6. ASSUME NEW event \in Events, Withdraw(event) PROVE WorldInv'
  <2>1. [type |-> event.type, actor |-> event.actor, proven |-> event.proven,
         key |-> registry.current] \in LifecycleEvents
    BY EventsAssumption DEF LifecycleEvents, DocInv
  <2>2. withdrawals' \in Seq(LifecycleEvents)
    BY <1>6, <2>1 DEF Withdraw
  <2>. QED
    BY <1>6, <2>2 DEF Withdraw, RevokersInv
<1>7. ASSUME NEW voice \in Voices, SpeakUp(voice) PROVE WorldInv'
  <2>. DEFINE key == IF voice.who = "document" THEN controller.current ELSE registry.current
              receipt == IF ~voice.receipted THEN NotReceipted
                         ELSE ReceiptOf(IF voice.who \in DOMAIN Attested THEN voice.who ELSE "",
                                        "registry")
              said == [who |-> voice.who, since |-> voice.since, key |-> key, receipt |-> receipt]
  <2>1. revokers' = revokers \cup {said}
    BY <1>7 DEF SpeakUp
  <2>2. voice.who \in Speakers
    BY VoicesAssumption DEF Speakers
  <2>3. /\ said = [who |-> said.who, since |-> said.since, key |-> said.key, receipt |-> said.receipt]
        /\ said.who \in Speakers
    BY <2>2
  <2>. HIDE DEF said
  <2>4. RevokersInv'
    BY <2>1, <2>3 DEF RevokersInv
  <2>. QED
    BY <1>7, <2>4 DEF SpeakUp
<1>8. CASE Consult
  BY <1>8 DEF Consult, RevokersInv
<1>9. CASE UNCHANGED keylessVars
  BY <1>9 DEF keylessVars, RevokersInv
<1>. QED
  BY <1>1, <1>2, <1>3, <1>4, <1>5, <1>6, <1>7, <1>8, <1>9 DEF KeylessNext

LEMMA EverythingHas ==
  /\ Everything.attestations = DOMAIN Attested /\ Everything.registry = registry
  /\ Everything.controller = controller /\ Everything.accepts = TRUE /\ Everything.body = signed
  /\ Everything.events = withdrawals /\ Everything.revocations = revokers
  /\ Everything'.attestations = DOMAIN Attested /\ Everything'.registry = registry'
  /\ Everything'.controller = controller' /\ Everything'.accepts = TRUE
  /\ Everything'.body = signed' /\ Everything'.events = withdrawals'
  /\ Everything'.revocations = revokers' /\ Everything'.accepts = Everything.accepts
  BY DEF Everything, Evidence, EvidenceOf, Present

\* A revocation that applies still does while the keys are the same.
LEMMA RevokedStays ==
  ASSUME WorldInv, StillRevoked, registry' = registry, signed' = signed,
         controller'.current = controller.current, controller'.methods = controller.methods,
         controller' # Unseen, revokers \subseteq revokers'
  PROVE  StillRevoked'
<1>1. PICK e, n : e = Everything /\ n = Everything'
  OBVIOUS
<1>2. PICK rev \in revokers : Classify(rev, e) = "applied" /\ ~(signed.receipt.at < rev.since)
  BY <1>1 DEF StillRevoked
<1>3. rev.who \in Speakers /\ controller # Unseen
  BY DocsAreSeen DEF WorldInv, RevokersInv
<1>4. /\ e.attestations = n.attestations /\ e.registry = n.registry /\ e.accepts = n.accepts
      /\ e.body = n.body /\ e.controller = controller /\ n.controller = controller'
  BY <1>1, EverythingHas
<1>5. Classify(rev, n) = Classify(rev, e)
  BY <1>3, <1>4, ClassifyReads
<1>6. rev \in revokers' /\ Classify(rev, Everything') = "applied"
      /\ ~(signed'.receipt.at < rev.since)
  BY <1>1, <1>2, <1>5
<1>. QED
  BY <1>6 DEF StillRevoked

\* A withdrawal stays until the registry restores the attestation.
LEMMA WithdrawnStays ==
  ASSUME WorldInv, Retracted(Everything) \/ Restored, registry' = registry,
         \/ withdrawals' = withdrawals
         \/ \E e \in LifecycleEvents :
              withdrawals' = Append(withdrawals, e) /\ e.key = registry.current
  PROVE  Retracted(Everything') \/ Restored'
<1>1. \A i : i \in DOMAIN withdrawals =>
        (EventAdmitted(withdrawals[i], Everything') <=> EventAdmitted(withdrawals[i], Everything))
  BY EverythingHas DEF EventAdmitted
<1>2. CASE withdrawals' = withdrawals
  BY <1>1, <1>2, EverythingHas DEF Retracted, Restored
<1>3. CASE \E e \in LifecycleEvents :
             withdrawals' = Append(withdrawals, e) /\ e.key = registry.current
  <2>1. PICK e \in LifecycleEvents :
          withdrawals' = Append(withdrawals, e) /\ e.key = registry.current
    BY <1>3
  <2>2. PICK n \in Nat : n = Len(withdrawals)
    BY DEF WorldInv
  <2>3. /\ DOMAIN withdrawals = 1..n /\ DOMAIN withdrawals' = 1..(n + 1)
        /\ withdrawals'[n + 1] = e /\ \A i \in 1..n : withdrawals'[i] = withdrawals[i]
    BY <2>1, <2>2 DEF WorldInv
  <2>. DEFINE theirs == e.actor = "registry" /\ e.proven
  <2>4. EventAdmitted(e, Everything') <=> theirs
    BY <2>1, EverythingHas DEF EventAdmitted, WorldInv, DocInv
  <2>5. e.type = "retracted" \/ e.type = "republished"
    BY DEF LifecycleEvents
  <2>6. \A i : i \in 1..(n + 1) <=> i \in 1..n \/ i = n + 1
    OBVIOUS
  <2>7. \A i \in 1..n : n + 1 > i /\ ~(i > n + 1)
    OBVIOUS
  <2>8. ~(n + 1 > n + 1)
    OBVIOUS
  <2>9. CASE theirs /\ e.type = "retracted"
    <3>1. Retracted(Everything')
      BY <2>3, <2>4, <2>6, <2>7, <2>8, <2>9, EverythingHas DEF Retracted
    <3>. QED
      BY <3>1
  <2>10. CASE theirs /\ e.type = "republished"
    <3>1. Restored'
      BY <2>3, <2>6, <2>7, <2>8, <2>10 DEF Restored
    <3>. QED
      BY <3>1
  <2>11. CASE ~theirs /\ Retracted(Everything)
    <3>1. PICK i \in 1..n :
            /\ EventAdmitted(withdrawals[i], Everything) /\ withdrawals[i].type = "retracted"
            /\ \A j \in 1..n : j > i /\ EventAdmitted(withdrawals[j], Everything)
                 => withdrawals[j].type # "republished"
      BY <2>3, <2>11, EverythingHas DEF Retracted
    <3>2. /\ EventAdmitted(withdrawals'[i], Everything') /\ withdrawals'[i].type = "retracted"
          /\ \A j \in 1..(n + 1) : j > i /\ EventAdmitted(withdrawals'[j], Everything')
               => withdrawals'[j].type # "republished"
      BY <1>1, <2>3, <2>4, <2>6, <2>11, <3>1
    <3>3. Retracted(Everything')
      BY <2>3, <2>6, <3>2, EverythingHas DEF Retracted
    <3>. QED
      BY <3>3
  <2>12. CASE ~theirs /\ Restored
    <3>1. PICK i \in 1..n :
            /\ withdrawals[i].actor = "registry" /\ withdrawals[i].proven
            /\ withdrawals[i].type = "republished"
            /\ \A j \in 1..n : j > i =>
                 ~(withdrawals[j].actor = "registry" /\ withdrawals[j].proven)
      BY <2>3, <2>12 DEF Restored
    <3>2. /\ withdrawals'[i].actor = "registry" /\ withdrawals'[i].proven
          /\ withdrawals'[i].type = "republished"
          /\ \A j \in 1..(n + 1) : j > i =>
               ~(withdrawals'[j].actor = "registry" /\ withdrawals'[j].proven)
      BY <2>3, <2>6, <2>12, <3>1
    <3>3. Restored'
      BY <2>3, <2>6, <3>2 DEF Restored
    <3>. QED
      BY <3>3
  <2>. QED
    BY <2>5, <2>9, <2>10, <2>11, <2>12
<1>. QED
  BY <1>2, <1>3

LEMMA NextTold == KeylessInv /\ [KeylessNext]_keylessVars => ToldInv'
<1>. SUFFICES ASSUME KeylessInv, [KeylessNext]_keylessVars, told' # NotAsked PROVE ToldInv'
  BY DEF ToldInv
<1>1. WorldInv /\ ToldInv
  BY DEF KeylessInv
<1>2. controller # Unseen
  BY <1>1, DocsAreSeen DEF WorldInv
\* While the keys stand and nobody is told anything new.
<1>3. ASSUME told' = told, registry' = registry, signed' = signed,
             controller'.current = controller.current, controller'.methods = controller.methods,
             controller' # Unseen, revokers \subseteq revokers',
             \/ withdrawals' = withdrawals
             \/ \E e \in LifecycleEvents :
                  withdrawals' = Append(withdrawals, e) /\ e.key = registry.current
      PROVE  ToldInv'
  <2>1. told # NotAsked
    BY <1>3
  <2>2. /\ StillRevoked => StillRevoked'
        /\ Retracted(Everything) \/ Restored => Retracted(Everything') \/ Restored'
    BY <1>1, <1>3, RevokedStays, WithdrawnStays
  <2>. QED
    BY <1>1, <1>3, <2>1, <2>2 DEF ToldInv
<1>4. CASE ClockTicks
  BY <1>2, <1>3, <1>4 DEF ClockTicks
<1>5. ASSUME NEW keeps \in BOOLEAN, RegistryRotates(keeps) PROVE ToldInv'
  <2>1. /\ registry'.current = registry.current + 1 /\ registry.current + 1 \in registry'.methods
        /\ registry.current \in Nat
    BY <1>1, <1>5, NewKeyIsNew DEF RegistryRotates, WorldInv, DocInv
  <2>2. told' = told /\ controller' = controller /\ signed' = signed
    BY <1>5 DEF RegistryRotates
  <2>3. told'.registry # registry'.methods
    BY <1>1, <2>1, <2>2 DEF ToldInv
  <2>4. \A m \in told'.registry : m <= registry'.current
    BY <1>1, <2>1, <2>2 DEF ToldInv
  <2>. QED
    BY <1>1, <2>2, <2>3, <2>4 DEF ToldInv
<1>6. ASSUME NEW keeps \in BOOLEAN, ControllerRotates(keeps) PROVE ToldInv'
  <2>1. /\ controller'.current = controller.current + 1
        /\ controller.current + 1 \in controller'.methods /\ controller.current \in Nat
    BY <1>1, <1>6, NewKeyIsNew DEF ControllerRotates, WorldInv, DocInv
  <2>2. told' = told /\ registry' = registry /\ signed' = signed
    BY <1>6 DEF ControllerRotates
  <2>3. told'.controller # controller'.methods
    BY <1>1, <2>1, <2>2 DEF ToldInv
  <2>4. \A m \in told'.controller : m <= controller'.current
    BY <1>1, <2>1, <2>2 DEF ToldInv
  <2>. QED
    BY <1>1, <2>2, <2>3, <2>4 DEF ToldInv
<1>7. ASSUME NEW services \in ServiceLists, ControllerLists(services) PROVE ToldInv'
  <2>1. /\ controller'.current = controller.current /\ controller'.methods = controller.methods
        /\ DocInv(controller')
    BY <1>1, <1>7 DEF ControllerLists, WorldInv, DocInv
  <2>2. controller' # Unseen
    BY <2>1 DEF DocInv, Unseen
  <2>. QED
    BY <1>3, <1>7, <2>1, <2>2 DEF ControllerLists
<1>8. ASSUME NEW body \in Bodies, PublishKeyless(body) PROVE ToldInv'
  BY <1>1, <1>8 DEF PublishKeyless, ToldInv
<1>9. ASSUME NEW event \in Events, Withdraw(event) PROVE ToldInv'
  <2>. DEFINE e == [type |-> event.type, actor |-> event.actor, proven |-> event.proven,
                    key |-> registry.current]
  <2>1. e \in LifecycleEvents /\ e.key = registry.current
    BY <1>1, EventsAssumption DEF LifecycleEvents, WorldInv, DocInv
  <2>2. withdrawals' = Append(withdrawals, e)
    BY <1>9 DEF Withdraw
  <2>. HIDE DEF e
  <2>. QED
    BY <1>2, <1>3, <1>9, <2>1, <2>2 DEF Withdraw
<1>10. ASSUME NEW voice \in Voices, SpeakUp(voice) PROVE ToldInv'
  <2>1. revokers \subseteq revokers'
    BY <1>10 DEF SpeakUp
  <2>. QED
    BY <1>2, <1>3, <1>10, <2>1 DEF SpeakUp
<1>11. CASE Consult
  <2>1. PICK e : e = Everything
    OBVIOUS
  <2>2. /\ signed # NotSigned /\ UNCHANGED <<registry, controller, signed, withdrawals, revokers>>
        /\ VerifyKeyless(e).reason \in {"revoked", "attestation_withdrawn"}
        /\ told' = [reason |-> VerifyKeyless(e).reason, registry |-> registry.methods,
                    controller |-> controller.methods]
    BY <1>11, <2>1 DEF Consult, Everything, Evidence, Present
  <2>3. VerifyKeyless(e).reason = Decide(ClaimOf(e), AppliedBoundaries(e), e).reason
    BY VerifySays
  <2>4. VerifyKeyless(e).reason = "attestation_withdrawn" => Retracted(e)
    BY <2>3, DecideSays, ClaimHas
  <2>5. VerifyKeyless(e).reason = "revoked" => StillRevoked
    <3>1. SUFFICES ASSUME VerifyKeyless(e).reason = "revoked" PROVE StillRevoked
      OBVIOUS
    <3>2. ~BeforeAll(ClaimOf(e).receipt.at, AppliedBoundaries(e))
      BY <2>3, <3>1, DecideSays
    <3>3. ClaimOf(e).receipt = signed.receipt /\ e.revocations = revokers
      BY <2>1, ClaimHas, EverythingHas
    <3>4. PICK rev \in OfClass("applied", e) : ~(signed.receipt.at < rev.since)
      BY <3>2, <3>3 DEF BeforeAll, AppliedBoundaries, Boundaries
    <3>. QED
      BY <2>1, <3>3, <3>4 DEF StillRevoked, OfClass
  <2>6. StillRevoked => StillRevoked'
    BY <1>1, <1>2, <2>2, RevokedStays
  <2>7. Retracted(Everything) => Retracted(Everything') \/ Restored'
    BY <1>1, <2>2, WithdrawnStays
  <2>8. /\ told'.reason = VerifyKeyless(e).reason /\ told'.registry = registry'.methods
        /\ told'.controller = controller'.methods
    BY <2>2
  <2>9. /\ registry'.methods \in SUBSET Nat /\ controller'.methods \in SUBSET Nat
        /\ \A m \in registry'.methods : m <= registry'.current
        /\ \A m \in controller'.methods : m <= controller'.current
    BY <1>1, <2>2 DEF WorldInv, DocInv
  <2>10. signed' # NotSigned
    BY <2>2
  <2>. QED
    BY <2>1, <2>2, <2>4, <2>5, <2>6, <2>7, <2>8, <2>9, <2>10 DEF ToldInv
<1>12. CASE UNCHANGED keylessVars
  BY <1>2, <1>3, <1>12 DEF keylessVars
<1>. QED
  BY <1>4, <1>5, <1>6, <1>7, <1>8, <1>9, <1>10, <1>11, <1>12 DEF KeylessNext

\* The state of the world and what a consumer was told agree for good.
LEMMA KeylessInvariant == KeylessSpec => []KeylessInv
<1>1. KeylessInv /\ [KeylessNext]_keylessVars => KeylessInv'
  BY NextWorld, NextTold DEF KeylessInv
<1>. QED
  BY <1>1, InitKeyless, PTL DEF KeylessSpec

\* verify_keyless and a node of the chain verifier say the same of one body from the
\* same evidence, whatever is published, withdrawn, revoked or rotated.
THEOREM ReadersAlwaysAgree == KeylessSpec => []ReadersAgree
<1>1. KeylessInv => ReadersAgree
  BY ReadAlike DEF KeylessInv, ReadersAgree
<1>. QED
  BY <1>1, KeylessInvariant, PTL

\* A body that is accepted without the controller's document, without the attestations of
\* those who revoke, or without the receipts of revocations that the document signs, is
\* accepted with them.
THEOREM EvidenceOnlyRefuses == KeylessSpec => []LessEvidenceNeverClears
<1>1. KeylessInv => LessEvidenceNeverClears
  BY LessNeverClears DEF KeylessInv
<1>. QED
  BY <1>1, KeylessInvariant, PTL

\* A body that was refused for a revocation or a withdrawal stays refused until keys are
\* rotated or, if it was refused for a withdrawal, the attestation is restored.
THEOREM RefusedForGood == KeylessSpec => []RefusalLasts
<1>1. KeylessInv => RefusalLasts
  <2>1. SUFFICES ASSUME KeylessInv, told # NotAsked, told.registry = registry.methods,
                        told.controller = controller.methods
                 PROVE  \/ VerifyKeyless(Everything).status = "refused"
                        \/ told.reason = "attestation_withdrawn" /\ Restored
    BY DEF RefusalLasts, Everything
  <2>2. \/ StillRevoked
        \/ told.reason = "attestation_withdrawn" /\ (Retracted(Everything) \/ Restored)
    BY <2>1 DEF KeylessInv, ToldInv
  <2>3. PICK e : e = Everything
    OBVIOUS
  <2>4. ~BodyPasses(e) => VerifyKeyless(e).status = "refused"
    BY VerifySays, DecideSays DEF BodyPasses
  <2>5. CASE StillRevoked
    <3>1. PICK rev \in revokers : Classify(rev, e) = "applied" /\ ~(signed.receipt.at < rev.since)
      BY <2>3, <2>5 DEF StillRevoked
    <3>2. ClaimOf(e).receipt = signed.receipt /\ e.revocations = revokers
      BY <2>3, ClaimHas, EverythingHas
    <3>3. rev.since \in AppliedBoundaries(e)
      BY <3>1, <3>2 DEF AppliedBoundaries, Boundaries, OfClass
    <3>4. ~BodyPasses(e)
      BY <3>1, <3>2, <3>3 DEF BodyPasses, Passes, BeforeAll
    <3>. QED
      BY <2>3, <2>4, <3>4
  <2>6. CASE Retracted(e)
    <3>1. ~BodyPasses(e)
      BY <2>6, ClaimHas DEF BodyPasses, Passes, ChecksHold
    <3>. QED
      BY <2>3, <2>4, <3>1
  <2>. QED
    BY <2>2, <2>3, <2>5, <2>6
<1>. QED
  BY <1>1, KeylessInvariant, PTL

-----------------------------------------------------------------------------
(* Artifacts *)

\* A body says what was made of its artifact, which nobody changes any more.
CompletedInv ==
  /\ DOMAIN made = Artifacts /\ DOMAIN completed = Artifacts
  /\ \A id \in Artifacts : completed[id] # NoBody =>
       /\ completed[id].id = id
       /\ completed[id].parts = made[id].parts /\ completed[id].name = made[id].name

LEMMA InitArtifact == ArtifactInit => CompletedInv
  BY DEF ArtifactInit, CompletedInv

LEMMA NextArtifact == CompletedInv /\ [ArtifactNext]_artifactVars => CompletedInv'
<1>. SUFFICES ASSUME CompletedInv, [ArtifactNext]_artifactVars PROVE CompletedInv'
  OBVIOUS
<1>1. ASSUME NEW id \in Artifacts, completed[id] = NoBody, completed' = completed,
             NEW next, made' = [made EXCEPT ![id] = next]
      PROVE  CompletedInv'
  BY <1>1 DEF CompletedInv
<1>2. ASSUME NEW id \in Artifacts, NEW arrives \in BOOLEAN,
             NEW form \in Forms, NEW name \in Labels, Start(id, form, name, arrives)
      PROVE  CompletedInv'
  <2>1. made' = [made EXCEPT ![id] = [parts |-> <<"first">>, name |-> Label(name, made[id].name)]]
    BY <1>2 DEF Start
  <2>2. completed[id] = NoBody /\ completed' = completed
    BY <1>2 DEF Start
  <2>. QED
    BY <1>1, <2>1, <2>2
<1>3. ASSUME NEW id \in Artifacts, NEW arrives \in BOOLEAN, NEW form \in Forms,
             Extend(id, form, arrives)
      PROVE  CompletedInv'
  <2>1. made' = [made EXCEPT ![id] = [parts |-> Append(made[id].parts, "more"),
                                      name |-> made[id].name]]
    BY <1>3 DEF Extend
  <2>2. completed[id] = NoBody /\ completed' = completed
    BY <1>3 DEF Extend
  <2>. QED
    BY <1>1, <2>1, <2>2
<1>4. ASSUME NEW id \in Artifacts, NEW arrives \in BOOLEAN, NEW signer \in DOMAIN Agents,
             NEW link \in LinksFor(id), Complete(id, signer, link, arrives)
      PROVE  CompletedInv'
  <2>1. /\ made' = made
        /\ completed' = [completed EXCEPT ![id] =
             [signer |-> signer, id |-> id, parts |-> made[id].parts, name |-> made[id].name]]
    BY <1>4 DEF Complete
  <2>. QED
    BY <2>1 DEF CompletedInv
<1>5. CASE UNCHANGED artifactVars
  BY <1>5 DEF artifactVars, CompletedInv
<1>. QED
  BY <1>2, <1>3, <1>4, <1>5 DEF ArtifactNext

LEMMA ArtifactVerified ==
  ASSUME NEW h, NEW id, NEW held, NEW body, VerifyArtifact(h, id, held, body) = Passed
  PROVE  /\ body # NoBody /\ body.signer \in h.trusts /\ SameParts(held.parts, body)
         /\ SameArtifact(id, body) /\ body.name \in {"", held.name}
<1>. DEFINE steps == StepsOf(h, id, held, body)
<1>1. body # NoBody /\ FirstFailure(steps) = Passed
  BY DEF VerifyArtifact, Passed
<1>2. DOMAIN steps = 1..10 /\ DOMAIN steps \subseteq Nat
  BY DEF StepsOf
<1>3. /\ steps[3].holds <=> body.signer \in h.trusts
      /\ steps[7].holds <=> SameParts(held.parts, body)
      /\ steps[8].holds <=> SameArtifact(id, body)
      /\ steps[9].holds <=> body.name \in {"", held.name}
  BY DEF StepsOf, Step
<1>4. /\ steps[1].reason # Passed /\ steps[2].reason # Passed /\ steps[3].reason # Passed
      /\ steps[4].reason # Passed /\ steps[5].reason # Passed /\ steps[6].reason # Passed
      /\ steps[7].reason # Passed /\ steps[8].reason # Passed /\ steps[9].reason # Passed
      /\ steps[10].reason # Passed
  BY DEF StepsOf, Step, Passed
<1>5. \A i \in 1..10 : \/ i = 1 \/ i = 2 \/ i = 3 \/ i = 4 \/ i = 5 \/ i = 6 \/ i = 7 \/ i = 8
                       \/ i = 9 \/ i = 10
  OBVIOUS
<1>. HIDE DEF steps
<1>6. \A i \in DOMAIN steps : steps[i].reason # Passed
  BY <1>2, <1>4, <1>5
<1>7. \A i \in DOMAIN steps : steps[i].holds
  BY <1>1, <1>2, <1>6, PassedMeansAll
<1>8. steps[3].holds /\ steps[7].holds /\ steps[8].holds /\ steps[9].holds
  BY <1>2, <1>7
<1>. QED
  BY <1>1, <1>3, <1>8

\* What a holder accepts is what an agent it trusts completed under that id.
LEMMA AcceptedMeansCompleted ==
  ASSUME CompletedInv
  PROVE  AcceptedIsCompleted
<1>1. SUFFICES ASSUME NEW h \in Holders, NEW id \in Artifacts, NEW of \in Artifacts,
                      VerifyArtifact(h, id, Assembled(id), completed[of]) = Passed
               PROVE  /\ completed[id].signer \in h.trusts
                      /\ Normalizable(Assembled(id).parts)
                      /\ Normalized(Assembled(id).parts) = made[id].parts
                      /\ made[id].name \in {"", Assembled(id).name}
  BY DEF AcceptedIsCompleted
<1>2. PICK held : held = Assembled(id)
  OBVIOUS
<1>3. /\ completed[of] # NoBody /\ completed[of].signer \in h.trusts
      /\ SameParts(held.parts, completed[of]) /\ SameArtifact(id, completed[of])
      /\ completed[of].name \in {"", held.name}
  BY <1>1, <1>2, ArtifactVerified
<1>4. of = id
  BY <1>1, <1>3 DEF CompletedInv, SameArtifact
<1>. QED
  BY <1>1, <1>2, <1>3, <1>4 DEF CompletedInv, SameParts

\* What a holder has after n chunks, and what the next one makes of it.
JoinFor(id, chunks, before, n) ==
  IF chunks[n].id = id THEN Join(before, chunks[n]) ELSE before
Joined(id, chunks, k, g) ==
  g = [n \in 0..k |-> IF n = 0 THEN Nothing ELSE JoinFor(id, chunks, g[n - 1], n)]

LEMMA SomeJoined ==
  ASSUME NEW id, NEW chunks, NEW k \in Nat
  PROVE  \E g : Joined(id, chunks, k, g)
<1>. DEFINE fine == {m \in Nat : \E g : Joined(id, chunks, m, g)}
<1>1. 0 \in fine
  <2>. DEFINE g == [n \in 0..0 |-> Nothing]
  <2>1. g = [n \in 0..0 |-> IF n = 0 THEN Nothing ELSE JoinFor(id, chunks, g[n - 1], n)]
    OBVIOUS
  <2>. QED
    BY <2>1 DEF Joined
<1>2. ASSUME NEW m \in Nat, m \in fine PROVE m + 1 \in fine
  <2>1. PICK g : Joined(id, chunks, m, g)
    BY <1>2
  <2>2. /\ g[0] = Nothing
        /\ \A n \in 1..m : g[n] = JoinFor(id, chunks, g[n - 1], n)
    BY <2>1 DEF Joined
  <2>. DEFINE h == [n \in 0..(m + 1) |-> IF n <= m THEN g[n] ELSE JoinFor(id, chunks, g[m], m + 1)]
              next == [n \in 0..(m + 1) |-> IF n = 0 THEN Nothing ELSE JoinFor(id, chunks, h[n - 1], n)]
  <2>3. ASSUME NEW n \in 0..(m + 1) PROVE h[n] = next[n]
    <3>1. CASE n = 0
      BY <2>2, <3>1
    <3>2. CASE n \in 1..m
      <4>1. n - 1 \in 0..(m + 1) /\ n - 1 <= m /\ n <= m /\ n # 0
        BY <3>2
      <4>. QED
        BY <2>2, <3>2, <4>1
    <3>3. CASE n = m + 1
      <4>1. n - 1 = m /\ m \in 0..(m + 1) /\ m <= m /\ ~(n <= m) /\ n # 0
        BY <3>3
      <4>. QED
        BY <3>3, <4>1
    <3>. QED
      BY <3>1, <3>2, <3>3
  <2>4. h = next
    <3>1. DOMAIN h = DOMAIN next /\ h = [n \in DOMAIN h |-> h[n]] /\ next = [n \in DOMAIN next |-> next[n]]
      OBVIOUS
    <3>. QED
      BY <2>3
  <2>5. Joined(id, chunks, m + 1, h)
    BY <2>4 DEF Joined
  <2>. QED
    BY <2>5
<1>3. \A n \in 1..k : n - 1 \in fine => n \in fine
  <2>1. ASSUME NEW n \in 1..k, n - 1 \in fine PROVE n \in fine
    <3>1. n - 1 \in Nat /\ (n - 1) + 1 = n
      OBVIOUS
    <3>. HIDE DEF fine
    <3>. QED
      BY <1>2, <2>1, <3>1
  <2>. QED
    BY <2>1
<1>4. 0..k \subseteq fine
  <2>. HIDE DEF fine
  <2>. QED
    BY <1>1, <1>3, UpToAll
<1>. QED
  BY <1>4

LEMMA AssembleIs ==
  ASSUME NEW chunks, Len(chunks) \in Nat, NEW id
  PROVE  \E g : Joined(id, chunks, Len(chunks), g) /\ Assemble(chunks, id) = g[Len(chunks)]
<1>1. Assemble(chunks, id) = (CHOOSE g : Joined(id, chunks, Len(chunks), g))[Len(chunks)]
  BY DEF Assemble, Joined, JoinFor
<1>2. Joined(id, chunks, Len(chunks), CHOOSE g : Joined(id, chunks, Len(chunks), g))
  BY SomeJoined
<1>. QED
  BY <1>1, <1>2

LEMMA AssembleNone ==
  ASSUME NEW id
  PROVE  Assemble(<<>>, id) = Nothing
<1>1. Len(<<>>) = 0 /\ 0 \in Nat
  OBVIOUS
<1>2. PICK g : Joined(id, <<>>, 0, g) /\ Assemble(<<>>, id) = g[0]
  BY <1>1, AssembleIs
<1>. QED
  BY <1>2 DEF Joined

LEMMA AssembleOneMore ==
  ASSUME NEW S, NEW chunks \in Seq(S), NEW chunk \in S, NEW id
  PROVE  Assemble(Append(chunks, chunk), id) =
           IF chunk.id = id THEN Join(Assemble(chunks, id), chunk) ELSE Assemble(chunks, id)
<1>. DEFINE longer == Append(chunks, chunk)
<1>1. PICK k \in Nat : k = Len(chunks)
  OBVIOUS
<1>2. /\ Len(longer) = k + 1 /\ longer[k + 1] = chunk
      /\ \A n \in 1..k : longer[n] = chunks[n]
  BY <1>1
<1>. HIDE DEF longer
<1>3. PICK g : Joined(id, chunks, k, g) /\ Assemble(chunks, id) = g[k]
  BY <1>1, AssembleIs
<1>4. PICK h : Joined(id, longer, k + 1, h) /\ Assemble(longer, id) = h[k + 1]
  <2>1. Len(longer) \in Nat
    BY <1>2
  <2>. QED
    BY <1>2, <2>1, AssembleIs
<1>5. /\ g[0] = Nothing /\ \A n \in 1..k : g[n] = JoinFor(id, chunks, g[n - 1], n)
  BY <1>3 DEF Joined
<1>6. h[0] = Nothing /\ \A n \in 1..(k + 1) : h[n] = JoinFor(id, longer, h[n - 1], n)
  <2>1. PICK m \in Nat : m = k + 1
    OBVIOUS
  <2>2. h[0] = Nothing /\ \A n \in 1..m : h[n] = JoinFor(id, longer, h[n - 1], n)
    BY <1>4, <2>1 DEF Joined
  <2>. QED
    BY <2>1, <2>2
<1>. DEFINE alike == {n \in 0..k : h[n] = g[n]}
<1>7. 0 \in alike
  BY <1>5, <1>6
<1>8. ASSUME NEW n \in 1..k, n - 1 \in alike PROVE n \in alike
  <2>1. n \in 1..(k + 1) /\ n \in 0..k
    OBVIOUS
  <2>2. h[n] = JoinFor(id, longer, h[n - 1], n) /\ g[n] = JoinFor(id, chunks, g[n - 1], n)
    BY <1>5, <1>6, <2>1
  <2>3. h[n - 1] = g[n - 1] /\ longer[n] = chunks[n]
    BY <1>2, <1>8
  <2>4. h[n] = g[n]
    BY <2>2, <2>3 DEF JoinFor
  <2>. QED
    BY <2>1, <2>4
<1>9. h[k] = g[k]
  <2>1. 0..k \subseteq alike
    <3>. HIDE DEF alike
    <3>. QED
      BY <1>7, <1>8, UpToAll
  <2>2. k \in 0..k
    OBVIOUS
  <2>. QED
    BY <2>1, <2>2
<1>10. h[k + 1] = JoinFor(id, longer, h[k], k + 1)
  <2>1. k + 1 \in 1..(k + 1) /\ (k + 1) - 1 = k
    OBVIOUS
  <2>. QED
    BY <1>6, <2>1
<1>. QED
  BY <1>2, <1>3, <1>4, <1>9, <1>10 DEF JoinFor, longer

\* What reaches the holder, and what it makes of what reached it whole.
ChunkLinks == {NoLink} \cup UNION {LinksFor(id) : id \in Artifacts}
Pieces == [content : {"first", "more"}, form : Forms]
Chunks ==
  [id : Artifacts, append : BOOLEAN, parts : Seq(Pieces), name : Labels \cup {""}, link : ChunkLinks]
SameText(parts, texts) ==
  /\ parts \in Seq(Pieces) /\ texts \in Seq({"first", "more"}) /\ Len(parts) = Len(texts)
  /\ \A i \in 1..Len(parts) : parts[i].content = texts[i]
HeldInv ==
  /\ received \in Seq(Chunks)
  /\ \A id \in Artifacts :
       /\ made[id] = [parts |-> made[id].parts, name |-> made[id].name]
       /\ id \notin lost =>
            /\ SameText(Assembled(id).parts, made[id].parts)
            /\ Assembled(id).name = made[id].name

LEMMA InitHeld == ArtifactInit => HeldInv
<1>. SUFFICES ASSUME ArtifactInit PROVE HeldInv
  OBVIOUS
<1>1. received = <<>> /\ \A id \in Artifacts : made[id] = NotMade
  BY DEF ArtifactInit
<1>2. \A id \in Artifacts : Assembled(id) = Nothing
  BY <1>1, AssembleNone DEF Assembled
<1>3. SameText(<<>>, <<>>)
  BY DEF SameText
<1>4. /\ NotMade.parts = <<>> /\ NotMade.name = "" /\ Nothing.parts = <<>> /\ Nothing.name = ""
      /\ NotMade = [parts |-> NotMade.parts, name |-> NotMade.name]
  BY DEF NotMade, Nothing
<1>. HIDE DEF NotMade
<1>5. received \in Seq(Chunks)
  BY <1>1
<1>6. ASSUME NEW id \in Artifacts
      PROVE  /\ made[id] = [parts |-> made[id].parts, name |-> made[id].name]
             /\ SameText(Assembled(id).parts, made[id].parts)
             /\ Assembled(id).name = made[id].name
  BY <1>1, <1>2, <1>3, <1>4
<1>. QED
  BY <1>5, <1>6 DEF HeldInv

Remade(id, after) ==
  /\ \A of \in Artifacts : made'[of] = IF of = id THEN after ELSE made[of]
  /\ after = [parts |-> after.parts, name |-> after.name]
SameArtifactText(id, joined, after) ==
  id \notin lost => SameText(joined.parts, after.parts) /\ joined.name = after.name

\* One chunk for the artifact, if it arrives.
LEMMA NextHeld ==
  ASSUME CompletedInv, HeldInv, NEW id \in Artifacts, NEW chunk \in Chunks, chunk.id = id,
         NEW arrives \in BOOLEAN, Deliver(chunk, arrives),
         NEW after, Remade(id, after), SameArtifactText(id, Join(Assembled(id), chunk), after)
  PROVE  HeldInv'
<1>1. received' \in Seq(Chunks)
  BY DEF Deliver, HeldInv
<1>2. ASSUME NEW of \in Artifacts
      PROVE  /\ made'[of] = [parts |-> made'[of].parts, name |-> made'[of].name]
             /\ of \notin lost' => /\ SameText(Assembled(of)'.parts, made'[of].parts)
                                   /\ Assembled(of)'.name = made'[of].name
  <2>1. /\ made'[of] = IF of = id THEN after ELSE made[of]
        /\ after = [parts |-> after.parts, name |-> after.name]
    BY DEF Remade
  <2>2. made[of] = [parts |-> made[of].parts, name |-> made[of].name]
    BY DEF HeldInv
  <2>3. of \notin lost' => of \notin lost
    BY DEF Deliver
  <2>4. CASE arrives
    <3>1. Assembled(of)' = IF of = id THEN Join(Assembled(of), chunk) ELSE Assembled(of)
      <4>1. received' = Append(received, chunk) /\ received \in Seq(Chunks)
        BY <2>4 DEF Deliver, HeldInv
      <4>. QED
        BY <4>1, AssembleOneMore DEF Assembled
    <3>. QED
      BY <2>1, <2>2, <2>3, <3>1 DEF HeldInv, SameArtifactText
  <2>5. CASE ~arrives
    <3>1. received' = received /\ lost' = lost \cup {id}
      BY <2>5 DEF Deliver
    <3>2. Assembled(of)' = Assembled(of)
      BY <3>1 DEF Assembled
    <3>. QED
      BY <2>1, <2>2, <3>1, <3>2 DEF HeldInv, SameArtifactText
  <2>. QED
    BY <2>4, <2>5
<1>. QED
  BY <1>1, <1>2 DEF HeldInv

LEMMA OneMoreText ==
  ASSUME NEW parts, NEW texts, SameText(parts, texts),
         NEW part \in Pieces
  PROVE  SameText(parts \o <<part>>, Append(texts, part.content))
<1>1. PICK k \in Nat : k = Len(parts) /\ k = Len(texts)
  BY DEF SameText
<1>2. /\ parts \in Seq(Pieces) /\ <<part>> \in Seq(Pieces) /\ Len(<<part>>) = 1
      /\ <<part>>[1] = part /\ texts \in Seq({"first", "more"})
      /\ part.content \in {"first", "more"}
  BY DEF SameText, Pieces
<1>3. /\ parts \o <<part>> \in Seq(Pieces) /\ Len(parts \o <<part>>) = k + 1
      /\ \A i \in 1..(k + 1) :
           (parts \o <<part>>)[i] = IF i <= k THEN parts[i] ELSE <<part>>[i - k]
  <2>1. /\ parts \o <<part>> \in Seq(Pieces) /\ Len(parts \o <<part>>) = Len(parts) + Len(<<part>>)
        /\ \A i \in 1..(Len(parts) + Len(<<part>>)) :
             (parts \o <<part>>)[i] = IF i <= Len(parts) THEN parts[i] ELSE <<part>>[i - Len(parts)]
    BY <1>2, ConcatProperties
  <2>2. Len(parts) + Len(<<part>>) = k + 1
    BY <1>1, <1>2
  <2>. QED
    BY <1>1, <2>1, <2>2
<1>4. /\ Append(texts, part.content) \in Seq({"first", "more"})
      /\ Len(Append(texts, part.content)) = k + 1
      /\ \A i \in 1..(k + 1) :
           Append(texts, part.content)[i] = IF i <= k THEN texts[i] ELSE part.content
  BY <1>1, <1>2
<1>5. ASSUME NEW i \in 1..(k + 1)
      PROVE  (parts \o <<part>>)[i].content = Append(texts, part.content)[i]
  <2>1. CASE i <= k
    <3>1. i \in 1..k
      BY <2>1
    <3>. QED
      BY <1>1, <1>3, <1>4, <2>1, <3>1 DEF SameText
  <2>2. CASE ~(i <= k)
    <3>1. i - k = 1
      BY <2>2
    <3>. QED
      BY <1>2, <1>3, <1>4, <2>2, <3>1
  <2>. QED
    BY <2>1, <2>2
<1>. QED
  BY <1>3, <1>4, <1>5 DEF SameText

\* What was made of an artifact is in the holder's hands, if nothing was lost.
LEMMA MadeSomething ==
  ASSUME HeldInv, NEW id \in Artifacts, made[id] # NotMade,
         NEW before, SameText(before.parts, made[id].parts), before.name = made[id].name
  PROVE  before # Nothing
<1>1. SUFFICES ASSUME before = Nothing PROVE FALSE
  OBVIOUS
<1>2. before.parts = <<>> /\ made[id].name = ""
  BY <1>1 DEF Nothing
<1>3. made[id].parts = <<>>
  <2>1. made[id].parts \in Seq({"first", "more"}) /\ Len(made[id].parts) = Len(<<>>)
    BY <1>2 DEF SameText
  <2>2. <<>> \in Seq({"first", "more"}) /\ Len(<<>>) = 0
    OBVIOUS
  <2>3. \A i \in 1..Len(<<>>) : made[id].parts[i] = <<>>[i]
    BY <2>2
  <2>. QED
    BY <2>1, <2>2, <2>3, SeqEqual
<1>4. made[id] = [parts |-> made[id].parts, name |-> made[id].name]
  BY DEF HeldInv
<1>5. made[id] = [parts |-> <<>>, name |-> ""]
  BY <1>2, <1>3, <1>4
<1>. QED
  BY <1>5 DEF NotMade

LEMMA NextArtifactHeld ==
  CompletedInv /\ HeldInv /\ [ArtifactNext]_artifactVars => HeldInv'
<1>. SUFFICES ASSUME CompletedInv, HeldInv, [ArtifactNext]_artifactVars PROVE HeldInv'
  OBVIOUS
<1>1. ASSUME NEW id \in Artifacts, NEW arrives \in BOOLEAN,
             NEW form \in Forms, NEW name \in Labels, Start(id, form, name, arrives)
      PROVE  HeldInv'
  <2>0. PICK chunk : chunk = Chunk(id, FALSE, <<Part("first", form)>>, name, NoLink)
    OBVIOUS
  <2>. DEFINE after == [parts |-> <<"first">>, name |-> Label(name, made[id].name)]
              before == Assembled(id)
  <2>1. /\ \A of \in Artifacts : made'[of] = IF of = id THEN after ELSE made[of]
        /\ Deliver(chunk, arrives)
    BY <1>1, <2>0 DEF Start, CompletedInv
  <2>2. <<Part("first", form)>> \in Seq(Pieces)
    BY DEF Part, Pieces
  <2>3. PICK parts \in Seq(Pieces) : parts = <<Part("first", form)>>
    BY <2>2
  <2>4. /\ chunk \in Chunks /\ chunk.id = id /\ ~chunk.append
        /\ chunk.parts = <<Part("first", form)>> /\ chunk.name = name
    <3>1. chunk = [id |-> id, append |-> FALSE, parts |-> parts, name |-> name, link |-> NoLink]
      BY <2>0, <2>3 DEF Chunk
    <3>2. NoLink \in ChunkLinks
      BY DEF ChunkLinks
    <3>3. chunk \in Chunks
      BY <3>1, <3>2 DEF Chunks
    <3>4. chunk.id = id /\ chunk.parts = parts /\ chunk.name = name
      BY <3>1
    <3>5. ~chunk.append
      BY <3>1
    <3>. QED
      BY <2>3, <3>3, <3>4, <3>5
  <2>5. Join(before, chunk).parts = <<Part("first", form)>>
    BY <2>4 DEF Join
  <2>6. Join(before, chunk).name = Label(name, before.name)
    BY <2>4 DEF Join
  <2>7. SameText(<<Part("first", form)>>, <<"first">>)
    BY <2>2 DEF SameText, Part
  <2>8. id \notin lost => before.name = made[id].name
    BY DEF HeldInv
  <2>9. /\ after.parts = <<"first">> /\ after.name = Label(name, made[id].name)
        /\ after = [parts |-> after.parts, name |-> after.name]
    OBVIOUS
  <2>. HIDE DEF after, before
  <2>10. id \notin lost => /\ SameText(Join(before, chunk).parts, after.parts)
                           /\ Join(before, chunk).name = after.name
    BY <2>5, <2>6, <2>7, <2>8, <2>9
  <2>11. Remade(id, after)
    BY <2>1, <2>9 DEF Remade
  <2>12. SameArtifactText(id, Join(Assembled(id), chunk), after)
    BY <2>10 DEF SameArtifactText, before
  <2>13. Deliver(chunk, arrives) /\ chunk \in Chunks /\ chunk.id = id
    BY <2>1, <2>4
  <2>. QED
    BY <2>11, <2>12, <2>13, NextHeld
<1>2. ASSUME NEW id \in Artifacts, NEW arrives \in BOOLEAN, NEW form \in Forms,
             Extend(id, form, arrives)
      PROVE  HeldInv'
  <2>0. PICK chunk : chunk = Chunk(id, TRUE, <<Part("more", form)>>, "", NoLink)
    OBVIOUS
  <2>. DEFINE after == [parts |-> Append(made[id].parts, "more"), name |-> made[id].name]
              before == Assembled(id)
  <2>1. /\ \A of \in Artifacts : made'[of] = IF of = id THEN after ELSE made[of]
        /\ Deliver(chunk, arrives) /\ made[id] # NotMade
    BY <1>2, <2>0 DEF Extend, CompletedInv
  <2>2. <<Part("more", form)>> \in Seq(Pieces)
    BY DEF Part, Pieces
  <2>3. NoLink \in ChunkLinks
    BY DEF ChunkLinks
  <2>3b. PICK parts \in Seq(Pieces) : parts = <<Part("more", form)>>
    BY <2>2
  <2>4. /\ chunk \in Chunks /\ chunk.id = id /\ chunk.append
        /\ chunk.parts = <<Part("more", form)>> /\ chunk.name = ""
    <3>1. chunk = [id |-> id, append |-> TRUE, parts |-> parts, name |-> "", link |-> NoLink]
      BY <2>0, <2>3b DEF Chunk
    <3>2. chunk \in Chunks
      BY <3>1, <2>3 DEF Chunks
    <3>3. chunk.id = id /\ chunk.parts = parts /\ chunk.name = ""
      BY <3>1
    <3>4. chunk.append
      BY <3>1
    <3>. QED
      BY <2>3b, <3>2, <3>3, <3>4
  <2>5. /\ after.parts = Append(made[id].parts, "more") /\ after.name = made[id].name
        /\ after = [parts |-> after.parts, name |-> after.name]
    OBVIOUS
  <2>. HIDE DEF after, before
  <2>6. ASSUME id \notin lost
        PROVE  /\ SameText(Join(before, chunk).parts, after.parts)
               /\ Join(before, chunk).name = after.name
    <3>1. SameText(before.parts, made[id].parts) /\ before.name = made[id].name
      BY <2>6 DEF HeldInv, before
    <3>2. before # Nothing
      BY <2>1, <3>1, MadeSomething
    <3>3. /\ Join(before, chunk).parts = before.parts \o <<Part("more", form)>>
          /\ Join(before, chunk).name = before.name
      BY <2>4, <3>2 DEF Join, Label
    <3>4. SameText(before.parts \o <<Part("more", form)>>, Append(made[id].parts, "more"))
      BY <3>1, <2>2, OneMoreText DEF Part
    <3>. QED
      BY <2>5, <3>1, <3>3, <3>4
  <2>7. id \notin lost => /\ SameText(Join(Assembled(id), chunk).parts, after.parts)
                          /\ Join(Assembled(id), chunk).name = after.name
    BY <2>6 DEF before
  <2>8. Remade(id, after)
    BY <2>1, <2>5 DEF Remade
  <2>9. SameArtifactText(id, Join(Assembled(id), chunk), after)
    BY <2>7 DEF SameArtifactText
  <2>10. Deliver(chunk, arrives) /\ chunk \in Chunks /\ chunk.id = id
    BY <2>1, <2>4
  <2>. QED
    BY <2>8, <2>9, <2>10, NextHeld
<1>3. ASSUME NEW id \in Artifacts, NEW arrives \in BOOLEAN, NEW signer \in DOMAIN Agents,
             NEW link \in LinksFor(id), Complete(id, signer, link, arrives)
      PROVE  HeldInv'
  <2>0. PICK chunk : chunk = Chunk(id, TRUE, <<>>, "", link)
    OBVIOUS
  <2>. DEFINE before == Assembled(id)
  <2>1. made' = made /\ Deliver(chunk, arrives) /\ made[id] # NotMade
    BY <1>3, <2>0 DEF Complete
  <2>2. <<>> \in Seq(Pieces) /\ link \in ChunkLinks
    BY DEF ChunkLinks
  <2>3b. PICK parts \in Seq(Pieces) : parts = <<>>
    BY <2>2
  <2>4. /\ chunk \in Chunks /\ chunk.id = id /\ chunk.append /\ chunk.parts = <<>> /\ chunk.name = ""
    <3>1. chunk = [id |-> id, append |-> TRUE, parts |-> parts, name |-> "", link |-> link]
      BY <2>0, <2>3b DEF Chunk
    <3>2. chunk \in Chunks
      BY <3>1, <2>2 DEF Chunks
    <3>3. chunk.id = id /\ chunk.parts = parts /\ chunk.name = ""
      BY <3>1
    <3>4. chunk.append
      BY <3>1
    <3>. QED
      BY <2>3b, <3>2, <3>3, <3>4
  <2>5. /\ \A of \in Artifacts : made'[of] = IF of = id THEN made[id] ELSE made[of]
        /\ made[id] = [parts |-> made[id].parts, name |-> made[id].name]
    BY <2>1 DEF CompletedInv, HeldInv
  <2>. HIDE DEF before
  <2>6. ASSUME id \notin lost
        PROVE  /\ SameText(Join(before, chunk).parts, made[id].parts)
               /\ Join(before, chunk).name = made[id].name
    <3>1. SameText(before.parts, made[id].parts) /\ before.name = made[id].name
      BY <2>6 DEF HeldInv, before
    <3>2. before # Nothing
      BY <2>1, <3>1, MadeSomething
    <3>3. /\ Join(before, chunk).parts = before.parts \o <<>>
          /\ Join(before, chunk).name = before.name
      BY <2>4, <3>2 DEF Join, Label
    <3>4. before.parts \o <<>> = before.parts
      BY <3>1, ConcatEmptySeq DEF SameText
    <3>. QED
      BY <3>1, <3>3, <3>4
  <2>7. id \notin lost => /\ SameText(Join(Assembled(id), chunk).parts, made[id].parts)
                          /\ Join(Assembled(id), chunk).name = made[id].name
    BY <2>6 DEF before
  <2>8. Remade(id, made[id])
    BY <2>1, <2>5 DEF Remade
  <2>9. SameArtifactText(id, Join(Assembled(id), chunk), made[id])
    BY <2>7 DEF SameArtifactText
  <2>10. Deliver(chunk, arrives) /\ chunk \in Chunks /\ chunk.id = id
    BY <2>1, <2>4
  <2>. QED
    BY <2>8, <2>9, <2>10, NextHeld
<1>4. CASE UNCHANGED artifactVars
  BY <1>4 DEF artifactVars, HeldInv, Assembled
<1>. QED
  BY <1>1, <1>2, <1>3, <1>4 DEF ArtifactNext

\* What arrived whole, readable and properly linked passes every step.
LEMMA DeliveredMeansAccepted ==
  ASSUME CompletedInv, HeldInv
  PROVE  DeliveredIsAccepted
<1>1. SUFFICES ASSUME NEW h \in Holders, NEW id \in Artifacts,
                      completed[id] # NoBody, id \notin lost,
                      NEW held, held = Assembled(id),
                      NEW body, body = completed[id],
                      Normalizable(held.parts), held.link = [names |-> id, form |-> "proper"],
                      body.signer \in h.trusts, h.card \in {"", body.signer},
                      h.aid \in {"", body.signer}, h.task \in {"", Task}
               PROVE  VerifyArtifact(h, id, held, body) = Passed
  BY DEF DeliveredIsAccepted
<1>2. /\ body.id = id /\ body.parts = made[id].parts /\ body.name = made[id].name
      /\ body # NoBody
  BY <1>1 DEF CompletedInv
<1>3. SameText(held.parts, made[id].parts) /\ held.name = made[id].name
  BY <1>1 DEF HeldInv
<1>4. Normalized(held.parts) = body.parts
  <2>1. /\ DOMAIN held.parts = 1..Len(held.parts)
        /\ body.parts = [i \in 1..Len(held.parts) |-> body.parts[i]]
    BY <1>2, <1>3 DEF SameText
  <2>. QED
    BY <1>2, <1>3, <2>1 DEF SameText, Normalized
<1>5. held.link # NoLink /\ held.link.form = "proper" /\ held.link.names = id
  <2>1. PICK link : link = [names |-> id, form |-> "proper"]
    OBVIOUS
  <2>2. held.link = link
    BY <1>1, <2>1
  <2>3. link.form = "proper" /\ link.names = id
    BY <2>1
  <2>4. NoLink.form = "none"
    BY DEF NoLink
  <2>. QED
    BY <2>2, <2>3, <2>4
<1>. DEFINE steps == StepsOf(h, id, held, body)
<1>6. DOMAIN steps = 1..10
  BY DEF StepsOf
<1>7. /\ steps[1].holds <=> (held.link # NoLink /\ held.link.form # "failed")
      /\ steps[2].holds <=> (body # NoBody /\ held.link.names = body.id)
      /\ steps[3].holds <=> body.signer \in h.trusts
      /\ steps[4].holds <=> h.card \in {"", body.signer}
      /\ steps[5].holds <=> (h.aid \in {"", body.signer} \/ ~Agents[body.signer])
      /\ steps[6].holds <=> held.link.form # "saltless"
      /\ steps[7].holds <=> SameParts(held.parts, body)
      /\ steps[8].holds <=> SameArtifact(id, body)
      /\ steps[9].holds <=> body.name \in {"", held.name}
      /\ steps[10].holds <=> h.task \in {"", Task}
  BY DEF StepsOf, Step
<1>8. \A i \in 1..10 : \/ i = 1 \/ i = 2 \/ i = 3 \/ i = 4 \/ i = 5 \/ i = 6 \/ i = 7 \/ i = 8
                       \/ i = 9 \/ i = 10
  OBVIOUS
<1>9. SameParts(held.parts, body) /\ SameArtifact(id, body) /\ body.name \in {"", held.name}
  BY <1>1, <1>2, <1>3, <1>4 DEF SameParts, SameArtifact
<1>. HIDE DEF steps
<1>10. /\ steps[1].holds /\ steps[2].holds /\ steps[3].holds /\ steps[4].holds /\ steps[5].holds
       /\ steps[6].holds /\ steps[7].holds /\ steps[8].holds /\ steps[9].holds /\ steps[10].holds
  BY <1>1, <1>2, <1>5, <1>7, <1>9
<1>11. \A i \in DOMAIN steps : steps[i].holds
  BY <1>6, <1>8, <1>10
<1>12. FirstFailure(steps) = Passed
  BY <1>11, AllMeansPassed
<1>. QED
  BY <1>2, <1>5, <1>12 DEF VerifyArtifact, steps

\* A holder accepts what an agent it trusts completed, whatever is lost, started again,
\* interleaved or linked wrongly, and all of it that arrives whole.
THEOREM HolderIsExact == ArtifactSpec => []ArtifactsAreExact
<1>1. ArtifactInit => CompletedInv /\ HeldInv
  BY InitArtifact, InitHeld
<1>2. CompletedInv /\ HeldInv /\ [ArtifactNext]_artifactVars => CompletedInv' /\ HeldInv'
  BY NextArtifact, NextArtifactHeld
<1>3. CompletedInv /\ HeldInv => ArtifactsAreExact
  BY AcceptedMeansCompleted, DeliveredMeansAccepted DEF ArtifactsAreExact
<1>. QED
  BY <1>1, <1>2, <1>3, PTL DEF ArtifactSpec

-----------------------------------------------------------------------------
(* The status of an artifact *)

\* What the holder has is a state of the body's that was, and what the feed says of an
\* event names its index.
Retrievals ==
  [events : 0..Len(events), superseded : BOOLEAN, by : Successors \cup {NoOne}]
Bundles == [events : 0..Len(events), held : BOOLEAN, successors : SUBSET Successors]
Facts == [kind : {"lifecycle", "superseded"}, index : Nat, by : Successors \cup {NoOne},
          genuine : BOOLEAN]
Indexed(e) == IF e.kind = "lifecycle" THEN e.index > 0 ELSE e.index = 0
StatusInv ==
  /\ events \in Seq({"retracted", "republished"}) /\ successors \subseteq Successors
  /\ retrieval \in Retrievals /\ bundle \in Bundles
  /\ bundle.events > 0 => bundle.held
  /\ feed \in Seq(Facts)
  /\ \A i \in 1..Len(feed) : Indexed(feed[i])

LEMMA InitStatus == StatusInit => StatusInv
<1>. SUFFICES ASSUME StatusInit PROVE StatusInv
  OBVIOUS
<1>1. /\ events = <<>> /\ successors = {} /\ feed = <<>>
      /\ retrieval = Retrieved(0, FALSE, NoOne) /\ bundle = Bundled(0, FALSE, {})
  BY DEF StatusInit
<1>2. Len(events) = 0 /\ 0 \in 0..Len(events)
  BY <1>1
<1>3. retrieval \in Retrievals
  BY <1>1, <1>2 DEF Retrieved, Retrievals
<1>4. bundle \in Bundles /\ ~(bundle.events > 0)
  BY <1>1, <1>2 DEF Bundled, Bundles
<1>5. events \in Seq({"retracted", "republished"}) /\ feed \in Seq(Facts)
  BY <1>1
<1>6. \A i \in 1..Len(feed) : Indexed(feed[i])
  <2>1. Len(feed) = 0 /\ 1..0 = {}
    BY <1>1
  <2>. QED
    BY <2>1
<1>. QED
  BY <1>1, <1>3, <1>4, <1>5, <1>6 DEF StatusInv

LEMMA NextStatus == StatusInv /\ [StatusNext]_statusVars => StatusInv'
<1>. SUFFICES ASSUME StatusInv, [StatusNext]_statusVars PROVE StatusInv'
  OBVIOUS
<1>1. Len(events) \in Nat /\ Len(events) \in 0..Len(events)
  BY DEF StatusInv
<1>2. ASSUME NEW type \in {"retracted", "republished"}, Happen(type) PROVE StatusInv'
  <2>1. /\ events' = Append(events, type)
        /\ successors' = successors /\ retrieval' = retrieval /\ bundle' = bundle /\ feed' = feed
    BY <1>2 DEF Happen
  <2>2. events' \in Seq({"retracted", "republished"}) /\ Len(events') = Len(events) + 1
    BY <2>1 DEF StatusInv
  <2>3. 0..Len(events) \subseteq 0..Len(events')
    BY <1>1, <2>2
  <2>4. Retrievals \subseteq Retrievals' /\ Bundles \subseteq Bundles'
    BY <2>3 DEF Retrievals, Bundles
  <2>. QED
    BY <2>1, <2>2, <2>4 DEF StatusInv
<1>3. ASSUME NEW version \in Successors, Supersede(version) PROVE StatusInv'
  BY <1>3 DEF Supersede, StatusInv, Retrievals, Bundles
<1>4. ASSUME NEW by \in successors \cup {NoOne}, Retrieve(by) PROVE StatusInv'
  <2>1. by \in Successors \cup {NoOne}
    BY DEF StatusInv
  <2>2. /\ retrieval' = Retrieved(Len(events), successors # {}, by)
        /\ events' = events /\ successors' = successors /\ bundle' = bundle /\ feed' = feed
    BY <1>4 DEF Retrieve
  <2>3. retrieval' \in Retrievals
    BY <1>1, <2>1, <2>2 DEF Retrieved, Retrievals
  <2>4. Retrievals' = Retrievals /\ Bundles' = Bundles
    BY <2>2 DEF Retrievals, Bundles
  <2>. QED
    BY <2>2, <2>3, <2>4 DEF StatusInv
<1>5. CASE Collect
  <2>1. /\ bundle' = Bundled(Len(events), TRUE, successors)
        /\ events' = events /\ successors' = successors /\ retrieval' = retrieval /\ feed' = feed
    BY <1>5 DEF Collect
  <2>2. bundle' \in Bundles /\ bundle'.held
    BY <1>1, <2>1 DEF Bundled, Bundles, StatusInv
  <2>3. Retrievals' = Retrievals /\ Bundles' = Bundles
    BY <2>1 DEF Retrievals, Bundles
  <2>. QED
    BY <2>1, <2>2, <2>3 DEF StatusInv
<1>6. ASSUME NEW entry \in Entries, Notify(entry) PROVE StatusInv'
  <2>1. /\ feed' = Append(feed, entry)
        /\ events' = events /\ successors' = successors /\ retrieval' = retrieval /\ bundle' = bundle
    BY <1>6 DEF Notify
  <2>2. DOMAIN events = 1..Len(events)
    BY DEF StatusInv
  <2>3. \/ \E i \in 1..Len(events), genuine \in BOOLEAN :
             entry = Entry("lifecycle", i, NoOne, genuine)
        \/ \E by \in Successors \cup {NoOne}, genuine \in BOOLEAN :
             entry = Entry("superseded", 0, by, genuine)
    <3>. DEFINE happened == {Entry("lifecycle", i, NoOne, genuine) :
                            i \in DOMAIN events, genuine \in BOOLEAN}
                replaced == {Entry("superseded", 0, version, TRUE) : version \in successors}
    <3>1. entry \in happened => \E i \in 1..Len(events), genuine \in BOOLEAN :
                                  entry = Entry("lifecycle", i, NoOne, genuine)
      BY <2>2
    <3>2. entry \in replaced => \E by \in Successors \cup {NoOne} :
                                  entry = Entry("superseded", 0, by, TRUE)
      BY DEF StatusInv
    <3>3. Entries = happened \cup replaced \cup {Entry("superseded", 0, NoOne, FALSE)}
      BY DEF Entries
    <3>. HIDE DEF happened, replaced
    <3>. QED
      BY <1>6, <3>1, <3>2, <3>3
  <2>4. entry \in Facts /\ Indexed(entry)
    <3>1. CASE \E i \in 1..Len(events), genuine \in BOOLEAN :
                 entry = Entry("lifecycle", i, NoOne, genuine)
      <4>1. PICK i \in 1..Len(events), genuine \in BOOLEAN :
                   entry = Entry("lifecycle", i, NoOne, genuine)
        BY <3>1
      <4>2. i \in Nat /\ i > 0
        OBVIOUS
      <4>. QED
        BY <4>1, <4>2 DEF Entry, Facts, Indexed
    <3>2. CASE \E by \in Successors \cup {NoOne}, genuine \in BOOLEAN :
                 entry = Entry("superseded", 0, by, genuine)
      BY <3>2 DEF Entry, Facts, Indexed
    <3>. QED
      BY <2>3, <3>1, <3>2
  <2>5. feed' \in Seq(Facts)
    BY <2>1, <2>4 DEF StatusInv
  <2>6. PICK k \in Nat : k = Len(feed)
    BY DEF StatusInv
  <2>7. ASSUME NEW i \in 1..Len(feed') PROVE Indexed(feed'[i])
    <3>1. Len(feed') = k + 1 /\ feed'[k + 1] = entry /\ \A n \in 1..k : feed'[n] = feed[n]
      BY <2>1, <2>6 DEF StatusInv
    <3>2. CASE i = k + 1
      BY <2>4, <3>1, <3>2
    <3>3. CASE i # k + 1
      <4>1. i \in 1..k
        BY <3>1, <3>3
      <4>. QED
        BY <2>6, <3>1, <4>1 DEF StatusInv
    <3>. QED
      BY <3>2, <3>3
  <2>8. Retrievals' = Retrievals /\ Bundles' = Bundles
    BY <2>1 DEF Retrievals, Bundles
  <2>. QED
    BY <2>1, <2>5, <2>7, <2>8 DEF StatusInv, Indexed
<1>7. CASE UNCHANGED statusVars
  BY <1>7 DEF statusVars, StatusInv, Retrievals, Bundles
<1>. QED
  BY <1>2, <1>3, <1>4, <1>5, <1>6, <1>7 DEF StatusNext

\* An accepted entry that names a later version.
Names(e) == EntryCounts(e) /\ e.kind # "lifecycle"

\* What the entries of a set make of the status, in whatever order, and who superseded it.
Summary(entries, by) ==
  [retraction |-> IF HasEvidence THEN FoldedFrom(View) ELSE "unsettled",
   superseded |-> retrieval.superseded \/ \E e \in entries : Names(e),
   by |-> by,
   rejected |-> {e \in entries : ~EntryCounts(e)}]

LEMMA ViewIs ==
  ASSUME StatusInv
  PROVE  View \in 0..Len(events) /\ (View > 0 => HasEvidence)
  BY DEF StatusInv, Retrievals, Bundles, View, HasEvidence

LEMMA SummaryGrows ==
  ASSUME StatusInv, NEW entries, NEW by, NEW e \in Facts, Indexed(e)
  PROVE  Applied(Summary(entries, by), e) =
           Summary(entries \cup {e}, IF Names(e) THEN e.by ELSE by)
<1>. DEFINE more == entries \cup {e}
            flag(es) == retrieval.superseded \/ \E d \in es : Names(d)
            out(es) == {d \in es : ~EntryCounts(d)}
            folded == IF HasEvidence THEN FoldedFrom(View) ELSE "unsettled"
<1>1. \A es, name : Summary(es, name) =
        [retraction |-> folded, superseded |-> flag(es), by |-> name, rejected |-> out(es)]
  BY DEF Summary
<1>2. CASE ~EntryCounts(e)
  <2>1. ~Names(e) /\ (flag(more) <=> flag(entries))
    BY <1>2 DEF Names
  <2>2. out(more) = out(entries) \cup {e}
    BY <1>2
  <2>3. Applied(Summary(entries, by), e) = [Summary(entries, by) EXCEPT !.rejected = @ \cup {e}]
    BY <1>2 DEF Applied
  <2>4. Applied(Summary(entries, by), e) =
          [retraction |-> folded, superseded |-> flag(entries), by |-> by,
           rejected |-> out(entries) \cup {e}]
    <3>. HIDE DEF folded, flag, out
    <3>. QED
      BY <1>1, <2>3
  <2>. HIDE DEF folded, out
  <2>. QED
    BY <1>1, <2>1, <2>2, <2>4
<1>3. CASE EntryCounts(e) /\ e.kind = "lifecycle"
  <2>1. ~Names(e) /\ (flag(more) <=> flag(entries))
    BY <1>3 DEF Names
  <2>2. out(more) = out(entries)
    BY <1>3
  <2>3. Applied(Summary(entries, by), e) =
          [Summary(entries, by) EXCEPT !.retraction = FoldedFrom(View)]
    BY <1>3 DEF Applied
  <2>4. FoldedFrom(View) = folded
    BY <1>3, ViewIs DEF EntryCounts, Facts, Indexed
  <2>5. Applied(Summary(entries, by), e) =
          [retraction |-> folded, superseded |-> flag(entries), by |-> by,
           rejected |-> out(entries)]
    <3>. HIDE DEF folded, flag, out
    <3>. QED
      BY <1>1, <2>3, <2>4
  <2>. HIDE DEF folded, out
  <2>. QED
    BY <1>1, <2>1, <2>2, <2>5
<1>4. CASE EntryCounts(e) /\ e.kind # "lifecycle"
  <2>1. Names(e) /\ flag(more)
    BY <1>4 DEF Names
  <2>2. out(more) = out(entries)
    BY <1>4
  <2>3. Applied(Summary(entries, by), e) =
          [Summary(entries, by) EXCEPT !.superseded = TRUE, !.by = e.by]
    BY <1>4 DEF Applied
  <2>4. Applied(Summary(entries, by), e) =
          [retraction |-> folded, superseded |-> TRUE, by |-> e.by, rejected |-> out(entries)]
    <3>. HIDE DEF folded, flag, out
    <3>. QED
      BY <1>1, <2>3
  <2>. HIDE DEF folded, out
  <2>. QED
    BY <1>1, <2>1, <2>2, <2>4
<1>. QED
  BY <1>2, <1>3, <1>4

LEMMA NoneHeard ==
  ASSUME StatusInv PROVE Unheard = Summary({}, retrieval.by)
<1>1. {e \in {} : ~EntryCounts(e)} = {} /\ ~(\E e \in {} : Names(e))
  OBVIOUS
<1>2. retrieval.superseded \in BOOLEAN
  BY DEF StatusInv, Retrievals
<1>3. (retrieval.superseded \/ \E e \in {} : Names(e)) = retrieval.superseded
  BY <1>1, <1>2
<1>. QED
  BY <1>1, <1>3 DEF Summary, Unheard

\* Who is named grows with the entries that name someone.
LEMMA NamedByGrows ==
  ASSUME NEW entries, NEW by \in NamedBy(entries), NEW e, e \in Facts
  PROVE  (IF Names(e) THEN e.by ELSE by) \in NamedBy(entries \cup {e})
<1>1. PICK naming : naming = Naming(entries)
  OBVIOUS
<1>2. PICK more : more = Naming(entries \cup {e})
  OBVIOUS
<1>3. by \in IF naming = {} THEN {retrieval.by} ELSE {d.by : d \in naming}
  BY <1>1 DEF NamedBy
<1>4. NamedBy(entries \cup {e}) = IF more = {} THEN {retrieval.by} ELSE {d.by : d \in more}
  BY <1>2 DEF NamedBy
<1>5. CASE Names(e)
  <2>1. e \in more
    BY <1>2, <1>5 DEF Names, Facts, Naming
  <2>2. e.by \in {d.by : d \in more}
    BY <2>1
  <2>. QED
    BY <1>4, <1>5, <2>1, <2>2
<1>6. CASE ~Names(e)
  <2>1. more = naming
    BY <1>1, <1>2, <1>6 DEF Names, Facts, Naming
  <2>. QED
    BY <1>3, <1>4, <1>6, <2>1
<1>. QED
  BY <1>5, <1>6

Folds(entries, k, g) ==
  g = [n \in 0..k |-> IF n = 0 THEN Unheard ELSE Applied(g[n - 1], entries[n])]
FirstOf(entries, k) == {entries[i] : i \in 1..k}

LEMMA FoldsExist ==
  ASSUME NEW entries, NEW k \in Nat PROVE \E g : Folds(entries, k, g)
<1>. DEFINE S == {n \in 0..k : \E g : Folds(entries, n, g)}
<1>1. 0 \in S
  <2>. DEFINE g == [n \in 0..0 |-> Unheard]
  <2>1. g = [n \in 0..0 |-> IF n = 0 THEN Unheard ELSE Applied(g[n - 1], entries[n])]
    <3>1. \A n \in 0..0 : n = 0
      OBVIOUS
    <3>. QED
      BY <3>1
  <2>2. Folds(entries, 0, g)
    BY <2>1 DEF Folds
  <2>. HIDE DEF g
  <2>. QED
    BY <2>2
<1>2. ASSUME NEW n \in 1..k, n - 1 \in S PROVE n \in S
  <2>1. PICK g : Folds(entries, n - 1, g)
    BY <1>2
  <2>. DEFINE more == [m \in 0..n |-> IF m = n THEN Applied(g[n - 1], entries[n]) ELSE g[m]]
  <2>2. \A m \in 0..(n - 1) : g[m] = IF m = 0 THEN Unheard ELSE Applied(g[m - 1], entries[m])
    BY <2>1 DEF Folds
  <2>3. ASSUME NEW m \in 0..n
        PROVE  more[m] = IF m = 0 THEN Unheard ELSE Applied(more[m - 1], entries[m])
    <3>1. CASE m = n
      <4>1. more[m] = Applied(g[n - 1], entries[n]) /\ more[n - 1] = g[n - 1] /\ m # 0
        BY <3>1
      <4>. HIDE DEF more
      <4>. QED
        BY <3>1, <4>1
    <3>2. CASE m # n
      <4>1. m \in 0..(n - 1) /\ more[m] = g[m]
        BY <3>2
      <4>2. m # 0 => more[m - 1] = g[m - 1]
        BY <4>1
      <4>. HIDE DEF more
      <4>. QED
        BY <2>2, <4>1, <4>2
    <3>. QED
      BY <3>1, <3>2
  <2>4. more = [m \in 0..n |-> IF m = 0 THEN Unheard ELSE Applied(more[m - 1], entries[m])]
    <3>1. more = [m \in 0..n |-> more[m]]
      OBVIOUS
    <3>. HIDE DEF more
    <3>. QED
      BY <2>3, <3>1
  <2>5. Folds(entries, n, more) /\ n \in 0..k
    <3>. HIDE DEF more
    <3>. QED
      BY <2>4 DEF Folds
  <2>. HIDE DEF more
  <2>. QED
    BY <2>5
<1>3. 0..k \subseteq S
  <2>. HIDE DEF S
  <2>. QED
    BY <1>1, <1>2, UpToAll
<1>4. k \in 0..k
  OBVIOUS
<1>. QED
  BY <1>3, <1>4

LEMMA SummaryFolds ==
  ASSUME StatusInv, NEW entries, NEW k \in Nat,
         \A i \in 1..k : entries[i] \in Facts /\ Indexed(entries[i]),
         NEW g, Folds(entries, k, g)
  PROVE  \E by \in NamedBy(FirstOf(entries, k)) : g[k] = Summary(FirstOf(entries, k), by)
<1>. DEFINE alike == {n \in 0..k : \E by \in NamedBy(FirstOf(entries, n)) :
                                     g[n] = Summary(FirstOf(entries, n), by)}
<1>1. /\ g[0] = Unheard
      /\ \A n \in 1..k : g[n] = Applied(g[n - 1], entries[n])
  BY DEF Folds
<1>2. 0 \in alike
  <2>1. FirstOf(entries, 0) = {}
    BY DEF FirstOf
  <2>2. retrieval.by \in NamedBy({})
    BY DEF NamedBy, Naming
  <2>. QED
    BY <1>1, <2>1, <2>2, NoneHeard
<1>3. ASSUME NEW n \in 1..k, n - 1 \in alike PROVE n \in alike
  <2>1. PICK by \in NamedBy(FirstOf(entries, n - 1)) :
               g[n - 1] = Summary(FirstOf(entries, n - 1), by)
    BY <1>3
  <2>2. FirstOf(entries, n) = FirstOf(entries, n - 1) \cup {entries[n]}
    <3>1. 1..n = (1..(n - 1)) \cup {n}
      OBVIOUS
    <3>. QED
      BY <3>1 DEF FirstOf
  <2>3. g[n] = Summary(FirstOf(entries, n), IF Names(entries[n]) THEN entries[n].by ELSE by)
    <3>1. PICK e \in Facts : e = entries[n] /\ Indexed(e)
      OBVIOUS
    <3>2. PICK es : es = FirstOf(entries, n - 1)
      OBVIOUS
    <3>3. Applied(Summary(es, by), e) = Summary(es \cup {e}, IF Names(e) THEN e.by ELSE by)
      BY <3>1, SummaryGrows
    <3>4. g[n] = Applied(Summary(es, by), e) /\ FirstOf(entries, n) = es \cup {e}
      BY <1>1, <2>1, <2>2, <3>1, <3>2
    <3>. QED
      BY <3>1, <3>3, <3>4
  <2>4. (IF Names(entries[n]) THEN entries[n].by ELSE by) \in NamedBy(FirstOf(entries, n))
    BY <2>2, NamedByGrows
  <2>. QED
    BY <2>3, <2>4
<1>4. 0..k \subseteq alike
  <2>. HIDE DEF alike
  <2>. QED
    BY <1>2, <1>3, UpToAll
<1>5. k \in 0..k
  OBVIOUS
<1>. QED
  BY <1>4, <1>5

\* A call that is made with evidence, or without entries, says what all its entries make.
LEMMA StatusIs ==
  ASSUME StatusInv, NEW entries, Len(entries) \in Nat,
         \A i \in 1..Len(entries) : entries[i] \in Facts /\ Indexed(entries[i])
  PROVE  IF entries # <<>> /\ ~HasEvidence
         THEN Status(entries) = [Unheard EXCEPT !.retraction = "refused"]
         ELSE \E by \in NamedBy(FirstOf(entries, Len(entries))) :
                Status(entries) = Summary(FirstOf(entries, Len(entries)), by)
<1>. DEFINE k == Len(entries)
            chosen == CHOOSE g : Folds(entries, k, g)
<1>1. Folds(entries, k, chosen)
  BY FoldsExist
<1>2. Status(entries) = IF entries # <<>> /\ ~HasEvidence
                        THEN [Unheard EXCEPT !.retraction = "refused"] ELSE chosen[k]
  BY DEF Status, Folds
<1>3. \E by \in NamedBy(FirstOf(entries, k)) : chosen[k] = Summary(FirstOf(entries, k), by)
  <2>. HIDE DEF chosen
  <2>. QED
    BY <1>1, SummaryFolds
<1>. HIDE DEF chosen
<1>. QED
  BY <1>2, <1>3

\* What is said of the entries of a sequence is said of their set, but for who is named.
LEMMA StatusOfSet ==
  ASSUME StatusInv, NEW k \in Nat, NEW entries \in [1..k -> Facts],
         \A i \in 1..k : Indexed(entries[i])
  PROVE  /\ But(Status(entries)) =
              IF k # 0 /\ ~HasEvidence
              THEN But([Unheard EXCEPT !.retraction = "refused"])
              ELSE Summary(Range(entries), NoOne)
         /\ Status(entries).by \in IF HasEvidence THEN NamedBy(Range(entries)) ELSE {retrieval.by}
<1>1. entries \in Seq(Facts) /\ Len(entries) = k /\ DOMAIN entries = 1..k
  OBVIOUS
<1>2. Range(entries) = FirstOf(entries, k)
  BY <1>1 DEF Range, FirstOf
<1>3. (entries # <<>>) <=> k # 0
  BY <1>1
<1>4. CASE k # 0 /\ ~HasEvidence
  <2>1. Status(entries) = [Unheard EXCEPT !.retraction = "refused"]
    BY <1>1, <1>3, <1>4, StatusIs
  <2>2. [Unheard EXCEPT !.retraction = "refused"].by = retrieval.by
    BY DEF Unheard
  <2>. QED
    BY <1>4, <2>1, <2>2
<1>5. CASE ~(k # 0 /\ ~HasEvidence)
  <2>1. PICK by \in NamedBy(Range(entries)) : Status(entries) = Summary(Range(entries), by)
    BY <1>1, <1>2, <1>3, <1>5, StatusIs
  <2>2. But(Summary(Range(entries), by)) = Summary(Range(entries), NoOne)
    <3>. DEFINE folded == IF HasEvidence THEN FoldedFrom(View) ELSE "unsettled"
                flag == retrieval.superseded \/ \E e \in Range(entries) : Names(e)
                out == {e \in Range(entries) : ~EntryCounts(e)}
    <3>1. \A name : Summary(Range(entries), name) =
            [retraction |-> folded, superseded |-> flag, by |-> name, rejected |-> out]
      BY DEF Summary
    <3>. HIDE DEF folded, flag, out
    <3>. QED
      BY <3>1 DEF But
  <2>3. Summary(Range(entries), by).by = by
    BY DEF Summary
  <2>4. k = 0 => NamedBy(Range(entries)) = {retrieval.by}
    <3>1. ASSUME k = 0 PROVE Range(entries) = {}
      BY <1>2, <3>1 DEF FirstOf
    <3>2. NamedBy({}) = {retrieval.by}
      BY DEF NamedBy, Naming
    <3>. QED
      BY <3>1, <3>2
  <2>. QED
    BY <1>5, <2>1, <2>2, <2>3, <2>4
<1>. QED
  BY <1>4, <1>5

\* What the feed says of an artifact says the same in any order and however often, but
\* for which of the later versions it is told of it names; and nothing older than the
\* events it accepts.
THEOREM OrderIsNothing == StatusSpec => []StatusIsUnordered
<1>1. StatusInv => StatusIsUnordered
  <2>. SUFFICES ASSUME StatusInv PROVE StatusIsUnordered
    OBVIOUS
  <2>1. PICK k \in Nat : k = Len(feed)
    BY DEF StatusInv
  <2>2. /\ DOMAIN feed = 1..k /\ feed \in [1..k -> Facts]
        /\ \A i \in 1..k : feed[i] \in Facts /\ Indexed(feed[i])
    BY <2>1 DEF StatusInv
  <2>3. Range(feed) = FirstOf(feed, k)
    BY <2>2 DEF Range, FirstOf
  <2>4. But(Status(feed)) = IF k # 0 /\ ~HasEvidence
                            THEN But([Unheard EXCEPT !.retraction = "refused"])
                            ELSE Summary(Range(feed), NoOne)
    BY <2>2, StatusOfSet
  <2>5. ASSUME NEW n \in 0..(Len(feed) + 1), NEW other \in [1..n -> Range(feed)],
               Range(other) = Range(feed)
        PROVE  /\ But(Status(other)) = But(Status(feed))
               /\ Status(other).by \in IF HasEvidence THEN NamedBy(Range(feed)) ELSE {retrieval.by}
    <3>1. n \in Nat /\ other \in [1..n -> Facts]
      BY <2>1, <2>2, <2>3 DEF FirstOf
    <3>2. \A i \in 1..n : Indexed(other[i])
      <4>1. \A i \in 1..n : \E m \in 1..k : other[i] = feed[m]
        BY <2>3 DEF FirstOf
      <4>. QED
        BY <2>2, <4>1
    <3>3. n # 0 <=> k # 0
      <4>1. Range(other) = {} <=> n = 0
        BY <3>1 DEF Range
      <4>2. Range(feed) = {} <=> k = 0
        BY <2>2 DEF Range
      <4>. QED
        BY <2>5, <4>1, <4>2
    <3>4. /\ But(Status(other)) =
               IF n # 0 /\ ~HasEvidence
               THEN But([Unheard EXCEPT !.retraction = "refused"])
               ELSE Summary(Range(other), NoOne)
          /\ Status(other).by \in IF HasEvidence THEN NamedBy(Range(other)) ELSE {retrieval.by}
      BY <3>1, <3>2, StatusOfSet
    <3>. QED
      BY <2>4, <2>5, <3>3, <3>4
  <2>6. \E n \in 0..Len(events) :
          /\ Status(feed).retraction \in {FoldedFrom(n), "unsettled", "refused"}
          /\ \A entry \in Range(feed) \ Status(feed).rejected : HasEvidence => entry.index <= n
    <3>1. View \in 0..Len(events)
      BY ViewIs
    <3>2. Len(feed) \in Nat /\ \A i \in 1..Len(feed) : feed[i] \in Facts /\ Indexed(feed[i])
      BY <2>1, <2>2
    <3>3. CASE feed # <<>> /\ ~HasEvidence
      <4>1. Status(feed) = [Unheard EXCEPT !.retraction = "refused"]
        BY <3>2, <3>3, StatusIs
      <4>2. [Unheard EXCEPT !.retraction = "refused"].retraction = "refused"
        BY DEF Unheard
      <4>. QED
        BY <3>1, <3>3, <4>1, <4>2
    <3>4. CASE ~(feed # <<>> /\ ~HasEvidence)
      <4>1. PICK by : Status(feed) = Summary(Range(feed), by)
        BY <2>1, <2>3, <3>2, <3>4, StatusIs
      <4>2. Status(feed).retraction \in {FoldedFrom(View), "unsettled"}
        BY <4>1 DEF Summary
      <4>3. Status(feed).rejected = {e \in Range(feed) : ~EntryCounts(e)}
        BY <4>1 DEF Summary
      <4>4. ASSUME NEW entry \in Range(feed) \ Status(feed).rejected PROVE entry.index <= View
        <5>1. EntryCounts(entry)
          BY <4>3, <4>4
        <5>2. PICK i \in 1..k : entry = feed[i]
          BY <2>3, <4>4 DEF FirstOf
        <5>3. entry \in Facts /\ Indexed(entry)
          BY <2>2, <5>2
        <5>. QED
          BY <3>1, <5>1, <5>3 DEF EntryCounts, Facts, Indexed
      <4>. QED
        BY <3>1, <4>2, <4>4
    <3>. QED
      BY <3>3, <3>4
  <2>. QED
    BY <2>5, <2>6 DEF StatusIsUnordered
<1>. QED
  BY <1>1, InitStatus, NextStatus, PTL DEF StatusSpec

-----------------------------------------------------------------------------
(* Seam decisions *)

\* What comes after the first byte is found after it.
LEMMA FirstByte ==
  ASSUME NEW byte \in Nat, NEW rest \in Seq(Nat)
  PROVE  /\ <<byte>> \o rest \in Seq(Nat) /\ Len(<<byte>> \o rest) = Len(rest) + 1
         /\ (<<byte>> \o rest)[1] = byte
         /\ \A i \in 1..Len(rest) : (<<byte>> \o rest)[i + 1] = rest[i]
<1>1. <<byte>> \in Seq(Nat) /\ Len(<<byte>>) = 1 /\ <<byte>>[1] = byte
  OBVIOUS
<1>2. PICK one \in Seq(Nat) : one = <<byte>>
  BY <1>1
<1>3. /\ one \o rest \in Seq(Nat) /\ Len(one \o rest) = Len(one) + Len(rest)
      /\ \A i \in 1..(Len(one) + Len(rest)) :
           (one \o rest)[i] = IF i <= Len(one) THEN one[i] ELSE rest[i - Len(one)]
  BY ConcatProperties
<1>4. Len(one) = 1 /\ one[1] = byte /\ Len(rest) \in Nat
  BY <1>1, <1>2
<1>5. 1 \in 1..(Len(one) + Len(rest)) /\ 1 <= Len(one)
  BY <1>4
<1>6. (one \o rest)[1] = byte
  BY <1>3, <1>4, <1>5
<1>7. ASSUME NEW i \in 1..Len(rest) PROVE (one \o rest)[i + 1] = rest[i]
  <2>1. i + 1 \in 1..(Len(one) + Len(rest)) /\ ~(i + 1 <= Len(one)) /\ (i + 1) - Len(one) = i
    BY <1>4
  <2>. QED
    BY <1>3, <2>1
<1>8. Len(one \o rest) = Len(rest) + 1
  BY <1>3, <1>4
<1>. QED
  BY <1>2, <1>3, <1>6, <1>7, <1>8

Behind(byte, rest) == <<byte>> \o rest
LEMMA SameFirstByte ==
  ASSUME NEW a \in Nat, NEW b \in Nat, NEW r \in Seq(Nat), NEW s \in Seq(Nat),
         Behind(a, r) = Behind(b, s)
  PROVE  a = b /\ r = s
<1>1. a = b
  BY FirstByte DEF Behind
<1>2. Len(r) = Len(s)
  <2>1. Len(r) + 1 = Len(s) + 1 /\ Len(r) \in Nat /\ Len(s) \in Nat
    BY FirstByte DEF Behind
  <2>. QED
    BY <2>1
<1>3. \A i \in 1..Len(r) : r[i] = s[i]
  BY <1>2, FirstByte DEF Behind
<1>. QED
  BY <1>1, <1>2, <1>3, SeqEqual

\* The first byte is not told from what comes next by where the brackets are.
LEMMA BehindBoth ==
  ASSUME NEW byte \in Nat, NEW a \in Seq(Nat), NEW r \in Seq(Nat)
  PROVE  Behind(byte, a) \o r = Behind(byte, a \o r)
<1>1. PICK one \in Seq(Nat) : one = <<byte>>
  <2>1. <<byte>> \in Seq(Nat)
    OBVIOUS
  <2>. QED
    BY <2>1
<1>2. (one \o a) \o r = one \o (a \o r)
  BY ConcatAssociative
<1>. QED
  BY <1>1, <1>2 DEF Behind

\* Sequences of one length that begin the same bytes are the same, and so is the rest.
LEMMA SameLength ==
  ASSUME NEW a \in Seq(Nat), NEW b \in Seq(Nat), NEW r \in Seq(Nat), NEW s \in Seq(Nat),
         Len(a) = Len(b), a \o r = b \o s
  PROVE  a = b /\ r = s
<1>1. PICK n \in Nat : n = Len(a) /\ n = Len(b)
  OBVIOUS
<1>2. PICK k \in Nat, m \in Nat : k = Len(r) /\ m = Len(s)
  OBVIOUS
<1>3. /\ Len(a \o r) = n + k
      /\ \A i \in 1..(n + k) : (a \o r)[i] = IF i <= n THEN a[i] ELSE r[i - n]
  BY <1>1, <1>2, ConcatProperties
<1>4. /\ Len(b \o s) = n + m
      /\ \A i \in 1..(n + m) : (b \o s)[i] = IF i <= n THEN b[i] ELSE s[i - n]
  BY <1>1, <1>2, ConcatProperties
<1>5. k = m
  BY <1>3, <1>4
<1>6. \A i \in 1..n : a[i] = b[i]
  <2>1. ASSUME NEW i \in 1..n PROVE a[i] = b[i]
    <3>1. i \in 1..(n + k) /\ i <= n
      OBVIOUS
    <3>. QED
      BY <1>3, <1>4, <1>5, <3>1
  <2>. QED
    BY <2>1
<1>7. \A i \in 1..k : r[i] = s[i]
  <2>1. ASSUME NEW i \in 1..k PROVE r[i] = s[i]
    <3>1. n + i \in 1..(n + k) /\ ~(n + i <= n) /\ (n + i) - n = i
      OBVIOUS
    <3>. QED
      BY <1>3, <1>4, <1>5, <3>1
  <2>. QED
    BY <2>1
<1>. QED
  BY <1>1, <1>2, <1>5, <1>6, <1>7, SeqEqual

LEMMA FrameType ==
  ASSUME NEW a \in Seq(Nat)
  PROVE  Frame(a) \in Seq(Nat) /\ Len(Frame(a)) = Len(a) + 1 /\ Frame(a)[1] = Len(a)
<1>1. Len(a) \in Nat
  OBVIOUS
<1>. QED
  BY <1>1, FirstByte DEF Frame

\* A frame is read back from the bytes it begins.
Framed(bytes, rest) == Frame(bytes) \o rest
LEMMA SameFrame ==
  ASSUME NEW a \in Seq(Nat), NEW b \in Seq(Nat), NEW r \in Seq(Nat), NEW s \in Seq(Nat),
         Framed(a, r) = Framed(b, s)
  PROVE  a = b /\ r = s
<1>1. PICK n \in Nat, m \in Nat : n = Len(a) /\ m = Len(b)
  OBVIOUS
<1>2. Frame(a) = Behind(n, a) /\ Frame(b) = Behind(m, b)
  BY <1>1 DEF Frame, Behind
<1>3. PICK u \in Seq(Nat), v \in Seq(Nat) : u = a \o r /\ v = b \o s
  BY ConcatProperties
<1>4. Behind(n, u) = Behind(m, v)
  <2>1. Behind(n, a) \o r = Behind(n, a \o r)
    BY BehindBoth
  <2>2. Behind(m, b) \o s = Behind(m, b \o s)
    BY BehindBoth
  <2>. QED
    BY <1>2, <1>3, <2>1, <2>2 DEF Framed
<1>5. n = m /\ u = v
  BY <1>4, SameFirstByte
<1>. QED
  BY <1>1, <1>3, <1>5, SameLength

LEMMA OptType ==
  ASSUME NEW x \in Strings \cup {Absent}
  PROVE  Opt(x) \in Seq(Nat)
<1>1. CASE x = Absent
  BY <1>1 DEF Opt
<1>2. CASE x \in Strings
  <2>1. x # Absent /\ Frame(x) \in Seq(Nat)
    BY <1>2, StringsAssumption, FrameType
  <2>. QED
    BY <2>1, FirstByte DEF Opt
<1>. QED
  BY <1>1, <1>2

OptSlot == Strings \cup {Absent}
Opted(slot, rest) == Opt(slot) \o rest
LEMMA OptThen ==
  ASSUME NEW x \in Strings \cup {Absent}, NEW r \in Seq(Nat)
  PROVE  \E flag \in Nat, q \in Seq(Nat) :
           /\ Opted(x, r) = Behind(flag, q)
           /\ x = Absent => flag = 0 /\ q = r
           /\ x # Absent => flag = 1 /\ q = Framed(x, r)
<1>1. CASE x = Absent
  BY <1>1 DEF Opt, Behind, Opted
<1>2. CASE x # Absent
  <2>1. x \in Seq(Nat) /\ Frame(x) \in Seq(Nat)
    BY <1>2, StringsAssumption, FrameType
  <2>2. PICK q \in Seq(Nat) : q = Framed(x, r)
    BY <2>1, ConcatProperties DEF Framed
  <2>3. Opt(x) = Behind(1, Frame(x))
    BY <1>2 DEF Opt, Behind
  <2>4. Behind(1, Frame(x)) \o r = Behind(1, Frame(x) \o r)
    BY <2>1, BehindBoth
  <2>5. Opted(x, r) = Behind(1, q)
    BY <2>2, <2>3, <2>4 DEF Framed, Opted
  <2>. QED
    BY <1>2, <2>2, <2>5
<1>. QED
  BY <1>1, <1>2

\* So is a slot that may be absent.
LEMMA SameOpt ==
  ASSUME NEW x \in OptSlot, NEW y \in OptSlot,
         NEW r \in Seq(Nat), NEW s \in Seq(Nat), Opted(x, r) = Opted(y, s)
  PROVE  x = y /\ r = s
<1>1. PICK flag \in Nat, q \in Seq(Nat) :
        /\ Opted(x, r) = Behind(flag, q)
        /\ x = Absent => flag = 0 /\ q = r
        /\ x # Absent => flag = 1 /\ q = Framed(x, r)
  BY OptThen DEF OptSlot
<1>2. PICK mark \in Nat, p \in Seq(Nat) :
        /\ Opted(y, s) = Behind(mark, p)
        /\ y = Absent => mark = 0 /\ p = s
        /\ y # Absent => mark = 1 /\ p = Framed(y, s)
  BY OptThen DEF OptSlot
<1>3. flag = mark /\ q = p
  <2>1. Behind(flag, q) = Behind(mark, p)
    BY <1>1, <1>2
  <2>. QED
    BY <2>1, SameFirstByte
<1>4. CASE x = Absent
  BY <1>1, <1>2, <1>3, <1>4
<1>5. CASE x # Absent
  <2>1. y # Absent /\ Framed(x, r) = Framed(y, s)
    <3>1. y # Absent
      BY <1>1, <1>2, <1>3, <1>5
    <3>. QED
      BY <1>1, <1>2, <1>3, <1>5, <3>1
  <2>2. x \in Seq(Nat) /\ y \in Seq(Nat)
    BY <1>5, <2>1, StringsAssumption DEF OptSlot
  <2>. QED
    BY <2>1, <2>2, SameFrame
<1>. QED
  BY <1>4, <1>5

\* No two records have the same preimage.
Slots == [id : Strings, outcome : Strings, mode : Strings \cup {Absent},
          supersedes : Strings \cup {Absent}, participants_digest : Nat]

Joins(a, b, ab) == ab = a \o b
LEMMA Associates ==
  ASSUME NEW a \in Seq(Nat), NEW b \in Seq(Nat), NEW c \in Seq(Nat)
  PROVE  (a \o b) \o c = a \o (b \o c)
BY ConcatAssociative

LEMMA Regroup ==
  ASSUME NEW a \in Seq(Nat), NEW b \in Seq(Nat), NEW c \in Seq(Nat),
         NEW ab \in Seq(Nat), NEW bc \in Seq(Nat), NEW abc,
         Joins(a, b, ab), Joins(b, c, bc), Joins(ab, c, abc)
  PROVE  Joins(a, bc, abc)
<1>1. (a \o b) \o c = a \o (b \o c)
  BY Associates
<1>2. abc = (a \o b) \o c /\ bc = b \o c
  BY DEF Joins
<1>. QED
  BY <1>1, <1>2 DEF Joins

\* The preimage read from its first slot on.
LEMMA PreimageIs ==
  ASSUME NEW d \in Slots
  PROVE  \E third \in Seq(Nat), second \in Seq(Nat), first \in Seq(Nat), last \in Seq(Nat), rest \in Seq(Nat) :
           /\ Preimage(d) = Framed(d.id, first) /\ first = Framed(d.outcome, second)
           /\ second = Opted(d.mode, third) /\ third = Opted(d.supersedes, rest)
           /\ rest = Framed(<<d.participants_digest>>, last) /\ last = Frame(<<SupportedVersion>>)
<1>1. PICK a \in Seq(Nat) : a = Frame(d.id)
  BY FrameType, StringsAssumption DEF Slots
<1>2. PICK b \in Seq(Nat) : b = Frame(d.outcome)
  BY FrameType, StringsAssumption DEF Slots
<1>3. PICK c \in Seq(Nat) : c = Opt(d.mode)
  BY OptType DEF Slots
<1>4. PICK e \in Seq(Nat) : e = Opt(d.supersedes)
  BY OptType DEF Slots
<1>5. PICK f \in Seq(Nat) : f = Frame(<<d.participants_digest>>)
  <2>1. PICK digest \in Seq(Nat) : digest = <<d.participants_digest>>
    <3>1. d.participants_digest \in Nat
      BY DEF Slots
    <3>2. <<d.participants_digest>> \in Seq(Nat)
      BY <3>1
    <3>. QED
      BY <3>2
  <2>. QED
    BY <2>1, FrameType
<1>6. PICK g \in Seq(Nat) : g = Frame(<<SupportedVersion>>)
  <2>1. PICK version \in Seq(Nat) : version = <<SupportedVersion>>
    <3>1. <<4>> \in Seq(Nat)
      OBVIOUS
    <3>. QED
      BY <3>1 DEF SupportedVersion
  <2>. QED
    BY <2>1, FrameType
<1>7. \A x, y \in Seq(Nat) : \E z \in Seq(Nat) : Joins(x, y, z)
  BY ConcatProperties DEF Joins
<1>8. PICK fg \in Seq(Nat) : Joins(f, g, fg)
  BY <1>7
<1>9. PICK efg \in Seq(Nat) : Joins(e, fg, efg)
  BY <1>7
<1>10. PICK cefg \in Seq(Nat) : Joins(c, efg, cefg)
  BY <1>7
<1>11. PICK bcefg \in Seq(Nat) : Joins(b, cefg, bcefg)
  BY <1>7
<1>12. PICK ab \in Seq(Nat) : Joins(a, b, ab)
  BY <1>7
<1>13. PICK abc \in Seq(Nat) : Joins(ab, c, abc)
  BY <1>7
<1>14. PICK abce \in Seq(Nat) : Joins(abc, e, abce)
  BY <1>7
<1>15. PICK abcef \in Seq(Nat) : Joins(abce, f, abcef)
  BY <1>7
<1>16. PICK all \in Seq(Nat) : Joins(abcef, g, all)
  BY <1>7
<1>17. Joins(abce, fg, all)
  BY <1>8, <1>15, <1>16, Regroup
<1>18. Joins(abc, efg, all)
  BY <1>9, <1>14, <1>17, Regroup
<1>19. Joins(ab, cefg, all)
  BY <1>10, <1>13, <1>18, Regroup
<1>20. Joins(a, bcefg, all)
  BY <1>11, <1>12, <1>19, Regroup
<1>21. Preimage(d) = all
  <2>1. all = ((((a \o b) \o c) \o e) \o f) \o g
    BY <1>12, <1>13, <1>14, <1>15, <1>16 DEF Joins
  <2>. QED
    BY <1>1, <1>2, <1>3, <1>4, <1>5, <1>6, <2>1 DEF Preimage
<1>22. /\ all = Framed(d.id, bcefg) /\ bcefg = Framed(d.outcome, cefg)
       /\ cefg = Opted(d.mode, efg) /\ efg = Opted(d.supersedes, fg)
       /\ fg = Framed(<<d.participants_digest>>, g)
  BY <1>1, <1>2, <1>3, <1>4, <1>5, <1>8, <1>9, <1>10, <1>11, <1>20 DEF Framed, Opted, Joins
<1>. QED
  BY <1>6, <1>21, <1>22

LEMMA PreimageTells ==
  ASSUME NEW d \in Slots, NEW o \in Slots, Preimage(d) = Preimage(o)
  PROVE  d = o
<1>1. PICK third \in Seq(Nat), second \in Seq(Nat), first \in Seq(Nat), last \in Seq(Nat), rest \in Seq(Nat) :
        /\ Preimage(d) = Framed(d.id, first) /\ first = Framed(d.outcome, second)
        /\ second = Opted(d.mode, third) /\ third = Opted(d.supersedes, rest)
        /\ rest = Framed(<<d.participants_digest>>, last) /\ last = Frame(<<SupportedVersion>>)
  BY PreimageIs
<1>2. PICK third2 \in Seq(Nat), second2 \in Seq(Nat), first2 \in Seq(Nat), last2 \in Seq(Nat), rest2 \in Seq(Nat) :
        /\ Preimage(o) = Framed(o.id, first2) /\ first2 = Framed(o.outcome, second2)
        /\ second2 = Opted(o.mode, third2) /\ third2 = Opted(o.supersedes, rest2)
        /\ rest2 = Framed(<<o.participants_digest>>, last2) /\ last2 = Frame(<<SupportedVersion>>)
  BY PreimageIs
<1>3. /\ d.id \in Seq(Nat) /\ o.id \in Seq(Nat) /\ d.outcome \in Seq(Nat) /\ o.outcome \in Seq(Nat)
      /\ d.mode \in Strings \cup {Absent} /\ o.mode \in Strings \cup {Absent}
      /\ d.supersedes \in Strings \cup {Absent} /\ o.supersedes \in Strings \cup {Absent}
      /\ d.participants_digest \in Nat /\ o.participants_digest \in Nat
  BY StringsAssumption DEF Slots
<1>4. d.id = o.id /\ first = first2
  <2>1. PICK x \in Seq(Nat), y \in Seq(Nat) : x = d.id /\ y = o.id
    BY <1>3
  <2>2. Framed(x, first) = Framed(y, first2)
    BY <1>1, <1>2, <2>1
  <2>. QED
    BY <2>1, <2>2, SameFrame
<1>5. d.outcome = o.outcome /\ second = second2
  <2>1. PICK x \in Seq(Nat), y \in Seq(Nat) : x = d.outcome /\ y = o.outcome
    BY <1>3
  <2>2. Framed(x, second) = Framed(y, second2)
    BY <1>1, <1>2, <1>4, <2>1
  <2>. QED
    BY <2>1, <2>2, SameFrame
<1>6. d.mode = o.mode /\ third = third2
  <2>1. PICK x \in OptSlot, y \in OptSlot : x = d.mode /\ y = o.mode
    BY <1>3 DEF OptSlot
  <2>2. Opted(x, third) = Opted(y, third2)
    BY <1>1, <1>2, <1>5, <2>1
  <2>. QED
    BY <2>1, <2>2, SameOpt
<1>7. d.supersedes = o.supersedes /\ rest = rest2
  <2>1. PICK x \in OptSlot, y \in OptSlot :
          x = d.supersedes /\ y = o.supersedes
    BY <1>3 DEF OptSlot
  <2>2. Opted(x, rest) = Opted(y, rest2)
    BY <1>1, <1>2, <1>6, <2>1
  <2>. QED
    BY <2>1, <2>2, SameOpt
<1>8. d.participants_digest = o.participants_digest
  <2>1. PICK one \in Seq(Nat), other \in Seq(Nat) :
          one = <<d.participants_digest>> /\ other = <<o.participants_digest>>
    <3>1. <<d.participants_digest>> \in Seq(Nat) /\ <<o.participants_digest>> \in Seq(Nat)
      BY <1>3
    <3>. QED
      BY <3>1
  <2>2. Framed(one, last) = Framed(other, last2)
    BY <1>1, <1>2, <1>7, <2>1
  <2>3. one = other
    BY <2>2, SameFrame
  <2>4. one[1] = d.participants_digest /\ other[1] = o.participants_digest
    BY <2>1
  <2>. QED
    BY <2>3, <2>4
<1>9. \A e \in Slots : e = [id |-> e.id, outcome |-> e.outcome, mode |-> e.mode,
                            supersedes |-> e.supersedes, participants_digest |-> e.participants_digest]
  BY DEF Slots
<1>. QED
  BY <1>4, <1>5, <1>6, <1>7, <1>8, <1>9

\* What is hashed of participants up to the m-th of them.
BytesUpTo(ids, m, g) ==
  g = [n \in 0..m |-> IF n = 0 THEN <<Len(ids)>> ELSE g[n - 1] \o Frame(ids[n])]
LEMMA SomeBytes ==
  ASSUME NEW ids, NEW k \in Nat
  PROVE  \E g : BytesUpTo(ids, k, g)
<1>. DEFINE fine == {m \in Nat : \E g : BytesUpTo(ids, m, g)}
<1>1. 0 \in fine
  <2>. DEFINE g == [n \in 0..0 |-> <<Len(ids)>>]
  <2>1. g = [n \in 0..0 |-> IF n = 0 THEN <<Len(ids)>> ELSE g[n - 1] \o Frame(ids[n])]
    OBVIOUS
  <2>. HIDE DEF g
  <2>2. BytesUpTo(ids, 0, g)
    BY <2>1 DEF BytesUpTo
  <2>. QED
    BY <2>2
<1>2. ASSUME NEW m \in Nat, m \in fine PROVE m + 1 \in fine
  <2>1. PICK g : BytesUpTo(ids, m, g)
    BY <1>2
  <2>2. /\ g[0] = <<Len(ids)>>
        /\ \A n \in 1..m : g[n] = g[n - 1] \o Frame(ids[n])
    BY <2>1 DEF BytesUpTo
  <2>. DEFINE h == [n \in 0..(m + 1) |-> IF n <= m THEN g[n] ELSE g[m] \o Frame(ids[m + 1])]
              next == [n \in 0..(m + 1) |-> IF n = 0 THEN <<Len(ids)>> ELSE h[n - 1] \o Frame(ids[n])]
  <2>3. ASSUME NEW n \in 0..(m + 1) PROVE h[n] = next[n]
    <3>1. CASE n = 0
      BY <2>2, <3>1
    <3>2. CASE n \in 1..m
      <4>1. n - 1 \in 0..(m + 1) /\ n - 1 <= m /\ n <= m /\ n # 0
        BY <3>2
      <4>. QED
        BY <2>2, <3>2, <4>1
    <3>3. CASE n = m + 1
      <4>1. n - 1 = m /\ m \in 0..(m + 1) /\ m <= m /\ ~(n <= m) /\ n # 0
        BY <3>3
      <4>. QED
        BY <3>3, <4>1
    <3>. QED
      BY <3>1, <3>2, <3>3
  <2>4. h = next
    <3>1. DOMAIN h = DOMAIN next /\ h = [n \in DOMAIN h |-> h[n]] /\ next = [n \in DOMAIN next |-> next[n]]
      OBVIOUS
    <3>. QED
      BY <2>3
  <2>5. h = [n \in 0..(m + 1) |-> IF n = 0 THEN <<Len(ids)>> ELSE h[n - 1] \o Frame(ids[n])]
    BY <2>4
  <2>. HIDE DEF h
  <2>6. BytesUpTo(ids, m + 1, h) /\ m + 1 \in Nat
    BY <2>5 DEF BytesUpTo
  <2>. QED
    BY <2>6
<1>3. \A n \in 1..k : n - 1 \in fine => n \in fine
  <2>1. ASSUME NEW n \in 1..k, n - 1 \in fine PROVE n \in fine
    <3>1. n - 1 \in Nat /\ (n - 1) + 1 = n
      OBVIOUS
    <3>. HIDE DEF fine
    <3>. QED
      BY <1>2, <2>1, <3>1
  <2>. QED
    BY <2>1
<1>4. 0..k \subseteq fine
  <2>. HIDE DEF fine
  <2>. QED
    BY <1>1, <1>3, UpToAll
<1>5. k \in fine
  <2>. HIDE DEF fine
  <2>. QED
    BY <1>4
<1>. QED
  BY <1>5

LEMMA ParticipantsBytesAre ==
  ASSUME NEW ids \in Seq(Strings)
  PROVE  \E g : BytesUpTo(ids, Len(ids), g) /\ ParticipantsBytes(ids) = g[Len(ids)]
<1>1. ParticipantsBytes(ids) = (CHOOSE g : BytesUpTo(ids, Len(ids), g))[Len(ids)]
  BY DEF ParticipantsBytes, BytesUpTo
<1>2. BytesUpTo(ids, Len(ids), CHOOSE g : BytesUpTo(ids, Len(ids), g))
  <2>1. PICK k \in Nat : k = Len(ids)
    OBVIOUS
  <2>2. \E g : BytesUpTo(ids, Len(ids), g)
    BY <2>1, SomeBytes
  <2>. QED
    BY <2>2
<1>. QED
  BY <1>1, <1>2

\* The bytes up to one participant begin the bytes up to any later one.
Begins(a, b) == Len(a) <= Len(b) /\ \A i \in 1..Len(a) : a[i] = b[i]
LEMMA Further ==
  ASSUME NEW a \in Seq(Nat), NEW b \in Seq(Nat), NEW c \in Seq(Nat), Begins(a, b), Begins(b, c)
  PROVE  Begins(a, c)
<1>1. PICK i \in Nat, j \in Nat, k \in Nat : i = Len(a) /\ j = Len(b) /\ k = Len(c)
  OBVIOUS
<1>2. i <= j /\ j <= k
  BY <1>1 DEF Begins
<1>3. \A n \in 1..i : n \in 1..j
  BY <1>2
<1>. QED
  BY <1>1, <1>2, <1>3 DEF Begins

LEMMA BytesBegin ==
  ASSUME NEW ids \in Seq(Strings), NEW g, BytesUpTo(ids, Len(ids), g)
  PROVE  \A n \in 0..Len(ids) : g[n] \in Seq(Nat) /\ \A m \in 0..n : Begins(g[m], g[n])
<1>. DEFINE fine ==
       {n \in Nat : n <= Len(ids) =>
          g[n] \in Seq(Nat) /\ \A m \in 0..n : g[m] \in Seq(Nat) /\ Begins(g[m], g[n])}
<1>1. PICK k \in Nat : k = Len(ids)
  OBVIOUS
<1>2. 0 \in fine
  <2>1. g[0] = <<k>> /\ <<k>> \in Seq(Nat) /\ 0..0 = {0}
    BY <1>1 DEF BytesUpTo
  <2>2. \A a \in Seq(Nat) : Begins(a, a)
    BY DEF Begins
  <2>3. \A m \in 0..0 : Begins(g[m], g[0])
    BY <2>1, <2>2
  <2>. QED
    BY <2>1, <2>3
<1>3. ASSUME NEW n \in 1..k, n - 1 \in fine PROVE n \in fine
  <2>1. /\ n - 1 \in Nat /\ n - 1 <= Len(ids) /\ n \in 0..Len(ids) /\ n # 0 /\ n \in Nat
    BY <1>1
  <2>2. g[n] = g[n - 1] \o Frame(ids[n])
    BY <2>1 DEF BytesUpTo
  <2>3. PICK a \in Seq(Nat) : a = g[n - 1]
    BY <1>3, <2>1
  <2>4. PICK f \in Seq(Nat) : f = Frame(ids[n])
    <3>1. ids[n] \in Seq(Nat)
      BY <1>1, StringsAssumption
    <3>. QED
      BY <3>1, FrameType
  <2>5. PICK b \in Seq(Nat) : b = a \o f
    BY ConcatProperties
  <2>6. Begins(a, b)
    <3>1. Len(b) = Len(a) + Len(f) /\ Len(a) \in Nat /\ Len(f) \in Nat
      BY <2>5, ConcatProperties
    <3>2. \A i \in 1..Len(a) + Len(f) : b[i] = IF i <= Len(a) THEN a[i] ELSE f[i - Len(a)]
      BY <2>5, ConcatProperties
    <3>3. \A i \in 1..Len(a) : i \in 1..Len(a) + Len(f) /\ i <= Len(a)
      BY <3>1
    <3>. QED
      BY <3>1, <3>2, <3>3 DEF Begins
  <2>7. b = g[n]
    BY <2>2, <2>3, <2>4, <2>5
  <2>8. ASSUME NEW m \in 0..n PROVE g[m] \in Seq(Nat) /\ Begins(g[m], g[n])
    <3>1. CASE m = n
      <4>1. Begins(b, b)
        BY DEF Begins
      <4>. QED
        BY <2>7, <3>1, <4>1
    <3>2. CASE m # n
      <4>1. m \in 0..(n - 1)
        BY <2>1, <3>2
      <4>2. PICK c \in Seq(Nat) : c = g[m]
        BY <1>3, <2>1, <4>1
      <4>3. Begins(c, a)
        BY <1>3, <2>1, <2>3, <4>1, <4>2
      <4>4. Begins(c, b)
        BY <2>6, <4>3, Further
      <4>. QED
        BY <2>7, <4>2, <4>4
    <3>. QED
      BY <3>1, <3>2
  <2>. QED
    BY <2>1, <2>7, <2>8
<1>4. 0..k \subseteq fine
  <2>. HIDE DEF fine
  <2>. QED
    BY <1>2, <1>3, UpToAll
<1>. QED
  BY <1>1, <1>4

\* The frame that comes next is read from what it begins.
LEMMA NextFrame ==
  ASSUME NEW a \in Seq(Nat), NEW x \in Seq(Nat), NEW u \in Seq(Nat), Joins(a, Frame(x), u)
  PROVE  /\ Len(u) = Len(a) + 1 + Len(x) /\ u[Len(a) + 1] = Len(x)
         /\ \A i \in 1..Len(x) : u[Len(a) + 1 + i] = x[i]
<1>1. PICK f \in Seq(Nat) : f = Frame(x)
  BY FrameType
<1>2. PICK n \in Nat, k \in Nat : n = Len(a) /\ k = Len(x)
  OBVIOUS
<1>3. f = <<k>> \o x /\ Len(f) = k + 1 /\ f[1] = k /\ \A i \in 1..k : f[i + 1] = x[i]
  BY <1>1, <1>2, FirstByte DEF Frame
<1>4. /\ Len(u) = n + (k + 1)
      /\ \A i \in 1..(n + (k + 1)) : u[i] = IF i <= n THEN a[i] ELSE f[i - n]
  BY <1>1, <1>2, <1>3, ConcatProperties DEF Joins
<1>5. u[n + 1] = k
  <2>1. n + 1 \in 1..(n + (k + 1)) /\ ~(n + 1 <= n) /\ (n + 1) - n = 1
    OBVIOUS
  <2>. QED
    BY <1>3, <1>4, <2>1
<1>6. ASSUME NEW i \in 1..k PROVE u[n + 1 + i] = x[i]
  <2>1. n + 1 + i \in 1..(n + (k + 1)) /\ ~(n + 1 + i <= n) /\ (n + 1 + i) - n = i + 1
    OBVIOUS
  <2>. QED
    BY <1>3, <1>4, <2>1
<1>7. Len(u) = n + 1 + k
  BY <1>4
<1>. QED
  BY <1>2, <1>5, <1>6, <1>7

LEMMA SameNextFrame ==
  ASSUME NEW a \in Seq(Nat), NEW x \in Seq(Nat), NEW y \in Seq(Nat),
         NEW u \in Seq(Nat), NEW v \in Seq(Nat), NEW z \in Seq(Nat),
         Joins(a, Frame(x), u), Joins(a, Frame(y), v), Begins(u, z), Begins(v, z)
  PROVE  x = y
<1>1. PICK n \in Nat, k \in Nat, m \in Nat : n = Len(a) /\ k = Len(x) /\ m = Len(y)
  OBVIOUS
<1>2. Len(u) = n + 1 + k /\ u[n + 1] = k /\ \A i \in 1..k : u[n + 1 + i] = x[i]
  BY <1>1, NextFrame
<1>3. Len(v) = n + 1 + m /\ v[n + 1] = m /\ \A i \in 1..m : v[n + 1 + i] = y[i]
  BY <1>1, NextFrame
<1>4. (\A i \in 1..(n + 1 + k) : u[i] = z[i]) /\ (\A i \in 1..(n + 1 + m) : v[i] = z[i])
  BY <1>2, <1>3 DEF Begins
<1>5. k = m
  <2>1. n + 1 \in 1..(n + 1 + k) /\ n + 1 \in 1..(n + 1 + m)
    OBVIOUS
  <2>. QED
    BY <1>2, <1>3, <1>4, <2>1
<1>6. ASSUME NEW i \in 1..k PROVE x[i] = y[i]
  <2>1. n + 1 + i \in 1..(n + 1 + k)
    OBVIOUS
  <2>. QED
    BY <1>2, <1>3, <1>4, <1>5, <2>1
<1>. QED
  BY <1>1, <1>5, <1>6, SeqEqual

LEMMA BytesStep ==
  ASSUME NEW ids, NEW k \in Nat, NEW g, BytesUpTo(ids, k, g)
  PROVE  g[0] = <<Len(ids)>> /\ \A n \in 1..k : g[n] = g[n - 1] \o Frame(ids[n])
<1>. DEFINE at(n) == IF n = 0 THEN <<Len(ids)>> ELSE g[n - 1] \o Frame(ids[n])
<1>1. g = [n \in 0..k |-> at(n)]
  BY DEF BytesUpTo
<1>2. \A n \in 0..k : g[n] = at(n)
  <2>. HIDE DEF at
  <2>. QED
    BY <1>1
<1>3. 0 \in 0..k /\ \A n \in 1..k : n \in 0..k /\ n # 0
  OBVIOUS
<1>. QED
  BY <1>2, <1>3

LEMMA AreBytes ==
  ASSUME NEW ids \in Seq(Strings)
  PROVE  \A n \in 1..Len(ids) : ids[n] \in Seq(Nat)
BY StringsAssumption

\* Lists of participants whose bytes are the same are the same.
LEMMA SameParticipants ==
  ASSUME NEW p \in Seq(Strings), NEW q \in Seq(Strings), ParticipantsBytes(p) = ParticipantsBytes(q)
  PROVE  p = q
<1>1. PICK k \in Nat, l \in Nat : k = Len(p) /\ l = Len(q)
  OBVIOUS
<1>2. PICK g : BytesUpTo(p, Len(p), g) /\ ParticipantsBytes(p) = g[Len(p)]
  BY ParticipantsBytesAre
<1>3. PICK h : BytesUpTo(q, Len(q), h) /\ ParticipantsBytes(q) = h[Len(q)]
  BY ParticipantsBytesAre
<1>4. \A n \in 0..k : g[n] \in Seq(Nat) /\ Begins(g[n], g[k])
  <2>1. \A n \in 0..Len(p) : g[n] \in Seq(Nat) /\ \A m \in 0..n : Begins(g[m], g[n])
    BY <1>2, BytesBegin
  <2>2. k \in 0..k
    OBVIOUS
  <2>. QED
    BY <1>1, <2>1, <2>2
<1>5. \A n \in 0..l : h[n] \in Seq(Nat) /\ Begins(h[n], h[l])
  <2>1. \A n \in 0..Len(q) : h[n] \in Seq(Nat) /\ \A m \in 0..n : Begins(h[m], h[n])
    BY <1>3, BytesBegin
  <2>2. l \in 0..l
    OBVIOUS
  <2>. QED
    BY <1>1, <2>1, <2>2
<1>6. PICK z \in Seq(Nat) : z = g[k] /\ z = h[l]
  <2>1. k \in 0..k
    OBVIOUS
  <2>. QED
    BY <1>1, <1>2, <1>3, <1>4, <2>1
<1>7. g[0] = <<k>> /\ \A n \in 1..k : g[n] = g[n - 1] \o Frame(p[n])
  <2>1. BytesUpTo(p, k, g)
    BY <1>1, <1>2
  <2>. QED
    BY <1>1, <2>1, BytesStep
<1>8. h[0] = <<l>> /\ \A n \in 1..l : h[n] = h[n - 1] \o Frame(q[n])
  <2>1. BytesUpTo(q, l, h)
    BY <1>1, <1>3
  <2>. QED
    BY <1>1, <2>1, BytesStep
<1>9. k = l
  <2>1. PICK one \in Seq(Nat), other \in Seq(Nat) : one = <<k>> /\ other = <<l>>
    <3>1. <<k>> \in Seq(Nat) /\ <<l>> \in Seq(Nat)
      OBVIOUS
    <3>. QED
      BY <3>1
  <2>2. Len(one) = 1 /\ one[1] = k /\ Len(other) = 1 /\ other[1] = l
    BY <2>1
  <2>3. Begins(one, z) /\ Begins(other, z)
    <3>1. 0 \in 0..k /\ 0 \in 0..l
      OBVIOUS
    <3>. QED
      BY <1>4, <1>5, <1>6, <1>7, <1>8, <2>1, <3>1
  <2>4. one[1] = z[1] /\ other[1] = z[1]
    BY <2>2, <2>3 DEF Begins
  <2>. QED
    BY <2>2, <2>4
<1>. DEFINE fine == {n \in Nat : g[n] = h[n] /\ (n # 0 => p[n] = q[n])}
<1>10. 0 \in fine
  BY <1>7, <1>8, <1>9
<1>11. ASSUME NEW n \in 1..k, n - 1 \in fine PROVE n \in fine
  <2>1. n - 1 \in 0..k /\ n \in 0..k /\ n \in Nat /\ n \in 1..l /\ n \in 0..l
    BY <1>9
  <2>2. PICK a \in Seq(Nat) : a = g[n - 1] /\ a = h[n - 1]
    BY <1>4, <1>11, <2>1
  <2>3. PICK u \in Seq(Nat) : u = g[n]
    BY <1>4, <2>1
  <2>4. PICK v \in Seq(Nat) : v = h[n]
    BY <1>5, <2>1
  <2>5. Begins(u, z) /\ Begins(v, z)
    BY <1>4, <1>5, <1>6, <2>1, <2>3, <2>4
  <2>6. PICK x \in Seq(Nat), y \in Seq(Nat) : x = p[n] /\ y = q[n]
    <3>1. p[n] \in Seq(Nat) /\ q[n] \in Seq(Nat)
      BY <1>1, <1>9, AreBytes
    <3>. QED
      BY <3>1
  <2>7. Joins(a, Frame(x), u)
    BY <1>7, <2>2, <2>3, <2>6 DEF Joins
  <2>8. Joins(a, Frame(y), v)
    BY <1>8, <2>1, <2>2, <2>4, <2>6 DEF Joins
  <2>9. x = y
    BY <2>5, <2>7, <2>8, SameNextFrame
  <2>10. u = v
    BY <2>7, <2>8, <2>9 DEF Joins
  <2>. QED
    BY <2>1, <2>3, <2>4, <2>6, <2>9, <2>10
<1>12. 0..k \subseteq fine
  <2>. HIDE DEF fine
  <2>1. \A n \in 1..k : n - 1 \in fine => n \in fine
    BY <1>11
  <2>. QED
    BY <1>10, <2>1, UpToAll
<1>13. \A n \in 1..k : p[n] = q[n]
  <2>1. \A n \in 1..k : n \in 0..k /\ n # 0
    OBVIOUS
  <2>. QED
    BY <1>12, <2>1
<1>. QED
  BY <1>1, <1>9, <1>13, SeqEqual

\* What is disclosed are the slots of a record that could have been sealed, with the
\* raw participants of one or none, after the sealing.
SeamInv ==
  /\ sealed # NotSealed => sealed \in Records
  /\ disclosed # NotDisclosed =>
       /\ sealed # NotSealed
       /\ \E record \in Records, version \in Nat, raw \in Participants \cup {Absent} :
            disclosed = [slots |-> SlotsOf(record), version |-> version, raw |-> raw]
SealedInv == sealed # NotSealed => MandatoryThere(sealed)

LEMMA SlotsType ==
  ASSUME NEW record \in Records
  PROVE  SlotsOf(record) \in Slots
<1>1. ParticipantsDigest(record.participants) \in Nat
  BY DigestAssumption DEF Records
<1>. QED
  BY <1>1 DEF SlotsOf, Slots, Records

THEOREM SeamInvariant == SeamSpec => [](SeamInv /\ SealedInv)
<1>1. SeamInit => SeamInv /\ SealedInv
  BY DEF SeamInit, SeamInv, SealedInv
<1>2. SeamInv /\ SealedInv /\ [SeamNext]_seamVars => (SeamInv /\ SealedInv)'
  <2>. SUFFICES ASSUME SeamInv, SealedInv, [SeamNext]_seamVars PROVE (SeamInv /\ SealedInv)'
    OBVIOUS
  <2>1. ASSUME NEW record \in Records, Seal(record) PROVE (SeamInv /\ SealedInv)'
    BY <2>1 DEF Seal, SeamInv, SealedInv
  <2>2. ASSUME NEW record \in Records, NEW version \in Nat, NEW raw \in Participants \cup {Absent},
               Disclose(record, version, raw)
        PROVE (SeamInv /\ SealedInv)'
    <3>1. disclosed' = [slots |-> SlotsOf(record), version |-> version, raw |-> raw] /\ sealed' = sealed
      BY <2>2 DEF Disclose
    <3>2. sealed # NotSealed
      BY <2>2 DEF Disclose
    <3>. QED
      BY <3>1, <3>2 DEF SeamInv, SealedInv
  <2>3. ASSUME NEW version \in {3, 4, 5}, NEW raw \in Participants \cup {Absent},
               sealed # NotSealed, Disclose(sealed, version, raw)
        PROVE (SeamInv /\ SealedInv)'
    <3>1. sealed \in Records /\ version \in Nat
      BY <2>3 DEF SeamInv
    <3>. QED
      BY <2>2, <2>3, <3>1
  <2>4. CASE UNCHANGED seamVars
    BY <2>4 DEF seamVars, SeamInv, SealedInv
  <2>5. SupportedVersion \in Nat
    BY DEF SupportedVersion
  <2>. QED
    BY <2>1, <2>2, <2>3, <2>4, <2>5 DEF SeamNext
<1>. QED
  BY <1>1, <1>2, PTL DEF SeamSpec

\* Whatever the strings and the lists of participants are, a disclosure matches the
\* anchor exactly when it shows the slots that were sealed, of this version, and the raw
\* participants, if any, are the sealed ones (verify_anchor): the preimage tells every
\* two records apart, and so does what is hashed of the participants.
THEOREM SeamTellsRecordsApart == SeamSpec => []MatchMeansSealed
<1>1. SeamInv /\ SealedInv => MatchMeansSealed
  <2>. SUFFICES ASSUME SeamInv, SealedInv, disclosed # NotDisclosed PROVE MatchMeansSealed
    BY DEF MatchMeansSealed
  <2>1. PICK record \in Records, version \in Nat, raw \in Participants \cup {Absent} :
          disclosed = [slots |-> SlotsOf(record), version |-> version, raw |-> raw]
    BY DEF SeamInv
  <2>2. sealed \in Records /\ MandatoryThere(sealed)
    BY DEF SeamInv, SealedInv
  <2>3. PICK shown \in Slots, ours \in Slots : shown = SlotsOf(record) /\ ours = SlotsOf(sealed)
    BY <2>2, SlotsType
  <2>4. disclosed.slots = shown /\ disclosed.version = version /\ disclosed.raw = raw
    BY <2>1, <2>3
  <2>5. Preimage(shown) = Preimage(ours) => shown = ours
    BY PreimageTells
  <2>6. MandatoryThere(ours)
    BY <2>2, <2>3 DEF MandatoryThere, SlotsOf
  <2>7. ASSUME shown = ours PROVE Consistent(disclosed) <=> raw \in {Absent, sealed.participants}
    <3>1. sealed.participants \in Participants
      BY <2>2 DEF Records
    <3>2. ours.participants_digest = ParticipantsDigest(sealed.participants)
      BY <2>3 DEF SlotsOf
    <3>3. Consistent(disclosed) <=>
            raw = Absent \/ ParticipantsDigest(raw) = ParticipantsDigest(sealed.participants)
      BY <2>4, <2>7, <3>2 DEF Consistent
    <3>4. ASSUME raw # Absent, ParticipantsDigest(raw) = ParticipantsDigest(sealed.participants)
          PROVE  raw = sealed.participants
      <4>1. raw \in Participants
        BY <3>4
      <4>2. ParticipantsBytes(raw) = ParticipantsBytes(sealed.participants)
        BY <3>1, <3>4, <4>1, DigestAssumption
      <4>. QED
        BY <3>1, <4>1, <4>2, ParticipantsAssumption, SameParticipants
    <3>. QED
      BY <3>3, <3>4
  <2>8. VerifyAnchor(Preimage(ours), disclosed) = "match" <=>
          /\ version = SupportedVersion /\ MandatoryThere(shown)
          /\ Consistent(disclosed) /\ Preimage(shown) = Preimage(ours)
    BY <2>4 DEF VerifyAnchor
  <2>9. VerifyAnchor(Preimage(ours), disclosed) = "match" <=>
          shown = ours /\ version = SupportedVersion /\ raw \in {Absent, sealed.participants}
    BY <2>5, <2>6, <2>7, <2>8
  <2>. QED
    BY <2>3, <2>4, <2>9 DEF MatchMeansSealed
<1>. QED
  BY <1>1, SeamInvariant, PTL

-----------------------------------------------------------------------------
(* Shapes *)

LEMMA ShapeOfRequest == Shapes["request"] = RequestShape
BY DEF Shapes
LEMMA ShapeOfBody == Shapes["body"] = BodyShape
BY DEF Shapes
LEMMA ShapeOfReceipts == Shapes["registry_receipt"] = RegistryReceiptShape /\ Shapes["receipt"] = ReceiptShape
BY DEF Shapes
LEMMA ShapeOfCheckpoints ==
  /\ Shapes["checkpoint"] = CheckpointShape /\ Shapes["log_checkpoint"] = LogCheckpointShape
  /\ Shapes["witnessed"] = WitnessedShape
BY DEF Shapes
LEMMA ShapeOfIdentities ==
  /\ Shapes["oidc"] = OidcShape /\ Shapes["listed_oidc"] = ListedOidcShape
  /\ Shapes["spiffe"] = SpiffeShape /\ Shapes["listed_spiffe"] = ListedSpiffeShape
BY DEF Shapes

LEMMA SameValues == \A m : ShapeValues("request", m) = ShapeValues("body", m)
BY DEF ShapeValues, BodyKinds, FormMatters

LEMMA SameSound == \A m : Sound("request", m) = Sound("body", m)
BY SameValues DEF Sound, TypeOnly, BadLogId

LEMMA SamePasses == \A m, v : ValuePasses("request", m, v) <=> ValuePasses("body", m, v)
BY SameSound DEF ValuePasses, NullPasses, NotLookedAt, BodyKinds

LEMMA KnownRequest == Known("request") = ProducerRequired \cup ProducerOptional \cup {"lineage_id"}
BY ShapeOfRequest DEF Known, RequestShape, Closed
LEMMA KnownBody == Known("body") = ProducerRequired \cup RegistryAssigned \cup ProducerOptional
BY ShapeOfBody DEF Known, BodyShape, Open

\* What an accepted request or body is.
LEMMA RequestAccepted ==
  ASSUME NEW o
  PROVE  Accepts("request", o) <=>
           /\ ProducerRequired \subseteq DOMAIN o
           /\ \A m \in DOMAIN o : m \in Known("request")
           /\ \A m \in DOMAIN o \cap Known("request") : ValuePasses("request", m, o[m])
           /\ Supersession(o) /\ Audience(o) /\ ("lineage_id" \in DOMAIN o => o.version # "1")
<1>1. Rules("request", o) <=>
        Supersession(o) /\ Audience(o) /\ ("lineage_id" \in DOMAIN o => o.version # "1")
  BY DEF Rules
<1>2. Shapes["request"].required = ProducerRequired /\ ~Shapes["request"].open
  BY ShapeOfRequest DEF RequestShape, Closed
<1>3. \A m : Tolerated("request", m) <=> m \in Known("request")
  BY <1>2 DEF Tolerated
<1>. QED
  BY <1>1, <1>2, <1>3 DEF Accepts

LEMMA BodyAccepted ==
  ASSUME NEW o
  PROVE  Accepts("body", o) <=>
           /\ ProducerRequired \cup RegistryAssigned \subseteq DOMAIN o
           /\ \A m \in DOMAIN o \cap Known("body") : ValuePasses("body", m, o[m])
           /\ Supersession(o) /\ Audience(o)
<1>1. Rules("body", o) <=> Supersession(o) /\ Audience(o)
  BY DEF Rules
<1>2. Shapes["body"].required = ProducerRequired \cup RegistryAssigned /\ Shapes["body"].open
  BY ShapeOfBody DEF BodyShape, Open
<1>3. \A m : Tolerated("body", m)
  BY <1>2 DEF Tolerated
<1>. QED
  BY <1>1, <1>2, <1>3 DEF Accepts

\* What the registry assigns passes.
LEMMA AssignedPass == \A m \in RegistryAssigned : ValuePasses("body", m, "good")
<1>1. \A m \in RegistryAssigned : ShapeValues("body", m) = {"good", "ill", "null"}
  BY DEF RegistryAssigned, ShapeValues, BodyKinds, FormMatters
<1>2. \A m \in RegistryAssigned : "good" \in Sound("body", m)
  BY <1>1 DEF Sound, RegistryAssigned
<1>. QED
  BY <1>2 DEF ValuePasses

LEMMA RequestIsServed ==
  ASSUME NEW o, Accepts("request", o)
  PROVE  Accepts("body", Served(o))
<1>. DEFINE p == Served(o)
<1>1. /\ ProducerRequired \subseteq DOMAIN o
      /\ \A m \in DOMAIN o : m \in Known("request") /\ ValuePasses("request", m, o[m])
      /\ Supersession(o) /\ Audience(o)
  BY RequestAccepted
<1>2. /\ DOMAIN p = DOMAIN o \cup RegistryAssigned
      /\ \A m \in RegistryAssigned : p[m] = "good"
      /\ \A m \in DOMAIN o \ RegistryAssigned : p[m] = o[m]
  BY DEF Served
<1>. HIDE DEF p
<1>3. ASSUME NEW m \in DOMAIN p PROVE ValuePasses("body", m, p[m])
  <2>1. CASE m \in RegistryAssigned
    BY <1>2, <2>1, AssignedPass
  <2>2. CASE m \notin RegistryAssigned
    BY <1>1, <1>2, <2>2, SamePasses
  <2>. QED
    BY <2>1, <2>2
<1>4. Supersession(p) /\ Audience(p)
  <2>1. {"version", "supersedes", "visibility", "audience"} \cap RegistryAssigned = {}
    BY DEF RegistryAssigned
  <2>2. {"version", "supersedes", "visibility"} \subseteq DOMAIN o
    BY <1>1 DEF ProducerRequired
  <2>3. Supersession(p)
    BY <1>1, <1>2, <2>1, <2>2 DEF Supersession
  <2>4. \A v : Has(o, "audience", v) <=> Has(p, "audience", v)
    BY <1>2, <2>1 DEF Has
  <2>5. p.visibility = o.visibility
    BY <1>2, <2>1, <2>2
  <2>6. Audience(p)
    BY <1>1, <2>4, <2>5 DEF Audience
  <2>. QED
    BY <2>3, <2>6
<1>5. Accepts("body", p)
  BY <1>1, <1>2, <1>3, <1>4, BodyAccepted
<1>. QED
  BY <1>5 DEF p

LEMMA BodyWasPublished ==
  ASSUME NEW o, Accepts("body", o)
  PROVE  Accepts("request", AsPublished(o))
<1>. DEFINE p == AsPublished(o)
<1>1. /\ ProducerRequired \cup RegistryAssigned \subseteq DOMAIN o
      /\ \A m \in DOMAIN o \cap Known("body") : ValuePasses("body", m, o[m])
      /\ Supersession(o) /\ Audience(o)
  BY BodyAccepted
<1>2. /\ DOMAIN p = {m \in DOMAIN o \cap Known("body") :
                      m \notin RegistryAssigned \/ (m = "lineage_id" /\ o.version # "1")}
      /\ \A m \in DOMAIN p : p[m] = o[m]
  <2>. DEFINE gone == (DOMAIN o \ Known("body")) \cup
             IF o.version = "1" THEN RegistryAssigned ELSE RegistryAssigned \ {"lineage_id"}
  <2>1. DOMAIN p = DOMAIN o \ gone /\ \A m \in DOMAIN p : p[m] = o[m]
    BY DEF AsPublished, Without
  <2>2. "lineage_id" \in RegistryAssigned
    BY DEF RegistryAssigned
  <2>. HIDE DEF p
  <2>. QED
    BY <2>1, <2>2
<1>. HIDE DEF p
<1>3. ProducerRequired \cap RegistryAssigned = {} /\ "audience" \notin RegistryAssigned
  BY DEF ProducerRequired, RegistryAssigned
<1>4. ProducerRequired \subseteq DOMAIN p
  BY <1>1, <1>2, <1>3, KnownBody
<1>5. \A m \in DOMAIN p : m \in Known("request") /\ ValuePasses("request", m, p[m])
  BY <1>1, <1>2, KnownBody, KnownRequest, SamePasses
<1>6. Supersession(p) /\ Audience(p)
  <2>1. {"version", "supersedes", "visibility"} \subseteq DOMAIN p
    BY <1>4 DEF ProducerRequired
  <2>2. p.version = o.version /\ p.supersedes = o.supersedes /\ p.visibility = o.visibility
    BY <1>2, <2>1
  <2>3. "audience" \in Known("body")
    BY KnownBody DEF ProducerOptional
  <2>4. \A v : Has(o, "audience", v) <=> Has(p, "audience", v)
    BY <1>2, <1>3, <2>3 DEF Has
  <2>. QED
    BY <1>1, <2>2, <2>4 DEF Supersession, Audience
<1>7. "lineage_id" \in DOMAIN p => p.version # "1"
  <2>1. "version" \in DOMAIN p /\ "lineage_id" \in RegistryAssigned
    BY <1>4 DEF ProducerRequired, RegistryAssigned
  <2>. QED
    BY <1>2, <2>1
<1>8. Accepts("request", p)
  BY <1>4, <1>5, <1>6, <1>7, RequestAccepted
<1>. QED
  BY <1>8 DEF p

\* A reader's shape has the same members, or fewer that it looks at.
LEMMA ReceiptIsRead ==
  ASSUME NEW o, Accepts("registry_receipt", o)
  PROVE  Accepts("receipt", o)
<1>. DEFINE members == {"registry_did", "ctx_id", "lineage_id", "origin_registry", "created_at",
                        "content_hash", "key_fingerprint", "signature"}
<1>1. /\ Shapes["registry_receipt"].required = members /\ Known("registry_receipt") = members
      /\ ~Shapes["registry_receipt"].open
      /\ Shapes["receipt"].required = members /\ Known("receipt") = members /\ ~Shapes["receipt"].open
  BY ShapeOfReceipts DEF Known, RegistryReceiptShape, ReceiptShape, Closed
<1>2. \A m \in members : /\ ShapeValues("registry_receipt", m) = {"good", "malformed", "ill", "null"}
                         /\ ShapeValues("receipt", m) = {"good", "malformed", "ill", "null"}
  BY DEF ShapeValues, BodyKinds, FormMatters
<1>3. \A m \in members : Sound("registry_receipt", m) \subseteq Sound("receipt", m)
  BY <1>2 DEF Sound, TypeOnly
<1>4. \A m \in members : \A v : ValuePasses("registry_receipt", m, v) => ValuePasses("receipt", m, v)
  BY <1>3 DEF ValuePasses, NullPasses, NotLookedAt, BodyKinds
<1>5. Rules("receipt", o)
  BY DEF Rules
<1>6. \A m : Tolerated("registry_receipt", m) => m \in members
  BY <1>1 DEF Tolerated
<1>. HIDE DEF members
<1>. QED
  BY <1>1, <1>4, <1>5, <1>6 DEF Accepts, Tolerated

LEMMA IdentitiesAreRead ==
  ASSUME NEW o
  PROVE  /\ Accepts("oidc", o) => Accepts("listed_oidc", o)
         /\ Accepts("spiffe", o) => Accepts("listed_spiffe", o)
<1>. DEFINE members == {"type", "issuer", "subject"}
            fewer == {"type", "subject"}
<1>1. /\ Shapes["oidc"].required = members /\ Known("oidc") = members /\ ~Shapes["oidc"].open
      /\ Shapes["listed_oidc"].required = members /\ Known("listed_oidc") = members \cup {"org_wide"}
      /\ Shapes["listed_oidc"].open
      /\ Shapes["spiffe"].required = fewer /\ Known("spiffe") = fewer /\ ~Shapes["spiffe"].open
      /\ Shapes["listed_spiffe"].required = fewer /\ Known("listed_spiffe") = fewer \cup {"org_wide"}
      /\ Shapes["listed_spiffe"].open
  BY ShapeOfIdentities DEF Known, OidcShape, ListedOidcShape, SpiffeShape, ListedSpiffeShape, Closed, Open
<1>2. \A m \in members : /\ ShapeValues("oidc", m) = {"good", "malformed", "ill", "null"}
                         /\ ShapeValues("listed_oidc", m) = {"good", "malformed", "ill", "null"}
                         /\ ShapeValues("spiffe", m) = {"good", "malformed", "ill", "null"}
                         /\ ShapeValues("listed_spiffe", m) = {"good", "malformed", "ill", "null"}
  BY DEF ShapeValues, BodyKinds, FormMatters
<1>3. \A m \in members : /\ Sound("oidc", m) \subseteq Sound("listed_oidc", m)
                         /\ Sound("spiffe", m) \subseteq Sound("listed_spiffe", m)
  BY <1>2 DEF Sound, TypeOnly
<1>4. \A m \in members : \A v :
        /\ ValuePasses("oidc", m, v) => ValuePasses("listed_oidc", m, v)
        /\ ValuePasses("spiffe", m, v) => ValuePasses("listed_spiffe", m, v)
  BY <1>3 DEF ValuePasses, NullPasses, NotLookedAt, BodyKinds
<1>5. Rules("listed_oidc", o) /\ Rules("listed_spiffe", o)
  BY DEF Rules
<1>6. \A m : /\ Tolerated("oidc", m) => m \in members
             /\ Tolerated("spiffe", m) => m \in fewer
             /\ Tolerated("listed_oidc", m) /\ Tolerated("listed_spiffe", m)
  BY <1>1 DEF Tolerated
<1>7. fewer \subseteq members
  OBVIOUS
<1>. HIDE DEF members, fewer
<1>8. ASSUME Accepts("oidc", o) PROVE Accepts("listed_oidc", o)
  <2>1. DOMAIN o = members
    BY <1>1, <1>6, <1>8 DEF Accepts
  <2>2. \A m \in members : ValuePasses("oidc", m, o[m])
    BY <1>1, <1>8, <2>1 DEF Accepts
  <2>3. \A m \in members : ValuePasses("listed_oidc", m, o[m])
    BY <1>4, <2>2
  <2>4. Shapes["listed_oidc"].required \subseteq DOMAIN o /\ \A m \in DOMAIN o : Tolerated("listed_oidc", m)
    BY <1>1, <1>6, <2>1
  <2>5. \A m \in DOMAIN o \cap Known("listed_oidc") : ValuePasses("listed_oidc", m, o[m])
    BY <2>1, <2>3
  <2>. QED
    BY <1>5, <2>4, <2>5 DEF Accepts
<1>9. ASSUME Accepts("spiffe", o) PROVE Accepts("listed_spiffe", o)
  <2>1. DOMAIN o = fewer
    BY <1>1, <1>6, <1>9 DEF Accepts
  <2>2. \A m \in fewer : ValuePasses("spiffe", m, o[m])
    BY <1>1, <1>9, <2>1 DEF Accepts
  <2>3. \A m \in fewer : ValuePasses("listed_spiffe", m, o[m])
    BY <1>4, <1>7, <2>2
  <2>4. Shapes["listed_spiffe"].required \subseteq DOMAIN o /\ \A m \in DOMAIN o : Tolerated("listed_spiffe", m)
    BY <1>1, <1>6, <2>1
  <2>5. \A m \in DOMAIN o \cap Known("listed_spiffe") : ValuePasses("listed_spiffe", m, o[m])
    BY <2>1, <2>3
  <2>. QED
    BY <1>5, <2>4, <2>5 DEF Accepts
<1>. QED
  BY <1>8, <1>9

LEMMA CheckpointIsRead ==
  ASSUME NEW o, Accepts("checkpoint", o)
  PROVE  /\ o.log_id # "colon" => Accepts("log_checkpoint", o)
         /\ Accepts("witnessed", Without(o, {"checkpoint_version", "signature"}))
<1>. DEFINE members == {"checkpoint_version", "log_id", "tree_size", "root_hash", "timestamp", "signature"}
            fewer == {"log_id", "tree_size", "root_hash", "timestamp"}
            p == Without(o, {"checkpoint_version", "signature"})
<1>1. /\ Shapes["checkpoint"].required = members /\ Known("checkpoint") = members
      /\ ~Shapes["checkpoint"].open
      /\ Shapes["log_checkpoint"].required = members /\ Known("log_checkpoint") = members
      /\ ~Shapes["log_checkpoint"].open
      /\ Shapes["witnessed"].required = fewer /\ Known("witnessed") = fewer
      /\ ~Shapes["witnessed"].open
  BY ShapeOfCheckpoints DEF Known, CheckpointShape, LogCheckpointShape, WitnessedShape, Closed
<1>2. \A m \in members \ {"log_id"} :
        /\ ShapeValues("checkpoint", m) = {"good", "ill", "null"}
        /\ ShapeValues("log_checkpoint", m) = {"good", "ill", "null"}
        /\ ShapeValues("witnessed", m) = {"good", "ill", "null"}
  BY DEF ShapeValues, BodyKinds, FormMatters
<1>3. \A m \in members \ {"log_id"} :
        Sound("checkpoint", m) = Sound("log_checkpoint", m) /\ Sound("checkpoint", m) = Sound("witnessed", m)
  BY <1>2 DEF Sound, TypeOnly
<1>4. /\ ShapeValues("checkpoint", "log_id") = {"good", "colon", "underscore", "ill", "null"}
      /\ ShapeValues("log_checkpoint", "log_id") = {"good", "colon", "underscore", "ill", "null"}
      /\ ShapeValues("witnessed", "log_id") = {"good", "colon", "underscore", "ill", "null"}
  <2>1. \A m \in {"log_id"} : ShapeValues("checkpoint", m) = {"good", "colon", "underscore", "ill", "null"}
    BY DEF ShapeValues, BodyKinds, FormMatters
  <2>2. \A m \in {"log_id"} : ShapeValues("log_checkpoint", m) = {"good", "colon", "underscore", "ill", "null"}
    BY DEF ShapeValues, BodyKinds, FormMatters
  <2>3. \A m \in {"log_id"} : ShapeValues("witnessed", m) = {"good", "colon", "underscore", "ill", "null"}
    BY DEF ShapeValues, BodyKinds, FormMatters
  <2>. QED
    BY <2>1, <2>2, <2>3
<1>5. /\ Sound("checkpoint", "log_id") = {"good", "colon"}
      /\ Sound("log_checkpoint", "log_id") = {"good", "underscore"}
      /\ Sound("witnessed", "log_id") = {"good", "colon"}
  BY <1>4 DEF Sound, TypeOnly, BadLogId
<1>6. \A m \in members : \A v : ValuePasses("checkpoint", m, v) =>
        /\ (m = "log_id" /\ v = "colon") \/ ValuePasses("log_checkpoint", m, v)
        /\ ValuePasses("witnessed", m, v)
  <2>1. \A m, v : ValuePasses("checkpoint", m, v) <=> v \in Sound("checkpoint", m)
    BY DEF ValuePasses, NullPasses, NotLookedAt, BodyKinds
  <2>2. \A m, v : ValuePasses("log_checkpoint", m, v) <=> v \in Sound("log_checkpoint", m)
    BY DEF ValuePasses, NullPasses, NotLookedAt, BodyKinds
  <2>3. \A m, v : ValuePasses("witnessed", m, v) <=> v \in Sound("witnessed", m)
    BY DEF ValuePasses, NullPasses, NotLookedAt, BodyKinds
  <2>. SUFFICES ASSUME NEW m \in members, NEW v, ValuePasses("checkpoint", m, v)
                PROVE  /\ (m = "log_id" /\ v = "colon") \/ ValuePasses("log_checkpoint", m, v)
                       /\ ValuePasses("witnessed", m, v)
    OBVIOUS
  <2>4. v \in Sound("checkpoint", m)
    BY <2>1
  <2>5. CASE m = "log_id"
    <3>1. v \in {"good", "colon"}
      BY <1>5, <2>4, <2>5
    <3>2. v \in Sound("witnessed", m) /\ (v = "good" => v \in Sound("log_checkpoint", m))
      BY <1>5, <2>5, <3>1
    <3>. QED
      BY <2>2, <2>3, <2>5, <3>1, <3>2
  <2>6. CASE m # "log_id"
    <3>1. m \in members \ {"log_id"}
      BY <2>6
    <3>. HIDE DEF members
    <3>2. v \in Sound("witnessed", m) /\ v \in Sound("log_checkpoint", m)
      BY <1>3, <2>4, <3>1
    <3>. QED
      BY <2>2, <2>3, <3>2
  <2>. QED
    BY <2>5, <2>6
<1>7. Rules("log_checkpoint", o) /\ Rules("witnessed", p)
  BY DEF Rules
<1>8. \A m : /\ Tolerated("checkpoint", m) <=> m \in members
             /\ Tolerated("log_checkpoint", m) <=> m \in members
             /\ Tolerated("witnessed", m) <=> m \in fewer
  BY <1>1 DEF Tolerated
<1>9. DOMAIN p = DOMAIN o \ {"checkpoint_version", "signature"} /\ \A m \in DOMAIN p : p[m] = o[m]
  BY DEF Without
<1>10. fewer = members \ {"checkpoint_version", "signature"} /\ "log_id" \in fewer
  OBVIOUS
<1>. HIDE DEF members, fewer, p
<1>11. DOMAIN o = members
  BY <1>1, <1>8 DEF Accepts
<1>12. \A m \in members : ValuePasses("checkpoint", m, o[m])
  BY <1>1, <1>11 DEF Accepts
<1>13. o.log_id # "colon" => Accepts("log_checkpoint", o)
  BY <1>1, <1>6, <1>7, <1>8, <1>11, <1>12 DEF Accepts
<1>14. Accepts("witnessed", p)
  BY <1>1, <1>6, <1>7, <1>8, <1>9, <1>10, <1>11, <1>12 DEF Accepts
<1>. QED
  BY <1>13, <1>14 DEF p

\* What the schemas let a registry serve is what they let a producer publish, and what
\* they let into a bundle or an attestation is what its readers accept (validation.py,
\* evidence.py, receipts.py, translog.py, cosignature.py, keyless.py), for objects with
\* any members and any values, however many edits away from the least.
THEOREM ShapesAlwaysAgree == ShapeSpec => []ShapeChecksAgree
<1>1. ShapeChecksAgree
  <2>1. WhatIsServedIsPublishable
    BY RequestIsServed, BodyWasPublished DEF WhatIsServedIsPublishable
  <2>2. WhatIsAdmittedIsRead
    BY ReceiptIsRead, CheckpointIsRead, IdentitiesAreRead DEF WhatIsAdmittedIsRead
  <2>. QED
    BY <2>1, <2>2 DEF ShapeChecksAgree
<1>. QED
  BY <1>1, PTL
=============================================================================
