----------------------------- MODULE ToolResult -----------------------------
(***************************************************************************)
(* A proxy records the tool calls it forwards as signed contexts, and the  *)
(* holder of a result checks the link that came with it (mcp.py            *)
(* verify_tool_result, section 4.3).  Whoever stands between them may mix  *)
(* results, links and bodies of different calls, and anybody may publish   *)
(* records of his own.                                                     *)
(***************************************************************************)
EXTENDS Naturals, FiniteSets

CONSTANTS
  Tools, Arguments, RequestIds,
  Results,      \* what a tool may return: content, whether isError is there, and the rest
  Salts,        \* "" for the unsalted form
  Publishers,   \* who may publish a record
  TrustedProxies,
  MaxBodies     \* bound of the model

NotGiven == "absent"   \* None
ASSUME SaltsAssumption == NotGiven \notin Salts

VARIABLES
  calls,       \* the calls that trusted proxies forwarded
  bodies       \* the bodies that were published
toolVars == <<calls, bodies>>

-----------------------------------------------------------------------------
(* Hashes and records *)

\* Opaque: equal only for equal salts and values.
CallHash(value, salt) == [salt |-> salt, of |-> value]
NoHash == CallHash(NotGiven, NotGiven)
HashedResult(result) == [content |-> result.content, isError |-> result.isError]
IsError(result) == result.isError = "true"

\* A request id is recorded or left out.
RecordOf(call) ==
  [tool |-> call.tool, arguments |-> CallHash(call.arguments, call.salt),
   result |-> CallHash(HashedResult(call.result), call.salt),
   request |-> IF call.request = NotGiven THEN NoHash ELSE CallHash(call.request, call.salt),
   is_error |-> IsError(call.result), salted |-> call.salt # ""]

Calls ==
  [tool : Tools, arguments : Arguments, request : RequestIds \cup {NotGiven},
   result : Results, salt : Salts]

\* ctx_id and origin_registry are not signed: a relay may put others in their place.
Body(agent, record, type, ctx) ==
  [agent |-> agent, record |-> record, type |-> type, ctx |-> ctx]
Links ==
  [ctx : 1..MaxBodies, of : {b.record : b \in bodies}, salt : Salts \cup {NotGiven}]
LinkOf(body, salt) ==
  [ctx |-> body.ctx, of |-> body.record, salt |-> IF salt = "" THEN NotGiven ELSE salt]

-----------------------------------------------------------------------------
(* verify_tool_result *)

LinkNames(link, body) == link.ctx = body.ctx /\ link.of = body.record

Recognised(body) == body.agent \in TrustedProxies /\ body.type = "tool-result"

\* The link has a salt exactly when the record is salted.
SaltFits(link, record) ==
  IF record.salted THEN link.salt \notin {"", NotGiven} ELSE link.salt = NotGiven
SaltOf(link) == IF link.salt = NotGiven THEN "" ELSE link.salt

\* Faulty variant: the tool is not compared.
SameOutcome(record, link, result, tool) ==
  /\ record.result = CallHash(HashedResult(result), SaltOf(link))
  /\ record.is_error = IsError(result)
SameResult(record, link, result, tool) ==
  /\ record.result = CallHash(HashedResult(result), SaltOf(link))
  /\ record.tool = tool
  /\ record.is_error = IsError(result)

\* What the holder still has of its request, each part if it has it.
SameRequest(record, link, request) ==
  /\ request.arguments # NotGiven =>
       record.arguments = CallHash(request.arguments, SaltOf(link))
  /\ request.id # NotGiven /\ record.request # NoHash =>
       record.request = CallHash(request.id, SaltOf(link))

VerifyToolResult(body, link, result, tool, request) ==
  /\ LinkNames(link, body)
  /\ Recognised(body)
  /\ SaltFits(link, body.record)
  /\ SameResult(body.record, link, result, tool)
  /\ SameRequest(body.record, link, request)

-----------------------------------------------------------------------------
(* The proxies, other publishers and relays (external) *)

Publishes(body) ==
  /\ Cardinality(bodies) < MaxBodies /\ body \notin bodies
  /\ bodies' = bodies \cup {body}

Forward(proxy, call) ==
  /\ Publishes(Body(proxy, RecordOf(call), "tool-result", Cardinality(bodies) + 1))
  /\ calls' = IF proxy \in TrustedProxies THEN calls \cup {call} ELSE calls

\* A trusted proxy may publish a context of another type that looks like a record.
PublishOther(agent, call) ==
  /\ Publishes(Body(agent, RecordOf(call), "other", Cardinality(bodies) + 1))
  /\ UNCHANGED calls

Relabel(body, ctx) == Publishes([body EXCEPT !.ctx = ctx]) /\ UNCHANGED calls

ToolInit == calls = {} /\ bodies = {}
ToolNext ==
  \/ \E agent \in Publishers, call \in Calls : Forward(agent, call) \/ PublishOther(agent, call)
  \/ \E body \in bodies, ctx \in 1..MaxBodies : Relabel(body, ctx)
ToolSpec == ToolInit /\ [][ToolNext]_toolVars

-----------------------------------------------------------------------------
\* What the holder accepts happened in one call that a trusted proxy forwarded: this
\* tool returned this result, and to the arguments and the request id that were
\* checked.  And the holder of a result and of its own link accepts it.
ProvenanceIsExact ==
  /\ \A body \in bodies, link \in Links, result \in Results, tool \in Tools,
        arguments \in Arguments \cup {NotGiven}, id \in RequestIds \cup {NotGiven} :
       VerifyToolResult(body, link, result, tool, [arguments |-> arguments, id |-> id]) =>
         \E call \in calls :
           /\ call.tool = tool /\ HashedResult(call.result) = HashedResult(result)
           /\ arguments \in {call.arguments, NotGiven}
           /\ id = NotGiven \/ call.request \in {id, NotGiven}
  /\ \A body \in bodies, call \in calls :
       Recognised(body) /\ body.record = RecordOf(call) =>
         VerifyToolResult(body, LinkOf(body, call.salt), call.result, call.tool,
                          [arguments |-> call.arguments, id |-> call.request])
=============================================================================
