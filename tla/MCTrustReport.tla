--------------------------- MODULE MCTrustReport ---------------------------
EXTENDS TrustReport
MCPins == <<[issuer |-> "i", keys |-> {}], [issuer |-> "j", keys |-> {"k"}]>>
Entry(origin, keys, profiles, until, agents) ==
  [origin |-> origin, keys |-> keys, profiles |-> profiles, from |-> 0, until |-> until,
   agents |-> agents, methods |-> {}, types |-> {}]
MCEntryLists ==
  {<<Entry("r", {}, {}, 1, {})>>, <<Entry("r", {"new"}, {}, 2, {}), Entry("r", {}, {}, 1, {"a"})>>,
   <<Entry("s", {}, {"core"}, 2, {}), Entry("r", {}, {"receipts"}, 2, {})>>,
   <<Entry("r", {}, {}, 2, {"a"}), Entry("r", {}, {}, 1, {"b"})>>, <<>>}
Version(author, agent, key, for, class, entries) ==
  [author |-> author, agent |-> agent, key |-> key, for |-> for, class |-> class,
   sound |-> TRUE, entries |-> entries]
MCVersions ==
  UNION {{Version("i", "i", "k", 1, "not-revoked", e), Version("j", "j", "k", 2, "unknown", e),
          Version("j", "j", "other", 2, "not-revoked", e), Version("j", "i", "k", 1, "not-revoked", e),
          Version("j", "j", "k", 1, "not-revoked", e), Version("i", "i", "k", 1, "revoked", e)}
         : e \in MCEntryLists}
MCTrustBodies ==
  {[agent |-> agent, method |-> "web", type |-> "t", authority |-> authority, origin |-> "r"]
   : agent \in {"a", "b"}, authority \in {"r", "s"}}
=============================================================================
