------------------------------ MODULE MCTrust ------------------------------
(***************************************************************************)
(* Selection and report side by side: each behaviour has one subject, and  *)
(* the other's world stands still.  The properties hold in a world that    *)
(* stands as well.                                                         *)
(***************************************************************************)
EXTENDS MCTrustSeries, MCTrustReport

VARIABLE subject

TrustListsInit ==
  /\ subject \in {"series", "report"} /\ Init /\ TrustInit
  /\ subject # "series" => retains = TRUE

TrustListsNext ==
  \/ subject = "series" /\ Next /\ UNCHANGED <<subject, trustVars>>
  \/ subject = "report" /\ TrustNext /\ UNCHANGED <<subject, vars>>

TrustListsSpec == TrustListsInit /\ [][TrustListsNext]_<<subject, vars, trustVars>>
=============================================================================
