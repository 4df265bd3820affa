----------------------------- MODULE FixedOrder -----------------------------
(***************************************************************************)
(* Verification in a fixed order, the first failure decides: the shape of  *)
(* every procedure of the library (keyless.py decide, verify.py,           *)
(* receipts.py, headreceipt.py, cosignature.py, trustlist.py, a2a.py).     *)
(***************************************************************************)
EXTENDS Naturals, Sequences

Step(reason, holds) == [reason |-> reason, holds |-> holds]

Passed == ""

\* Why the first step that does not hold fails.
FirstFailure(steps) ==
  LET failing == {i \in DOMAIN steps : ~steps[i].holds}
  IN  IF failing = {} THEN Passed
      ELSE steps[CHOOSE i \in failing : \A j \in failing : i <= j].reason
=============================================================================
