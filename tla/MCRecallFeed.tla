---------------------------- MODULE MCRecallFeed ----------------------------
(* Small instances of RecallFeed for TLC. *)
EXTENDS RecallFeed
CONSTANTS w, n, s
=============================================================================
