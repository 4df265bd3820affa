--------------------------- MODULE MCTrustSeries ---------------------------
EXTENDS TrustSeries, TLC

\* Open for a moment, one moment after the issue.
MCWindows == {[delay |-> 1, length |-> 1]}
MCSymmetry == Permutations(Registries)
=============================================================================
