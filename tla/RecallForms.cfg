SPECIFICATION Spec
CONSTANTS
  w = w
  n = n
  s = s
  Watched = {w}
  Neighbours = {n}
  Strangers = {s}
  Forms = {"valid", "forged", "malformed"}
  Filtered = TRUE
  MaxLimit = 2
  PageCapacity = 1
  MaxInFlight = 1
  PageMayFail = TRUE
  MaxChanges = 2
  MaxEpoch = 2
  MaxFaults = 1
INVARIANTS VerifiedOnce ResyncIsNeeded
PROPERTY GapAfterReverification
