SPECIFICATION Spec
CONSTANTS
  w = w
  n = n
  s = s
  Watched = {w}
  Neighbours = {}
  Strangers = {}
  Forms = {"valid"}
  Filtered = TRUE
  MaxLimit = 2
  PageCapacity = 2
  MaxInFlight = 1
  PageMayFail = FALSE
  MaxChanges = 3
  MaxEpoch = 2
  MaxFaults = 1
INVARIANTS NothingMissed DedupIsSound
PROPERTY KeepsContract
