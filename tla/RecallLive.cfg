SPECIFICATION FairSpec
CONSTANTS
  w = w
  n = n
  s = s
  Watched = {w}
  Neighbours = {n}
  Strangers = {}
  Forms = {"valid"}
  Filtered = TRUE
  MaxLimit = 2
  PageCapacity = 1
  MaxInFlight = 1
  PageMayFail = FALSE
  MaxChanges = 2
  MaxEpoch = 2
  MaxFaults = 1
PROPERTIES EventuallyHeard EventuallyAtHead
