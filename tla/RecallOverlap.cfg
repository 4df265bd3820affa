SPECIFICATION Spec
CONSTANTS
  w = w
  n = n
  s = s
  Watched = {w}
  Neighbours = {n}
  Strangers = {}
  Forms = {"valid"}
  Filtered = TRUE
  MaxLimit = 2
  PageCapacity = 2
  MaxInFlight = 2
  PageMayFail = FALSE
  MaxChanges = 2
  MaxEpoch = 1
  MaxFaults = 1
PROPERTY CaughtUpAtHead
