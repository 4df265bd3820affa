SPECIFICATION Spec
CONSTANTS
  Keys <- MCKeys
  Types = {"retracted", "republished"}
  MaxEvents = 2
  MaxSnapshots <- MCSnapshots
  MaxTime = 4
  Pins = {FALSE, TRUE}
  Slips = {0, 2}
INVARIANTS LaterEvidenceIsIgnored
CHECK_DEADLOCK FALSE
