SPECIFICATION PassesSpec
CONSTANTS
  Keys <- MCKeys
  Types = {"retracted"}
  MaxEvents = 0
  MaxSnapshots <- MCSnapshots
  MaxTime = 2
  Pins = {FALSE, TRUE}
  Slips = {0}
  Statements <- MCStatements
  MaxFound = 2
INVARIANTS
  NodeIsFinal
  RefusalHolds
  HintsAreOnlyHints
  AsOfIsFinal
  LatestAdmitsMore
  
CHECK_DEADLOCK FALSE
