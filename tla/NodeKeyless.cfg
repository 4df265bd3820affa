SPECIFICATION NodeSpec
CONSTANTS
  Keys <- MCKeys
  Types = {"retracted"}
  MaxEvents = 0
  MaxSnapshots <- MCSnapshots
  MaxTime = 2
  Pins = {FALSE}
  Slips = {0}
  Statements <- MCStatements
  MaxFound = 2
INVARIANT NeverReassured
CHECK_DEADLOCK FALSE
