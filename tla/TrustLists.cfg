SPECIFICATION TrustListsSpec
CONSTANTS
  Serials = {1, 2}
  Windows <- MCWindows
  Registries = {r1, r2}
  MaxVersions = 3
  MaxRetracted = 1
  MaxTime = 2
  Pins <- MCPins
  Versions <- MCVersions
  Origins = {"r", "s"}
  TrustBodies <- MCTrustBodies
  TrustEnd = 2
SYMMETRY MCSymmetry
INVARIANTS
  NoRollback
  NoFallback
  OneListPerSerial
  AsOfReplays
  TrustHasOneGround
CHECK_DEADLOCK FALSE
