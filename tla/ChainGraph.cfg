SPECIFICATION MCGraphSpec
CONSTANTS
  Nodes <- MCNodes
  Bodies <- MCBodies
  Limits <- MCLimits
INVARIANTS DepthIsDistance NothingDropped
INVARIANTS CyclesAreFound PathsAreShortest NoCycleEscapes
PROPERTY EndsWithinLimits
CHECK_DEADLOCK FALSE
