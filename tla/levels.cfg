CONSTANTS
  Trail = 7
  Buckets = 2
  Farthest = 9
  Long = 5
  Near = 8
  Refill = 6
  Base = 2
  Patience = 2
  DistBase = 4
  LowGroup = 2
  MaxExtraBits = 4
  MaxLen = 12
  Sources <- BinarySources
  Options <- MCOptions
SPECIFICATION Spec
CHECK_DEADLOCK FALSE
INVARIANTS
  PlanTrue
  TablesBehind
  ReusedAlike
PROPERTIES
  MovesOn
