CONSTANTS
  Trail = 4
  Buckets = 2
  Entries = 1
  Window = 8
  Farthest = 7
  NiceLength = 6
  DepthLimit = 4
  Long = 5
  Near = 8
  Refill = 6
  DistBase = 4
  LowGroup = 2
  MaxExtraBits = 4
  ChunkSize = 4
  FirstNice = 4
  Base = 2
  Stored = 2
  Span = 2
  Models = {"raw", "literal"}
  Deltas = {"literal"}
  LiteralSymbol <- MCLiteral
  TokenSymbol <- MCToken
  DistanceSymbol <- MCDistance
  LengthSymbol <- MCLength
  Raw = "raw"
  MostSymbol = 13
  FullRun = 2
  LongMatch = 4
  Remote = 5
  CostScale = 2
  Infinite = 1000000000
  MaxLen = 11
  Cuts = {6}
  Sources <- BinarySources
  Options <- MCOptions
SPECIFICATION Spec
CHECK_DEADLOCK FALSE
INVARIANTS
  SearchOrder
  FindsLongest
  PlanTrue
  FinderBehind
  RepsFollowPath
  NothingDropped
PROPERTIES
  MovesOn
