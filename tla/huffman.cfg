CONSTANTS
  NSymbols = 5
  MaxCode = 3
  MaxPre = 3
  MaxSkip = 1
  Counts = {0, 1, 3, 20}
  Histograms <- MCHistograms
SPECIFICATION Spec
CHECK_DEADLOCK FALSE
INVARIANTS
  CompleteCode
  OptimalCode
  HeaderRestoresCode
PROPERTIES
  CodegenEnds
