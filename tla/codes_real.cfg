CONSTANTS
  Direct = 224
  Radix = 32
  FieldCap = 7
  DistBase = 256
  LowGroup = 8
  MaxExtraBits = 28
  MaxLength = 262143
  TopDistance = 2147483640
  Widths = {0, 1, 8, 27, 28}
  MaxValues = 5
  After = 31
  CodeLengths = {1, 11}
  Shapes <- MCShapes
  Before = 11
SPECIFICATION MCSpec
CHECK_DEADLOCK FALSE
INVARIANTS
  LengthsRoundTrip
  DistancesRoundTrip
  ValuesInPlace
  ReaderEndsWithWriter
  StoresFit
  CodesInPlace
