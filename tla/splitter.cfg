CONSTANTS
  Sources = {s1, s2}
  Limits = {1, 2, 9, 12, 17, 23}
  LastBytes = 2
  MaxSubdivisions = 4
  SubSize = 3
  HeaderSize = 1
  BoundShare = 3
  BoundFixed = 2
SPECIFICATION Spec
INVARIANTS
  TypeOK
  HistogramsCurrent
  SameBytesCompared
  ModelOfBlock
  BoundHolds
PROPERTIES
  BlocksTile
