CONSTANTS
  Encoders = {e1, e2}
  Arrays = {a1, a2, a3, a4, a5, a6, a7, a8, a9, a10, a11, a12, a13, a14}
  NoArray = noarray
  NSlots = 2
  MaxSize = 2
  Optional = {2}
  Need <- TwoSizes
  PoolCaps = {1, 4}
  PoolDepth = 2
  GrowCaps = {2}
  NStreams = 2
  TmpSizes = {1}
  Growing = TRUE
  Fallbacks = TRUE
  Growers = {e1}
SPECIFICATION ApartSpec
VIEW Shape
INVARIANTS
  TypeOK
  PoolDistinct
  RoomForBlock
  ExclusiveUse
