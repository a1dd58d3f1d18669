CONSTANTS
  Encoders = {e1, e2}
  Arrays = {a1, a2, a3, a4, a5, a6, a7, a8, a9, a10, a11, a12, a13, a14}
  NoArray = noarray
  NSlots = 2
  MaxSize = 2
  Optional = {}
  Need <- MCNeed
  PoolCaps = {1, 2}
  PoolDepth = 1
  GrowCaps = {3}
  NStreams = 2
  TmpSizes = {1}
  Growers = {}
  Growing = TRUE
  Fallbacks = TRUE
SPECIFICATION Spec
SYMMETRY EncoderSymmetry
INVARIANTS
  ExclusiveUse
