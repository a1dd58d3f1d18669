CONSTANTS
  Direct = 1
  Radix = 2
  FieldCap = 2
  DistBase = 2
  LowGroup = 2
  MaxExtraBits = 2
  MaxLen = 6
  Sources <- ShortAndMixedSources
  LastBytes = 1
  RawSlack = 1
  MaxBlock = 7
  Window = 10
  Splitter = FALSE
  Advanced = TRUE
  Collect = TRUE
  NoHuffman = {FALSE, TRUE}
  Lanes = 2
SPECIFICATION Spec
INVARIANTS
  IInv
  Lockstep
PROPERTIES
  Lossless
