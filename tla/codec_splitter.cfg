CONSTANTS
  Direct = 1
  Radix = 2
  FieldCap = 2
  DistBase = 2
  LowGroup = 2
  MaxExtraBits = 1
  MaxLen = 4
  Sources <- ShortAndChainedSources
  LastBytes = 1
  RawSlack = 1
  MaxBlock = 4
  Window = 6
  Splitter = TRUE
  Advanced = TRUE
  Collect = FALSE
  NoHuffman = {FALSE}
  Lanes = 2
SPECIFICATION FairSpec
INVARIANTS
  RepSync
PROPERTIES
  Lossless
  Answered
