CONSTANTS
  Direct = 1
  Radix = 2
  FieldCap = 2
  DistBase = 2
  LowGroup = 2
  MaxExtraBits = 1
  MaxLen = 8
  Sources <- ShortAndRepeatingSources
  LastBytes = 1
  RawSlack = 1
  MaxBlock = 8
  Window = 15
  Splitter = FALSE
  Advanced = FALSE
  Collect = TRUE
  NoHuffman = {FALSE, TRUE}
  Lanes = 2
SPECIFICATION Spec
INVARIANTS
  TypeOK
  StreamsConsumed
PROPERTIES
  Lossless
