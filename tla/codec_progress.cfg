CONSTANTS
  Direct = 1
  Radix = 2
  FieldCap = 2
  DistBase = 2
  LowGroup = 2
  MaxExtraBits = 1
  MaxLen = 4
  Sources <- BinarySources
  LastBytes = 1
  RawSlack = 1
  MaxBlock = 3
  Window = 6
  Splitter = FALSE
  Advanced = TRUE
  Collect = FALSE
  NoHuffman = {FALSE}
  Lanes = 2
SPECIFICATION Spec
INVARIANTS
  StopHonoured
