CONSTANTS
  NumChannels = 1
  Analog <- MCAnalog
  NumNodes = 4
  BUF_FAC = 4
  CntMod = 2
  BlkLim = 4
  PgSz = 4
  PktSizes = {1}
  MaxSamples = 7
  KeepsUp = FALSE
  ZstdOverhead = 0
SPECIFICATION Spec
INVARIANT
  ReadsReadyBlocks
CHECK_DEADLOCK FALSE
