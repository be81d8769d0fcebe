CONSTANTS
  NumChannels = 1
  Analog <- MCAnalog
  NumNodes = 3
  BUF_FAC = 3
  CntMod = 2
  BlkLim = 4
  PgSz = 4
  PktSizes = {1}
  MaxSamples = 7
  KeepsUp = TRUE
  ZstdOverhead = 0
SPECIFICATION Spec
INVARIANT
  ExhaustionReported
CHECK_DEADLOCK FALSE
