CONSTANTS
  NumChannels = 2
  Analog <- MCAnalog
  NumNodes = 6
  BUF_FAC = 3
  CntMod = 2
  BlkLim = 4
  PgSz = 4
  PktSizes = {1}
  MaxSamples = 3
  KeepsUp = TRUE
  ZstdOverhead = 0
SPECIFICATION Spec
INVARIANT
  OnePlacePerNode
  EverySampleOnce
  DryPoolIsOwed
PROPERTY
  StreamSpec
CHECK_DEADLOCK FALSE
