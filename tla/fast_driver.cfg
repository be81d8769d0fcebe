CONSTANTS
  NumChannels = 2
  Analog <- MCAnalog
  NumNodes = 4
  BUF_FAC = 2
  CntMod = 2
  BlkLim = 4
  PgSz = 4
  PktSizes = {1, 2}
  MaxSamples = 3
  KeepsUp = FALSE
  ZstdOverhead = 0
SPECIFICATION FairSpec
INVARIANT
  NoLostWakeup
  OverflowByPacket
PROPERTY
  CallbackReturns
  DataThreadEnds
CHECK_DEADLOCK FALSE
