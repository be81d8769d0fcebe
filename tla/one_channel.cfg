CONSTANTS
  NumChannels = 1
  Analog <- MCAnalog
  NumNodes = 3
  BUF_FAC = 3
  CntMod = 2
  BlkLim = 5
  PgSz = 4
  PktSizes = {1, 2}
  MaxSamples = 8
  KeepsUp = TRUE
  ZstdOverhead = 1
SPECIFICATION FairSpec
INVARIANT
  TypeOK
  OnePlacePerNode
  EverySampleOnce
  DryPoolIsOwed
  NoLostWakeup
  NullByFeedOnly
  ReadsReadyBlocks
PROPERTY
  StreamSpec
  BlocksGetStored
CHECK_DEADLOCK FALSE
