CONSTANTS
  Callers = {p1}
  SampleRate = samplerate
  BufferSize = buffersize
  Options = {samplerate, buffersize}
  IntMax = 7
  LongMax = 15
  Words = {0, 1, 2}
  Gvars <- MCGvars
  Arguments <- MCArguments
  Capabilities <- MCCapabilities
  Initially <- MCInitially
  Lists = {}
  OtherLists = {}
  Singles = {0}
  PgSz = 4
  UInt8Mod = 256
  BUF_FAC = 10
  Counts = {2, 26, 51}
SPECIFICATION SizesSpec
INVARIANT
  SizesTypeOK
  RoomForRate
  BuffersAgree
  PoolHoldsChannels
CHECK_DEADLOCK FALSE
