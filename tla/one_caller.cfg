CONSTANTS
  Callers = {p1}
  Devices = {d1, d2, d3}
  NoDevice = NoDevice
  Sized = {d1, d2}
  FewChannels = {d1, d2}
  Calls <- AllCalls
  MaxStor = 2
  MaxCallbacks = 0
SPECIFICATION Spec
INVARIANT
  TypeOK
  
  StoragesComplete
  StoragePerAcquisition
CHECK_DEADLOCK FALSE
