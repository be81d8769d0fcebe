CONSTANTS
  Callers = {p1}
  Devices = {d1}
  NoDevice = NoDevice
  Sized = {d1}
  FewChannels = {d1}
  Calls <- AllCalls
  MaxStor = 2
  MaxCallbacks = 0
SPECIFICATION FairSpec
PROPERTY
  
  JoinsReturn
CHECK_DEADLOCK FALSE
