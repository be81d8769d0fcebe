CONSTANTS
  Callers = {p1, p2}
  Devices = {d1}
  NoDevice = NoDevice
  Sized = {d1}
  FewChannels = {}
  Calls <- SharedCalls
  MaxStor = 1
  MaxCallbacks = 1
SPECIFICATION FairSpec
INVARIANT
  JoinedIsOver

  
CHECK_DEADLOCK FALSE
