CONSTANTS
  Callers = {p1, p2}
  Devices = {d1}
  NoDevice = NoDevice
  Sized = {d1}
  FewChannels = {d1}
  Calls <- CaptureCalls
  MaxStor = 2
  MaxCallbacks = 0
SPECIFICATION Spec
INVARIANT
  JoinedIsOver
CHECK_DEADLOCK FALSE
