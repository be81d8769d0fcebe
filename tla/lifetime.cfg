CONSTANTS
  Ids = {i1}
  Sessions = {s1, s2}
  Drivers = {v1, v2}
  Devices = {d1, d2}
  Manager = Manager
  None = None
SPECIFICATION Spec
SYMMETRY Symmetry
INVARIANT
  TypeOK
  ContextGoesLast
  ListedDevicesLive
  OnlyCyclesStay
CHECK_DEADLOCK FALSE
