CONSTANTS
  Callers = {p1, p2}
  Options = {o1}
  IntMax = 1
  LongMax = 3
  Words = {0, 1, 2}
  Gvars <- MCGvars
  Arguments <- MCArguments
  Capabilities <- MCCapabilities
  Initially <- MCInitially
  Lists <- MCLists
  OtherLists <- MCOtherLists
  Singles <- MCSingles
SYMMETRY MCSymmetry
SPECIFICATION ConfigSpec
INVARIANT
  ConfigTypeOK
  FaultsAreMisuse
  ScanAgrees
  ListsComplete
PROPERTY
  RegisterSpec
CHECK_DEADLOCK FALSE
