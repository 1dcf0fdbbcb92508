SPECIFICATION GuidedSpec
CONSTANTS
  NoDevice = NoDevice
  NoSession = NoSession
  Missing = Missing
  None = None
  Vehicles = {v1}
  Devices = {d1}
  Keys = {k1, k2, k3, k4}
  Sessions = {k1}
  LeaseSeconds = 1
  MaxClock = 1
  tool = tool
  old = old
  new = new
  Definitions = {old, new}
  Requirements = {tool}
  Manifest <- MCManifest
  Actions = {1, 2, 3}
  Procedures <- MCProcedures
  Quantities = {1}
INVARIANTS
  GuidanceIsDefined
  WorkedInOrder
  RecordsAgree
SYMMETRY MCSymmetry
CHECK_DEADLOCK FALSE
