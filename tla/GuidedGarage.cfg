SPECIFICATION GuidedSpec
CONSTANTS
  NoDevice = NoDevice
  NoSession = NoSession
  Missing = Missing
  None = None
  Vehicles = {v1}
  Devices = {d1}
  Keys = {k1, k2, k3}
  Sessions = {k1, k2}
  LeaseSeconds = 1
  MaxClock = 0
  tool = tool
  old = old
  new = new
  Definitions = {old, new}
  Requirements = {tool}
  Manifest <- MCManifest
  Actions = {1}
  Procedures <- MCToolProcedure
  Quantities = {1, 2, 3}
INVARIANTS
  GarageKeepsBest
PROPERTIES
  CompletedWithInventory
SYMMETRY MCSymmetry
CHECK_DEADLOCK FALSE
