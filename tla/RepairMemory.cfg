SPECIFICATION ReorientationSpec
CONSTANTS
  NoDevice = NoDevice
  NoSession = NoSession
  Missing = Missing
  None = None
  Vehicles = {v1}
  Devices = {d1, d2}
  Keys = {k1, k2, k3, k4}
  Sessions = {k1}
  Repair = k1
  LeaseSeconds = 1
  MaxClock = 1
  Locations = {l1}
  Fasteners = {f1}
  Items = {i1}
  Observations = {o1}
  Photos = {p1}
  PhysicalStates = {"installed", "removed", "stored", "missing"}
  ProcurementStates = {"needed", "available"}
  Quantities = {1, 2}
  RecentEvents = 2
  MaxRead = 3
INVARIANTS
  TablesAgree
  DeletedPhotoHasNoFile
  ReorientationIsWhole
PROPERTIES
  JobIsNotOvertaken
CONSTRAINT MCAnswers
SYMMETRY MCSymmetry
CHECK_DEADLOCK FALSE
