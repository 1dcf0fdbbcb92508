SPECIFICATION Spec
CONSTANTS
  NoDevice = NoDevice
  NoSession = NoSession
  Missing = Missing
  Vehicles = {v1}
  Devices = {d1, d2}
  Keys = {k1, k2, k3, k4}
  Sessions = {k1}
  LeaseSeconds = 1
  MaxClock = 3
INVARIANTS
  TypeOK
  HistoryReplays
  FoldIsReference
  ProjectionBehindOrRight
  ListedSessionsAreOpen
  ArchivedSessionHasNoEditor
PROPERTIES
  OnlyTheEditorWrites
  LiveLeaseIsKept
  ImplementsHistory
SYMMETRY MCSymmetry
CHECK_DEADLOCK FALSE
