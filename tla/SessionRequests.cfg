SPECIFICATION Spec
CONSTANTS
  NoDevice = NoDevice
  NoRequest = NoRequest
  Missing = Missing
  Requests = {r1, r2}
  Devices = {d1, d2}
  Keys = {k1, k2, k3}
  CreationKey = k1
  ClientOps = {"create", "snapshot", "acquire", "takeover", "domain", "session_paused", "session_resumed", "session_archived"}
  LeaseSeconds = 1
  MaxClock = 1
INVARIANTS
  CommittedRowIsRight
  AnswersAreKept
  SnapshotIsConsistent
PROPERTIES
  ImplementsHistory
  WriterIsTheEditor
  LeaseIsNotLost
CONSTRAINT MCScenario
SYMMETRY MCSymmetry
