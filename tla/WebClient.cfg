SPECIFICATION MCSpec
CONSTANTS
  NoDevice = NoDevice
  NoSession = NoSession
  Missing = Missing
  None = None
  Nil = Nil
  Nobody = Nobody
  Vehicles = {v1}
  Devices = {d1, d2}
  Browser = d1
  Keys = {k1, k2, k3}
  Sessions = {k1, k2}
  LeaseSeconds = 1
  MaxClock = 1
  Slots = {1, 2, 3}
  LateWrites = {"create"}
  Links <- MCLinks
  Markets = {US, CA}
  Models = {civic, accord}
  Vins = {vin1, vin2}
  MaxFlights = 3
  Users = {u1, u2}
  MaxAsks = 4
INVARIANTS
  OneHandlerAtATime
  ActiveRepairExists
  GarageFormIsCurrent
  LoadedUnitsAreTheUsers
CONSTRAINT MCScenario
SYMMETRY MCSymmetry
CHECK_DEADLOCK FALSE
