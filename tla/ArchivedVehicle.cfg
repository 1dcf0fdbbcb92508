SPECIFICATION Spec
CONSTANTS
  NoDevice = NoDevice
  NoRequest = NoRequest
  Missing = Missing
  Requests = {r1, r2}
  Devices = {d1}
  Keys = {k1}
  CreationKey = k1
  ClientOps = {"create"}
  LeaseSeconds = 1
  MaxClock = 0
PROPERTIES
  SessionNeedsLiveVehicle
