CONSTANTS
  c1 = c1   c2 = c2   d1 = d1   d2 = d2   e1 = e1   e2 = e2
  Connections = {c1, c2}
  Devices = {d1, d2}
  GlobalGroup = GlobalGroup
  Events = {e1, e2}
  DeviceOf <- AboutFirst
  OneSubscription = TRUE
SPECIFICATION Spec
INVARIANTS
  TypeOK
  OneStream
PROPERTIES
  SettledReceiveOnce
