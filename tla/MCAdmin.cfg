CONSTANTS
  d1 = d1   d2 = d2   k1 = k1   k2 = k2   cpu = cpu   ram = ram
  q1 = q1   r1 = r1   r2 = r2   r3 = r3   r4 = r4   r5 = r5   r6 = r6
  NoDevice = NoDevice   NoRule = NoRule   NoRequest = NoRequest
  Devices = {d1, d2}
  Keys = {k1, k2}
  KeyOf <- OneKey
  Metrics = {cpu, ram}
  Rules = {q1}
  Requests = {r1}
  Command <- Bodies
  Registered = {}
  RulesAtStart <- NoRuleYet
  Faults = {"redis", "abort"}
  Readers = {}
  Overlap = TRUE
  OfflineAfter = 1
  MaxClock = 0
  Admins = {a1, a2}
  RuleForms <- DeviceForms
SPECIFICATION Spec
INVARIANTS
  StatesComeFromHistory
  NoDanglingHistory
  DeviceKeysAreUnique
  UnknownMeansNeverSeen
CHECK_DEADLOCK FALSE
