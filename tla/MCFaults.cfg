CONSTANTS
  d1 = d1   d2 = d2   k1 = k1   k2 = k2   cpu = cpu   ram = ram
  q1 = q1   r1 = r1   r2 = r2   r3 = r3   r4 = r4   r5 = r5   r6 = r6
  NoDevice = NoDevice   NoRule = NoRule   NoRequest = NoRequest
  Devices = {d1}
  Keys = {k1, k2}
  KeyOf <- OneKey
  Metrics = {cpu}
  Rules = {q1}
  Requests = {r2, r3}
  Command <- Bodies
  Registered = {d1}
  RulesAtStart <- GlobalRule
  Faults = {"redis", "expire", "notify", "abort"}
  Readers = {}
  Overlap = TRUE
  OfflineAfter = 1
  MaxClock = 3
  Admins = {}
  RuleForms <- NoForms
SPECIFICATION Spec
INVARIANTS
  StatesComeFromHistory
  UnknownMeansNeverSeen
PROPERTIES
  ImplementsCurrentState
  StatusEventsAreTransitions
CHECK_DEADLOCK FALSE
