CONSTANTS
  s1 = s1   s2 = s2   k1 = k1
  Devices = {s1, s2}
  Keys = {k1}
  KeyOf <- SameKey
  MaxLate = 1
SPECIFICATION FairSpec
INVARIANTS
  TypeOK
  RegisteredIsStored
PROPERTIES
  RecoversFromFailures
  StopsWhenCancelled
CHECK_DEADLOCK FALSE
