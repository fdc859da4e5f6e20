CONSTANTS
  c1 = c1   c2 = c2
  Calls = {c1, c2}
  MaxOutages = 4
SPECIFICATION FairSpec
INVARIANTS
  TypeOK
  NeverStranded
  DialogCoversLostPage
  ListensOnlyAfterFailure
PROPERTIES
  ReloadsOnlyLostCircuits
  RejoinsOrReloads
CHECK_DEADLOCK FALSE
