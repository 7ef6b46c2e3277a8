CONSTANTS
  a1 = a1  a2 = a2  b1 = b1  sa = sa  sb = sb  w1 = w1  w2 = w2  none = none
  Event <- ThreeEvents
  Stream = {sa, sb}
  Tenant = {1, 2}
  StreamOf <- ThreeStreamOf
  TenantOf <- TwoTenants
  Worker = {w1}
  NoWorker = none
  BatchSize = 1
  MaxInFlight = 1
  MaxAttempts = 1
  MaxReplays = 0
  MaxFaults = 1
SPECIFICATION FairSpec
ACTION_CONSTRAINT Numbered
INVARIANTS InFlightBounded
PROPERTIES EventuallySettled
