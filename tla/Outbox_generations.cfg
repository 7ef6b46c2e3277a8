CONSTANTS
  a1 = a1  a2 = a2  b1 = b1  sa = sa  sb = sb  w1 = w1  w2 = w2  none = none
  Event <- OneEvent
  Stream = {sa}
  Tenant = {1}
  StreamOf <- OneEventOf
  TenantOf <- SameTenant
  Worker = {w1, w2}
  NoWorker = none
  BatchSize = 1
  MaxInFlight = 1
  MaxAttempts = 2
  MaxReplays = 1
  MaxFaults = 2
SPECIFICATION Spec
SYMMETRY Workers
INVARIANTS AttemptsBounded
