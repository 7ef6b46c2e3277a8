CONSTANTS
  a1 = a1  a2 = a2  b1 = b1  sa = sa  sb = sb  w1 = w1  w2 = w2  none = none
  Event <- TwoEvents
  Stream = {sa}
  Tenant = {1}
  StreamOf <- OneStreamOf
  TenantOf <- SameTenant
  Worker = {w1, w2}
  NoWorker = none
  BatchSize = 1
  MaxInFlight = 1
  MaxAttempts = 1
  MaxReplays = 0
  MaxFaults = 2
SPECIFICATION Spec
SYMMETRY WorkersAndEvents
INVARIANTS PublishedWasDelivered JournalAgrees
PROPERTIES OrderedFeed
