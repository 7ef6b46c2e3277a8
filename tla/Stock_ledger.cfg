SPECIFICATION Spec
SYMMETRY Sessions
CONSTANTS
  Session = {s1, s2}
  Location = {"l1", "l2", "l3", "l4"}
  Batch = {"b1", "b2"}
  Status = {"available", "damaged"}
  Facility = {"f", "g"}
  Item = {"i"}
  Lot = {"b1", "b2"}
  Position <- Places
  FacilityOf <- TwoFacilities
  ItemOf <- OneItem
  LotOf <- TwoLots
  Line = {"x"}
  DemandOf <- Demand2
  LineItem <- ItemI
  Cmd <- Requests
  Workload <- Workloads
  NoCmd = NoCmd
  Opening <- Empty
  OpeningRows <- NoRows
INVARIANT ProjectionsAgree
INVARIANT OneLotPerLocation
INVARIANT RecallIsTotal
INVARIANT DeletedBatchIsEmpty
INVARIANT DemandRespected
INVARIANT ChecksStillHold
PROPERTY KeepsBook
