SPECIFICATION FairSpec
CONSTANTS
  Session = {s1, s2}
  Location = {"l1", "l2", "l3", "l4"}
  Batch = {"b1", "b2"}
  Status = {"available", "damaged", "quarantine"}
  Facility = {"f", "g"}
  Item = {"i"}
  Lot = {"b1", "b2"}
  Position <- OpposedPlaces
  FacilityOf <- TwoFacilities
  ItemOf <- OneItem
  LotOf <- TwoLots
  Line = {"x"}
  DemandOf <- Demand2
  LineItem <- ItemI
  Cmd <- Opposed
  Workload <- AllOpposed
  NoCmd = NoCmd
  Opening <- Stocked
  OpeningRows <- StockedRows
INVARIANT CirclesHaveCause
PROPERTY Settles
