SPECIFICATION Spec
SYMMETRY Symm
CONSTANTS
    None = None
    Users = {u1, u2}
    p1 = p1
    p2 = p2
    s1 = s1
    s2 = s2
    s3 = s3
    l1 = l1
    l2 = l2
    Picks = {p1, p2, p3, p4, p5}
    Sources = {s1, s2, s3}
    Totes = {t1, t2}
    Cartons = {c1, c2}
    Lines = {l1, l2}
    Plan <- TwoLines
    Stock <- ThreeSources
INVARIANTS StockConserved ReservedIsLive DemandAccounted WorkHasStock RecoveryCounts SessionReconciles QaStands ShipmentHolds CancelLeavesNoTrace OrderGoesOn
PROPERTIES KeepsPromise
CHECK_DEADLOCK FALSE
