SPECIFICATION Spec
CONSTANTS
    c1 = c1
    c2 = c2
    d1 = d1
    t1 = t1
    t2 = t2
    Command = {c1, c2}
    Device = {d1}
    Runner = {r1, r2}
    Token = {t1, t2}
    NoToken = NoToken
    Requests <- MCPair
    NoRequest = NoRequest
    Adapters <- MCProbeAdapter
    NoAdapter = NoAdapter
    MaxAttempts = 1
    MaxProbes = 1
    MaxReviews = 0
SYMMETRY MCTokenSymmetry
INVARIANTS StoreInv
PROPERTIES LeaseIsFenced
