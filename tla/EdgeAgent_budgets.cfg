SPECIFICATION FairSpec
CONSTANTS
    c1 = c1
    c2 = c2
    d1 = d1
    t1 = t1
    t2 = t2
    Command = {c1}
    Device = {d1}
    Runner = {r1}
    Token = {t1}
    NoToken = NoToken
    Requests <- MCAllPolicies
    NoRequest = NoRequest
    Adapters <- MCAdapters
    NoAdapter = NoAdapter
    MaxAttempts = 3
    MaxProbes = 2
    MaxReviews = 2
INVARIANTS AtMostOncePhysical FailedHadNoEffect StrandedByResendOnly
PROPERTIES ImplementsContract SettlesUnlessProbesLost
