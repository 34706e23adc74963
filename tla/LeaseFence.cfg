SPECIFICATION LeaseFairSpec
CONSTANTS
    Holders = {h1, h2}
    Callers = {k1, k2}
    None = None
    LeaseTTLs = {1, 2}
    MaxTime = 3
    MaxAbandons = 1
INVARIANTS
    LeaseTypeOK
    FenceBacksLease
    FenceNotAhead
PROPERTIES
    FenceOnlyRises
    RepeatedHandshakeActivates
CHECK_DEADLOCK FALSE
