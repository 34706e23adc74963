SPECIFICATION Spec
CONSTANTS
    Holders = {h1, h2}
    Callers = {k1}
    None = None
    LeaseTTLs = {1}
    MaxTime = 3
    MaxAbandons = 0
    NCommands = 2
    Base <- RivalBase
    Imported = {1}
    AuthorityUntil <- ShortAuthority
    Workers = {w1}
    Recoverers = {r1}
    ClaimTTL = 2
    Freshness = 1
    Reapply = TRUE
    MaxEpoch = 2
    MaxChallenges = 2
INVARIANTS
    RetryOnlyUnapplied
PROPERTIES
    OnlyTheLeaseHolderWrites
CHECK_DEADLOCK FALSE
