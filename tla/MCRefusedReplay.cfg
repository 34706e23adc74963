SPECIFICATION Spec
CONSTANTS
    Holders = {h1, h2}
    Callers = {k1}
    None = None
    LeaseTTLs = {1, 2}
    MaxTime = 3
    MaxAbandons = 0
    NCommands = 1
    Base <- ChainBase
    Imported = {}
    AuthorityUntil <- LongAuthority
    Workers = {w1}
    Recoverers = {r1}
    ClaimTTL = 3
    Freshness = 1
    Reapply = TRUE
    MaxEpoch = 2
    MaxChallenges = 2
INVARIANTS
    FailedNeverApplied
CHECK_DEADLOCK FALSE
