SPECIFICATION Spec
CONSTANTS
    Holders = {h1}
    Callers = {k1}
    None = None
    LeaseTTLs = {2}
    MaxTime = 3
    MaxAbandons = 0
    NCommands = 2
    Base <- ChainBase
    Imported = {}
    AuthorityUntil <- LongAuthority
    Workers = {w1, w2}
    Recoverers = {r1}
    ClaimTTL = 1
    Freshness = 1
    Reapply = FALSE
    MaxEpoch = 2
    MaxChallenges = 2
INVARIANTS
    TypeOK
    FailedNeverApplied
    RetryOnlyUnapplied
    LiveClaimKeepsTarget
    AppliedKeepsReceiptClaim
PROPERTIES
    EffectsHappenOnce
CHECK_DEADLOCK FALSE
