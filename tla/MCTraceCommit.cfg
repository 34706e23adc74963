SPECIFICATION CommitSpec
CONSTANTS
    t1 = t1
    NCommands = 2
    Targets = {t1}
    TargetOf <- OneTarget
    Calls = {v1, v2}
    ClaimTTL = 2
    Freshness = 1
    MaxTime = 3
    MaxEpoch = 3
    MaxAttempts = 3
INVARIANTS
    CommitTypeOK
    IssuedIsPending
    EvidenceBacksEvent
    ReceiptForItsClaim
PROPERTIES
    CommitsAreLogged
SYMMETRY CallsAlike
CHECK_DEADLOCK FALSE
