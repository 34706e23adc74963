SPECIFICATION HarnessSpec
CONSTANTS
    Runs = {r1, r2}
    Callers = {k1, k2}
    HostOf <- OneHost
    Scripts <- SmallScripts
    Ceiling = {"apply"}
    TokenBudget = 1
    None = None
    MaxEpoch = 3
    MaxCrashes = 1
INVARIANTS
    HarnessTypeOK
    RowFollowsLog
    
PROPERTIES
    OverIsOver
SYMMETRY Alike
CHECK_DEADLOCK FALSE
