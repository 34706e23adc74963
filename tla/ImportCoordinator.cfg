SPECIFICATION ImportFairSpec
CONSTANTS
    Scenarios = {a, b}
    Calls = {k1, k2}
    None = None
    MaxChanges = 4
    MaxCrashes = 1
INVARIANTS
    ImportTypeOK
    CaptureHoldsLock
    ReadyIsComplete
    DiscardLeavesNothing
PROPERTIES
    WorkIsKept
    OutcomesAreFinal
    DiscardReturns
CHECK_DEADLOCK FALSE
