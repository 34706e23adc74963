SPECIFICATION JournalSpec
CONSTANTS
    w1 = w1
    w2 = w2
    None = None
    Windows <- TwoWindows
    MaxLog = 3
    MaxQueued = 1
    MaxSent = 2
    MaxOps = 3
INVARIANTS
    JournalTypeOK
    OneChain
    HistoryMatchesLog
SYMMETRY WindowsAlike
CHECK_DEADLOCK FALSE
