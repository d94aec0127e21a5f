SPECIFICATION BasesSpec
CONSTANTS
    r1 = r1
    r2 = r2
    c1 = c1
    NoSession = NoSession
    Sessions <- TwoSessions
    Contents <- OneContent
    NVariants = 2
    MaxBases = 1
    MaxPreds = 3
    MaxTrials = 1
    MaxInputs = 0
    Promotions = TRUE
CHECK_DEADLOCK FALSE
INVARIANT NoDeadlock
