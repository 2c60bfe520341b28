SPECIFICATION FairSpec
CONSTANTS
    a1 = a1
    i1 = i1  i2 = i2
    s1 = s1  s2 = s2
    Accounts <- OneAccount
    Insts <- TwoInsts
    Starters <- TwoStarters
    MaxRetries = 1
    NoAccount = NoAccount
    NoInst = NoInst
INVARIANTS
    NoPanic
    RunningIsRefreshed
    RunningIsRegistered
PROPERTIES
    NeverRevived
    ImplementsAccountStatus
    StoppedLoopEnds
    ExpiredTokenIsRefreshed
CHECK_DEADLOCK FALSE
