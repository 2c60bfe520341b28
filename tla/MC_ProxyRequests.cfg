SPECIFICATION FairSpec
CONSTANTS
    a1 = a1  a2 = a2
    r1 = r1  r2 = r2
    Accounts <- TwoAccounts
    Requests <- TwoRequests
    MaxAttempts = 2
    NoAccount = NoAccount
INVARIANTS
    AnsweredOnReturn
    AttemptsAreDistinct
    PoolFindsInstance
    UsageTellsAttempts
PROPERTIES
    RequestsAreAnswered
