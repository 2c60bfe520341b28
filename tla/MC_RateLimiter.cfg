SPECIFICATION Spec
CONSTANTS
    a1 = a1
    b1 = b1  b2 = b2
    c1 = c1  c2 = c2
    Accounts <- OneAccount
    Callers <- TwoCallers
    Buckets <- BucketIds
    GlobalBucket = GlobalBucket
    NoBucket = NoBucket
    GlobalRPM = 2
    RPMs = {0, 3}
    TicksPerMinute = 5
    MaxNow = 5
INVARIANTS
    GrantsWithinRate
    RetryAfterIsSound
    LimitersPickUpTheRate
PROPERTIES
    LimiterIsNotReplaced
SYMMETRY Interchangeable
