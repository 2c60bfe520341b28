SPECIFICATION PoolSpec
CONSTANTS
    c1 = c1  c2 = c2
    k1 = k1  k2 = k2  k3 = k3
    Consoles <- TwoConsoles
    PoolKeys <- ThreeKeys
    RPMs <- TwoRates
    NoKey = NoKey
    Keep = Keep
    TornPool = TornPool
INVARIANTS
    EnabledHasKey
    LimiterFollowsSettings
PROPERTIES
    UpdatesMerge
SYMMETRY Interchangeable
