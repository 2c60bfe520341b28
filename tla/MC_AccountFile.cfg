SPECIFICATION AccountsSpec
CONSTANTS
    i1 = i1  i2 = i2  i3 = i3
    k1 = k1  k2 = k2  k3 = k3  k4 = k4
    w1 = w1  w2 = w2
    AccountIds <- ThreeIds
    ApiKeys <- FourKeys
    Workers <- TwoWorkers
    NoAccount = NoAccount
    NoWorker = NoWorker
    TornAccounts = TornAccounts
PROPERTIES
    ImplementsAccountBook
    ReadsAreWhole
SYMMETRY Interchangeable
