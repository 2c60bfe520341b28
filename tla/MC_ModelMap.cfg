SPECIFICATION Spec
CONSTANTS
    m1 = m1  m2 = m2  d1 = d1
    Ids <- ThreeIds
    Models <- TwoModels
    Base <- CutDate
    MaxMappings = 2
    Torn = Torn
    Incomplete = Incomplete
    NoPanel = NoPanel
    None = None
INVARIANTS
    ListedModelIsServed
PROPERTIES
    SaveKeepsTheRest
