SPECIFICATION Spec
CONSTANTS
    c1 = c1
    c2 = c2
    o1 = o1
    o2 = o2
    NoUsage = NoUsage
    Callers <- TwoCallers
    Objects <- TwoObjects
    Window = 1
    MaxNow = 3
    MaxRecords = 3
SYMMETRY Interchangeable
CHECK_DEADLOCK FALSE
INVARIANTS
    NothingIsForgotten
PROPERTIES
    CountsTheWindow
