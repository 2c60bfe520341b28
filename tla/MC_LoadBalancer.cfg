SPECIFICATION Spec
CONSTANTS
    c1 = c1
    c2 = c2
    Callers <- TwoCallers
    Size = 3
    Lists <- SmallLists
    Strategies = {"round-robin", "priority", "least-used", "smart"}
    Priorities = {0, 1}
    MaxAttempts = 3
    MaxPenalty = 2
    PenaltyTime = 2
    MaxNow = 2
    MaxCount <- FewRecords
    MaxIndex = 7
SYMMETRY Interchangeable
CHECK_DEADLOCK FALSE
INVARIANTS
    LoadsStayClose
PROPERTIES
    PicksBest
