SPECIFICATION Spec
CONSTANTS
    ToolIndices <- ThreeTools
    NoCall = NoCall
    MaxBlocks = 4
INVARIANTS
    BlocksNest
    ToolInputInOwnBlock
    CompleteStreamConforms
    TimelyUsageArrives
CHECK_DEADLOCK FALSE
