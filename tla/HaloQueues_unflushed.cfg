SPECIFICATION FairSpec
CONSTANTS
    GridSize = 2
    LocalT = 2
    HaloExtent = 2
    ASYNC = TRUE
    DIRECTGMA = FALSE
    BothDirections = FALSE
    MaxRounds = 1
PROPERTIES SynchronizeReturns
