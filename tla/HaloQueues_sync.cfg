SPECIFICATION FairSpec
CONSTANTS
    GridSize = 2
    LocalT = 2
    HaloExtent = 2
    ASYNC = FALSE
    DIRECTGMA = TRUE
    BothDirections = TRUE
    MaxRounds = 2
INVARIANTS KernelsReadTheirRound
PROPERTIES SynchronizeReturns
