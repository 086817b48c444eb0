SPECIFICATION Spec
CONSTANTS
    GridSize = 2
    LocalT = 2
    HaloExtent = 2
    ASYNC = TRUE
    DIRECTGMA = TRUE
    BothDirections = FALSE
    MaxRounds = 3
INVARIANTS TypeOK KernelsReadTheirRound NoConcurrentAccess
PROPERTIES LinksDeliverInOrder
