SPECIFICATION Spec
CONSTANTS
    GridSize = 2
    LocalT = 3
    HaloExtent = 2
    EoFields = {a, b}
    SpinorFields = {s}
    GaugeFields = {U}
    GaugeMomenta = {P}
    Stale = Stale
    NoField = NoField
    NoOp = NoOp
    LAZY = TRUE
    ASYNC = TRUE
    SOA = TRUE
INVARIANTS TypeOK MainRowsCurrent ClaimedHaloCurrent FinalizeFindsItsLoad BoundaryHaloValid
