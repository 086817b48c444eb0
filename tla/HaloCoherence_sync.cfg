SPECIFICATION Spec
CONSTANTS
    GridSize = 3
    LocalT = 2
    HaloExtent = 2
    EoFields = {a, b}
    SpinorFields = {s, t}
    GaugeFields = {U}
    GaugeMomenta = {P}
    Stale = Stale
    NoField = NoField
    NoOp = NoOp
    LAZY = TRUE
    ASYNC = FALSE
    SOA = FALSE
INVARIANTS EagerHaloCurrent
