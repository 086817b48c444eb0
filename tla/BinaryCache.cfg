SPECIFICATION Spec
CONSTANTS
    Processes = {p1, p2}
    Listed = {"dslash.cl", "spinor.cl"}
    Headers = {"types.hpp"}
    NoBinary = NoBinary
    MaxEdits = 1
    MaxTime = 2
    MaxFaults = 1
    MaxStarts = 3
INVARIANTS TypeOK ReadsWholeBinaries CompilesOnlyIfMissing StaleOnlyAfterRace
PROPERTY EveryRequestEnds
