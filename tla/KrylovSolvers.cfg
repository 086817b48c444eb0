SPECIFICATION Spec
CONSTANTS
    P = 7
    Matrices <- MCMatrices
    Sources <- MCSources
    Calls <- MCCalls
    Small = {0, 4}
    NaN = NaN
INVARIANTS TypeOK ResidualFollowsSolution ShiftedResidualsFollow ExactAfterTwoIterations ReturnedSolutionsSolve RetriesSucceed
