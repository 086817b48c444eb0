SPECIFICATION Spec
CONSTANTS
    ALGORITHM = "hmc"
    ThermalizationSteps = {0, 1}
    GenerationSteps = 2
    WriteFrequency = 2
    SaveFrequency = 1
    SavePointFrequency = 0
    MEASURE_PBP = TRUE
    RESTART = "numbered"
    OPERATOR_CHECKS_SIZE = TRUE
    MEMORY_REPEATS = FALSE
    MaxTrajectory = 4
    MaxFaults = 2
INVARIANTS TypeOK ChainUninterrupted ContinuesAtRightTrajectory SavedConfigurationsWereMeasured
PROPERTIES  ImplementsMarkovChain
