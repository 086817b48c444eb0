SPECIFICATION Spec
CONSTANTS
    ALGORITHM = "hmc"
    ThermalizationSteps = {0}
    GenerationSteps = 2
    WriteFrequency = 1
    SaveFrequency = 1
    SavePointFrequency = 1
    MEASURE_PBP = FALSE
    RESTART = "numbered"
    OPERATOR_CHECKS_SIZE = FALSE
    MEMORY_REPEATS = FALSE
    MaxTrajectory = 4
    MaxFaults = 2
INVARIANTS GeneratorIsValid
