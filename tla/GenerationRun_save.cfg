SPECIFICATION Spec
CONSTANTS
    ALGORITHM = "su3heatbath"
    ThermalizationSteps = {0, 2}
    GenerationSteps = 2
    WriteFrequency = 2
    SaveFrequency = 0
    SavePointFrequency = 2
    MEASURE_PBP = FALSE
    RESTART = "save"
    OPERATOR_CHECKS_SIZE = TRUE
    MEMORY_REPEATS = TRUE
    MaxTrajectory = 8
    MaxFaults = 3
INVARIANTS GeneratorNeverAhead
PROPERTIES LastCopyIsKept
CHECK_DEADLOCK FALSE
