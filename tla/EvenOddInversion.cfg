SPECIFICATION Spec
CONSTANTS
    P = 3
    Gaugefields <- MCGaugefields
    Sources <- MCSources
    Runs <- MCRuns
INVARIANTS TypeOK SolvesUpToSign CondensateOfTheMatrix
