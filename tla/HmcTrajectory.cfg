SPECIFICATION Spec
CONSTANTS
    P = 11
    LambdaUnit = 12
    Lambda <- MCLambda
    Kappa <- MCKappa
    Mubar <- MCMubar
    Beta = 3
    C1 = 2
    Mass = 2
    Margin = 2
    MetroPoles <- MCMetroPoles
    MDPoles <- MCMDPoles
    Cases <- MCCases
    NoField = NoField
INVARIANTS IntegratorFollowsScheme IntegratorIsReversible TypeOK MotionConservesEnergy DeltaHIsEnergyDifference ObservablesDescribeConfiguration
