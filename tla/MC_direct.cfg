SPECIFICATION FairSpec
CONSTANTS
    NumParticles = 4
    NumWorkers = 3
    Locked = {1, 2}
    Targets <- MCTargets
    WindowStart = 0
    WindowEnd = 1
    EndTime = 3
INVARIANTS
    TypeOK
    VelocitiesSumUp
PROPERTIES
    AccumulatesOnce
