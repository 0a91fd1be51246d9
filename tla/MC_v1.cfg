SPECIFICATION FairSpec
CONSTANTS
    NX = 2
    NY = 2
    NZ = 1
    PARALLEL_V2 = FALSE
    NumParticles = 3
    Workers = {w1, w2}
    Placements <- PlanePlacements
    Locked = {1}
    Far <- OneFarPair
INVARIANTS
    IInv
    NoDataRace
    DisjointFootprints
PROPERTY
    AccumulatesOnce
