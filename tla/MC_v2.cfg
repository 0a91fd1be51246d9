SPECIFICATION FairSpec
CONSTANTS
    NX = 2
    NY = 1
    NZ = 1
    PARALLEL_V2 = TRUE
    NumParticles = 4
    Workers = {w1, w2, w3}
    Placements <- ClusterPlacements
    Locked = {3}
    Far <- OneFarPair
INVARIANTS
    NoDataRace
PROPERTIES
    AccumulatesOnce
