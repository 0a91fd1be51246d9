SPECIFICATION Spec
CONSTANTS
    NX = 2
    NY = 2
    NZ = 1
    PARALLEL_V2 = FALSE
    DomainSize <- Square
    Cutoff = 2
    Reach = 2
    BoundaryChoices <- Mixtures
    StartPositions <- Some
    StartLocked = {2}
    Reserved = 3
    MaxParticles = 3
    Moves <- Fast
INVARIANTS
    ReferencesExact
    GhostsAreTemporary
    ImagesActOnce
    WallsPushOnce
PROPERTIES
    ClosedDomainConserves
    PreparesExactly
