SPECIFICATION Spec
CONSTANTS
    NX = 2
    NY = 2
    NZ = 1
    PARALLEL_V2 = FALSE
    DomainSize <- Square
    Cutoff = 2
    Reach = 1
    BoundaryChoices <- OpenOnly
    StartPositions <- Plane
    StartLocked = {}
    Reserved = 2
    MaxParticles = 2
    Moves <- Unit
PROPERTY
    OutflowRemovesEscaped
