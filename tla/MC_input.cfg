SPECIFICATION Spec
CONSTANTS
    Configurations <- MCConfigurations
    Texts <- MCTexts
    MaxEdits = 1
    MaxRuns = 2
INVARIANTS
    TypeOK
    ValidIsReadCompletely
    CheckpointIsReadCompletely
    CheckpointGivesParticlesBack
    AcceptedIsReloadable
    SpringsAreMutual
    FrameShowsTheCheckpoint
CHECK_DEADLOCK FALSE
