SPECIFICATION Spec
CONSTANTS
    EndIteration = 6
    Frames = 3
    Percent <- Quarter
    application_interval = 2
    target_temperature = 2
    max_temperature_change = 4
    Size = 2
    InitialTemperatures = {1, 7}
    MaxTemperature = 9
    MaxStarts = 4
INVARIANTS
    SamplesComplete
    OncePerProcess
    TemperatureIsRegulated
    DiffusionComparesLike
    ContinuedFails
