SPECIFICATION FairSpec
CONSTANTS
    Inputs = {A, B}
    EndIteration = 4
    Period <- Mixed
    MaxStarts = 3
    MaxEdits = 2
INVARIANTS
    RunIsOfItsInput
    OutputIsOfThisRun
    NothingMissed
PROPERTIES
    ProgressIsKept
    FinishesUnlessTorn
