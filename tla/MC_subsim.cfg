SPECIFICATION FairSpec
CONSTANTS
    Files = {"main", "inner", "leaf"}
    Main = "main"
    Subs <- Tree
    Versions = {1, 2}
    WriterChoices <- OneWriter
    EndIteration = 2
    MaxStarts = 3
    MaxEdits = 2
INVARIANTS
    NothingLostOrDoubled
    ResultsAreFinal
PROPERTIES
    ResultsAreReused
    FinishesUnlessTorn
