SPECIFICATION Spec
CONSTANTS
    Files = {"main", "inner", "leaf"}
    Main = "main"
    Subs <- Tree
    Versions = {1, 2}
    WriterChoices <- InnerWriter
    EndIteration = 2
    MaxStarts = 2
    MaxEdits = 0
INVARIANT
    SubSimulationsAreRun
