SPECIFICATION Spec
CONSTANTS
    Inputs = {A, B}
    EndIteration = 4
    Period <- Mixed
    MaxStarts = 3
    MaxEdits = 2
INVARIANT
    ForceIsEffective
