SPECIFICATION Spec
CONSTANTS
    NX = 3
    NY = 4
    NZ = 3
    PARALLEL_V2 = FALSE
INVARIANTS
    IndexFindsCell
    SideListsComplete
    NeighboursComplete
    OrdersPartitionCells
