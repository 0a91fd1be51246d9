------------------------------ MODULE CellGrid ------------------------------
(***************************************************************************)
(* The cells of a LinkedCellsContainer: an NX x NY x NZ box of domain      *)
(* cells wrapped in one layer of halo cells, the one-dimensional index of  *)
(* a cell in the vector `cells`, the neighbour relation between cells, and *)
(* the groups of cells the pairwise force loop visits one after the other. *)
(* Everything is fixed by the constructor, so this module has no state.    *)
(***************************************************************************)
EXTENDS Integers

CONSTANTS
    NX, NY, NZ,    \* domain_num_cells
    PARALLEL_V2    \* the compile-time switch PARALLEL_V2

\* The constructor takes the maximum with 1, so every axis has a domain cell.
ASSUME DomainAssumption ==
    /\ NX \in Nat \ {0}
    /\ NY \in Nat \ {0}
    /\ NZ \in Nat \ {0}
    /\ PARALLEL_V2 \in BOOLEAN

-----------------------------------------------------------------------------
(***************************************************************************)
(* Coordinates and indices                                                 *)
(***************************************************************************)

\* The coordinates of all cells, the halo at -1 and at N on each axis.
Cells == (-1 .. NX) \X (-1 .. NY) \X (-1 .. NZ)

NumCells == (NX + 2) * (NY + 2) * (NZ + 2)

\* Mutant: the stride of an axis is taken from its own length.
OwnLengthIndex(c) ==
    (c[1] + 1) * (NX + 2) * (NY + 2) + (c[2] + 1) * (NY + 2) + (c[3] + 1)

cellCoordToCellIndex(c) ==
    IF c[1] < -1 \/ c[1] > NX \/ c[2] < -1 \/ c[2] > NY \/ c[3] < -1 \/ c[3] > NZ
    THEN -1
    ELSE (c[1] + 1) * (NY + 2) * (NZ + 2) + (c[2] + 1) * (NZ + 2) + (c[3] + 1)

\* `cell < neighbour_cell`: both point into `cells`, so the order of the
\* addresses is the order of the indices.
Before(c, d) == cellCoordToCellIndex(c) < cellCoordToCellIndex(d)

-----------------------------------------------------------------------------
(***************************************************************************)
(* Cell types and the per-side lists of cells                              *)
(***************************************************************************)

Axes == 1 .. 3
N == <<NX, NY, NZ>>

Halo == {c \in Cells : \E a \in Axes : c[a] < 0 \/ c[a] >= N[a]}
Boundary == {c \in Cells \ Halo : \E a \in Axes : c[a] = 0 \/ c[a] = N[a] - 1}

\* left, bottom, back are the low sides of the axes 1, 2, 3; right, top and
\* front the high sides.
Sides == Axes \X {"low", "high"}

HaloOf(s) == {c \in Halo : c[s[1]] = IF s[2] = "low" THEN -1 ELSE N[s[1]]}

BoundaryOf(s) == {c \in Boundary : c[s[1]] = IF s[2] = "low" THEN 0 ELSE N[s[1]] - 1}

-----------------------------------------------------------------------------
(***************************************************************************)
(* Neighbours                                                              *)
(***************************************************************************)

Neighbours(c) ==
    {d \in Cells : d # c /\ \A a \in Axes : d[a] - c[a] \in -1 .. 1}

\* The cells a thread that processes c writes to: its own particles and, by
\* Newton's third law, those of the neighbours it does not skip.
Footprint(c) == {c} \cup {d \in Neighbours(c) : ~Before(c, d)}

-----------------------------------------------------------------------------
(***************************************************************************)
(* Iteration orders                                                        *)
(***************************************************************************)

\* Mutant: the spacing of the x axis on the y axis.
SpacingOfX == 2

d_x == 2
d_y == 3
d_z == 3

NumOrders == IF PARALLEL_V2 THEN 1 ELSE d_x * d_y * d_z

\* Mutant: the orders start at the first domain cell and skip the low halo.
DomainStartOffset(g) ==
    <<g \div (d_y * d_z), (g \div d_z) % d_y, g % d_z>>

\* The g-th start offset, counted from 0 as the three nested loops push it.
StartOffset(g) ==
    <<(g \div (d_y * d_z)) - 1, ((g \div d_z) % d_y) - 1, (g % d_z) - 1>>

OnLattice(x, start, stride) == x >= start /\ (x - start) % stride = 0

\* The cells of the g-th iteration order.  With PARALLEL_V2 the only order is
\* a random permutation of all cells; its threads take the cells in any order.
OrderCells(g) ==
    IF PARALLEL_V2
    THEN Cells
    ELSE {c \in Cells : /\ OnLattice(c[1], StartOffset(g)[1], d_x)
                        /\ OnLattice(c[2], StartOffset(g)[2], d_y)
                        /\ OnLattice(c[3], StartOffset(g)[3], d_z)}

=============================================================================
