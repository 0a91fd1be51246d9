-------------------------- MODULE GridConstruction --------------------------
(***************************************************************************)
(* The constructor of LinkedCellsContainer, loop body by loop body:        *)
(* initCells, initCellNeighbourReferences and initIterationOrders.  The    *)
(* pointers the code keeps are indices into `cells` here, counted from 0;  *)
(* `cells` is reserved up front, so the pointers stay valid.               *)
(*                                                                         *)
(* The module shows that the lists the loops build are the sets CellGrid   *)
(* defines, which the other modules use.                                   *)
(***************************************************************************)
EXTENDS CellGrid, SequencesExt

VARIABLES
    phase,       \* the loop that is running
    cursor,      \* its cell coordinates <<cx, cy, cz>>
    cells,       \* coordinates and type of each cell, in order of creation
    halo,        \* side -> left_halo_cell_references, ...
    boundary,    \* side -> left_boundary_cell_references, ...
    neighbours,  \* index of a cell -> its neighbour_references
    delta,       \* <<dx, dy, dz>> of the next one
    orders       \* iteration_orders

vars == <<phase, cursor, cells, halo, boundary, neighbours, delta, orders>>

\* &cells.back() after the next cell has been created.
Back == Len(cells)

-----------------------------------------------------------------------------
Origin == <<-1, -1, -1>>
End == <<>>

\* The next coordinates of three nested loops that run from `start` by `step`
\* as far as `last`.
Advance(c, start, step, last) ==
    CASE c[3] + step[3] <= last[3] -> <<c[1], c[2], c[3] + step[3]>>
      [] c[3] + step[3] > last[3] /\ c[2] + step[2] <= last[2] ->
            <<c[1], c[2] + step[2], start[3]>>
      [] c[3] + step[3] > last[3] /\ c[2] + step[2] > last[2] /\ c[1] + step[1] <= last[1] ->
            <<c[1] + step[1], start[2], start[3]>>
      [] OTHER -> End

Unit == <<1, 1, 1>>

\* The last halo cell of each axis.
LastCell == <<NX, NY, NZ>>

FirstDelta == <<-1, -1, -1>>

\* Mutant: the loop over dx ends before 1.
HalfOpenDelta == <<0, 1, 1>>

LastDelta == <<1, 1, 1>>

\* Mutant: the spacings of x and z are swapped.
SwappedStride == <<d_z, d_y, d_x>>

\* The PARALLEL_V2 build pushes the cells one by one, in the order of their
\* indices, which is the order of three loops with step 1.
Stride == IF PARALLEL_V2 THEN Unit ELSE <<d_x, d_y, d_z>>

-----------------------------------------------------------------------------
Init ==
    /\ phase = "cells"
    /\ cursor = Origin
    /\ cells = <<>>
    /\ halo = [s \in Sides |-> <<>>]
    /\ boundary = [s \in Sides |-> <<>>]
    /\ neighbours = [i \in 0 .. NumCells - 1 |-> <<>>]
    /\ delta = FirstDelta
    /\ orders = <<>>

IsHalo(c) == \E a \in Axes : c[a] < 0 \/ c[a] >= N[a]
AtEdge(c) == \E a \in Axes : c[a] = 0 \/ c[a] = N[a] - 1

\* References to the new cell go to the list of every side whose layer it is in.
AppendBack(lists, c, layer) ==
    [s \in Sides |-> IF c[s[1]] = layer[s] THEN Append(lists[s], Back) ELSE lists[s]]

\* Mutant: the halo is looked for in the last domain layer.
LastDomainLayer == [s \in Sides |-> IF s[2] = "low" THEN -1 ELSE N[s[1]] - 1]

HaloLayer == [s \in Sides |-> IF s[2] = "low" THEN -1 ELSE N[s[1]]]
BoundaryLayer == [s \in Sides |-> IF s[2] = "low" THEN 0 ELSE N[s[1]] - 1]

Emplace(type) == cells' = Append(cells, [coord |-> cursor, type |-> type])

\* One body of the loops of initCells.
InitCell ==
    /\ phase = "cells"
    /\ \/ /\ IsHalo(cursor)
          /\ Emplace("HALO")
          /\ halo' = AppendBack(halo, cursor, HaloLayer)
          /\ UNCHANGED boundary
       \/ /\ ~IsHalo(cursor) /\ AtEdge(cursor)
          /\ Emplace("BOUNDARY")
          /\ boundary' = AppendBack(boundary, cursor, BoundaryLayer)
          /\ UNCHANGED halo
       \/ /\ ~IsHalo(cursor) /\ ~AtEdge(cursor)
          /\ Emplace("INNER")
          /\ UNCHANGED <<halo, boundary>>
    /\ LET next == Advance(cursor, Origin, Unit, LastCell) IN
         /\ cursor' = IF next = End THEN Origin ELSE next
         /\ phase' = IF next = End THEN "neighbours" ELSE phase
    /\ UNCHANGED <<neighbours, delta, orders>>

Shifted(c, d) == <<c[1] + d[1], c[2] + d[2], c[3] + d[3]>>

\* One body of the inner loops of initCellNeighbourReferences: the cell found
\* through its index gets a reference to the next one around it, those out of
\* bounds left out.
InitCellNeighbour ==
    /\ phase = "neighbours"
    /\ LET index == cellCoordToCellIndex(cursor)
           cell_index == cellCoordToCellIndex(Shifted(cursor, delta))
       IN  neighbours' = IF delta = <<0, 0, 0>> \/ cell_index = -1 THEN neighbours
                         ELSE [neighbours EXCEPT ![index] = Append(@, cell_index)]
    /\ LET nextDelta == Advance(delta, FirstDelta, Unit, LastDelta)
           next == Advance(cursor, Origin, Unit, LastCell)
       IN  \/ /\ nextDelta # End
              /\ delta' = nextDelta
              /\ UNCHANGED <<phase, cursor, orders>>
           \/ /\ nextDelta = End
              /\ delta' = FirstDelta
              /\ cursor' = IF next = End THEN StartOffset(0) ELSE next
              /\ phase' = IF next = End THEN "orders" ELSE phase
              /\ orders' = IF next = End THEN <<<<>>>> ELSE orders
    /\ UNCHANGED <<cells, halo, boundary>>

\* One body of the loops of initIterationOrders: the last element of `orders` is
\* the iteration_order under construction.  The PARALLEL_V2 build shuffles its
\* one order at the end, which permutes it; no thread relies on its sequence.
InitIterationOrder ==
    /\ phase = "orders"
    /\ LET g == Len(orders) - 1
           longer == [orders EXCEPT ![Len(orders)] =
                         Append(@, cellCoordToCellIndex(cursor))]
           next == Advance(cursor, StartOffset(g), Stride, LastCell)
       IN  \/ /\ next # End
              /\ cursor' = next
              /\ orders' = longer
              /\ UNCHANGED phase
           \/ /\ next = End /\ g + 1 < NumOrders
              /\ cursor' = StartOffset(g + 1)
              /\ orders' = Append(longer, <<>>)
              /\ UNCHANGED phase
           \/ /\ next = End /\ g + 1 = NumOrders
              /\ orders' = longer
              /\ phase' = "done"
              /\ UNCHANGED cursor
    /\ UNCHANGED <<cells, halo, boundary, neighbours, delta>>

Constructed == phase = "done" /\ UNCHANGED vars

Next ==
    \/ InitCell
    \/ InitCellNeighbour
    \/ InitIterationOrder
    \/ Constructed

Spec == Init /\ [][Next]_vars

-----------------------------------------------------------------------------
(***************************************************************************)
(* Properties                                                              *)
(***************************************************************************)

IndicesOf(S) == {cellCoordToCellIndex(c) : c \in S}

\* cellCoordToCellIndex finds every cell where initCells has put it: the two
\* are written independently and nothing else ties them together.
IndexFindsCell ==
    \A i \in DOMAIN cells : cellCoordToCellIndex(cells[i].coord) = i - 1

\* The per-side lists of initCells are the layers of CellGrid, without
\* duplicates; corner and edge cells are in several of them.
SideListsComplete ==
    phase = "done" =>
        \A s \in Sides :
            /\ ToSet(halo[s]) = IndicesOf(HaloOf(s)) /\ IsInjective(halo[s])
            /\ ToSet(boundary[s]) = IndicesOf(BoundaryOf(s)) /\ IsInjective(boundary[s])

\* Every cell is linked to the cells around it, once each: two references to
\* one neighbour would apply the forces between them twice.
NeighboursComplete ==
    phase \in {"orders", "done"} =>
        \A c \in Cells :
            LET refs == neighbours[cellCoordToCellIndex(c)]
            IN  ToSet(refs) = IndicesOf(Neighbours(c)) /\ IsInjective(refs)

\* The orders are those of CellGrid, and together they visit every cell exactly
\* once: a cell missing from all orders would lose its forces, a cell in two
\* would apply them twice.
OrdersPartitionCells ==
    phase = "done" =>
        /\ \A g \in 0 .. NumOrders - 1 : ToSet(orders[g + 1]) = IndicesOf(OrderCells(g))
        /\ LET visits == FlattenSeq(orders)
           IN  IsInjective(visits) /\ ToSet(visits) = 0 .. Len(cells) - 1

=============================================================================
