----------------------- MODULE GridConstructionProofs -----------------------
(***************************************************************************)
(* For every size of the domain: the loops of initCells create the cells   *)
(* in the order of their indices, the lists of the sides hold the layers   *)
(* they are named after, the neighbour references are the cells around,    *)
(* and the iteration orders are lattices that together have every cell     *)
(* once.                                                                   *)
(***************************************************************************)
EXTENDS GridConstruction, CellGridProofs, SequenceTheorems, WellFoundedInduction

CellRecords == [coord : Cells, type : {"HALO", "BOUNDARY", "INNER"}]

\* What the loops over dx, dy and dz run through.
AllDeltas == (-1 .. 1) \X (-1 .. 1) \X (-1 .. 1)

LEMMA SizesPositive ==
  /\ NX \in Int /\ NY \in Int /\ NZ \in Int
  /\ 1 <= NX /\ 1 <= NY /\ 1 <= NZ
  BY DomainAssumption DEF DomainAssumption

-----------------------------------------------------------------------------
(***************************************************************************)
(* The loops and the indices                                               *)
(***************************************************************************)

\* The first and the last cell of the loops.
LEMMA Corners ==
  /\ Origin \in Cells /\ cellCoordToCellIndex(Origin) = 0
  /\ LastCell \in Cells /\ cellCoordToCellIndex(LastCell) = NumCells - 1
<1>1. Origin \in Cells /\ LastCell \in Cells
  BY SizesPositive DEF Origin, LastCell, Cells
<1>2. cellCoordToCellIndex(Origin) = 0
  <2>1. Row(Origin) = 0
    BY SizesPositive DEF Row, Origin
  <2>2. cellCoordToCellIndex(Origin) = 0 * (NZ + 2) + (Origin[3] + 1)
    BY <1>1, <2>1, IndexDigits
  <2>. QED
    BY <2>2, SizesPositive DEF Origin
<1>3. cellCoordToCellIndex(LastCell) = NumCells - 1
  <2>. DEFINE L == (NX + 2) * (NY + 2)
  <2>1. Row(LastCell) = L - 1
    BY SizesPositive DEF Row, LastCell
  <2>2. L \in Int /\ NumCells = L * (NZ + 2)
    BY SizesPositive DEF NumCells
  <2>3. cellCoordToCellIndex(LastCell) = (L - 1) * (NZ + 2) + (NZ + 1)
    BY <1>1, <2>1, IndexDigits DEF LastCell
  <2>. HIDE DEF L
  <2>. QED
    BY <2>2, <2>3, SizesPositive
<1>. QED
  BY <1>1, <1>2, <1>3

\* Every index is one of a place in `cells`.
LEMMA IndexInRange ==
  ASSUME NEW c \in Cells
  PROVE  cellCoordToCellIndex(c) \in 0 .. NumCells - 1
<1>1. /\ c[1] \in Int /\ c[2] \in Int /\ c[3] \in Int
      /\ -1 <= c[1] /\ c[1] <= NX
      /\ -1 <= c[2] /\ c[2] <= NY
      /\ -1 <= c[3] /\ c[3] <= NZ
      /\ c = <<c[1], c[2], c[3]>>
  BY CellCoordinates
<1>2. c = LastCell \/ LexBefore(c, LastCell)
  BY <1>1, SizesPositive DEF LastCell, LexBefore
<1>3. c = Origin \/ LexBefore(Origin, c)
  BY <1>1 DEF Origin, LexBefore
<1>4. c = LastCell \/ Before(c, LastCell)
  BY <1>2, Corners, LexImpliesBefore
<1>5. c = Origin \/ Before(Origin, c)
  BY <1>3, Corners, LexImpliesBefore
<1>6. cellCoordToCellIndex(c) \in Int /\ NumCells - 1 \in Int
  BY IndexInt, Corners
<1>7. cellCoordToCellIndex(c) <= NumCells - 1
  BY <1>4, <1>6, Corners DEF Before
<1>8. 0 <= cellCoordToCellIndex(c)
  BY <1>5, <1>6, Corners DEF Before
<1>. QED
  BY <1>6, <1>7, <1>8

LEMMA NumCellsNat == NumCells \in Nat
<1>1. 0 \in 0 .. NumCells - 1
  BY Corners, IndexInRange
<1>2. NumCells \in Int
  BY SizesPositive DEF NumCells
<1>. QED
  BY <1>1, <1>2

\* One step of the loops is one step of the index, and they end behind the
\* last cell.
LEMMA AdvanceIndex ==
  ASSUME NEW c \in Cells
  PROVE  \/ /\ Advance(c, Origin, Unit, LastCell) \in Cells
            /\ Advance(c, Origin, Unit, LastCell) # End
            /\ cellCoordToCellIndex(Advance(c, Origin, Unit, LastCell)) = cellCoordToCellIndex(c) + 1
         \/ /\ Advance(c, Origin, Unit, LastCell) = End
            /\ cellCoordToCellIndex(c) = NumCells - 1
<1>1. /\ c[1] \in Int /\ c[2] \in Int /\ c[3] \in Int
      /\ -1 <= c[1] /\ c[1] <= NX
      /\ -1 <= c[2] /\ c[2] <= NY
      /\ -1 <= c[3] /\ c[3] <= NZ
      /\ c = <<c[1], c[2], c[3]>>
  BY CellCoordinates
<1>2. \A x, y, z : <<x, y, z>> # End
  BY DEF End
<1>3. Row(c) \in Int /\ cellCoordToCellIndex(c) = Row(c) * (NZ + 2) + (c[3] + 1)
  BY IndexDigits
<1>4. CASE c[3] < NZ
  <2>. DEFINE n == <<c[1], c[2], c[3] + 1>>
  <2>1. Advance(c, Origin, Unit, LastCell) = n
    BY <1>1, <1>4, SizesPositive DEF Advance, LastCell, Unit, Origin
  <2>2. n \in Cells
    BY <1>1, <1>4, SizesPositive DEF Cells
  <2>3. Row(n) = Row(c)
    BY DEF Row
  <2>4. cellCoordToCellIndex(n) = Row(c) * (NZ + 2) + (c[3] + 1 + 1)
    BY <2>2, <2>3, IndexDigits
  <2>5. Row(c) * (NZ + 2) \in Int
    BY <1>3, SizesPositive
  <2>6. cellCoordToCellIndex(n) = cellCoordToCellIndex(c) + 1
    BY <1>1, <1>3, <2>4, <2>5
  <2>. QED
    BY <1>2, <2>1, <2>2, <2>6
<1>5. CASE c[3] = NZ /\ c[2] < NY
  <2>. DEFINE n == <<c[1], c[2] + 1, -1>>
  <2>1. Advance(c, Origin, Unit, LastCell) = n
    BY <1>1, <1>5, SizesPositive DEF Advance, LastCell, Unit, Origin
  <2>2. n \in Cells
    BY <1>1, <1>5, SizesPositive DEF Cells
  <2>3. Row(n) = Row(c) + 1
    <3>1. (c[1] + 1) * (NY + 2) \in Int
      BY <1>1, SizesPositive
    <3>. QED
      BY <1>1, <3>1 DEF Row
  <2>4. cellCoordToCellIndex(n) = (Row(c) + 1) * (NZ + 2) + 0
    BY <2>2, <2>3, IndexDigits
  <2>5. cellCoordToCellIndex(c) = Row(c) * (NZ + 2) + (NZ + 1)
    BY <1>3, <1>5
  <2>6. cellCoordToCellIndex(n) = cellCoordToCellIndex(c) + 1
    BY <1>3, <2>4, <2>5, SizesPositive
  <2>. QED
    BY <1>2, <2>1, <2>2, <2>6
<1>6. CASE c[3] = NZ /\ c[2] = NY /\ c[1] < NX
  <2>. DEFINE n == <<c[1] + 1, -1, -1>>
  <2>1. Advance(c, Origin, Unit, LastCell) = n
    BY <1>1, <1>6, SizesPositive DEF Advance, LastCell, Unit, Origin
  <2>2. n \in Cells
    BY <1>1, <1>6, SizesPositive DEF Cells
  <2>3. Row(n) = Row(c) + 1
    BY <1>1, <1>6, SizesPositive DEF Row
  <2>4. cellCoordToCellIndex(n) = (Row(c) + 1) * (NZ + 2) + 0
    BY <2>2, <2>3, IndexDigits
  <2>5. cellCoordToCellIndex(c) = Row(c) * (NZ + 2) + (NZ + 1)
    BY <1>3, <1>6
  <2>6. cellCoordToCellIndex(n) = cellCoordToCellIndex(c) + 1
    BY <1>3, <2>4, <2>5, SizesPositive
  <2>. QED
    BY <1>2, <2>1, <2>2, <2>6
<1>7. CASE c[3] = NZ /\ c[2] = NY /\ c[1] = NX
  <2>1. Advance(c, Origin, Unit, LastCell) = End
    BY <1>7, SizesPositive DEF Advance, LastCell, Unit
  <2>2. c = LastCell
    BY <1>1, <1>7 DEF LastCell
  <2>. QED
    BY <2>1, <2>2, Corners
<1>. QED
  BY <1>1, <1>4, <1>5, <1>6, <1>7, SizesPositive

-----------------------------------------------------------------------------
(***************************************************************************)
(* The lists of the sides                                                  *)
(***************************************************************************)

\* The indices of those cells of S that are among the first n.
FirstOf(S, n) ==
  {cellCoordToCellIndex(c) : c \in {d \in S : cellCoordToCellIndex(d) < n}}

\* `list` has the cells of S among the first n, without duplicates.
Lists(list, S, n) ==
  /\ list \in Seq(Int)
  /\ IsInjective(list)
  /\ ToSet(list) = FirstOf(S, n)

LEMMA FirstOfNext ==
  ASSUME NEW S \in SUBSET Cells, NEW c \in Cells
  PROVE  LET n == cellCoordToCellIndex(c)
         IN  FirstOf(S, n + 1) = FirstOf(S, n) \cup (IF c \in S THEN {n} ELSE {})
<1>. DEFINE n == cellCoordToCellIndex(c)
<1>1. n \in Int
  BY IndexInt
<1>2. \A d \in S : /\ cellCoordToCellIndex(d) \in Int
                   /\ cellCoordToCellIndex(d) = n => d = c
  BY IndexInt, IndexInjective
<1>. HIDE DEF n
<1>3. \A d \in S : cellCoordToCellIndex(d) < n + 1
                     <=> cellCoordToCellIndex(d) < n \/ d = c
  <2>1. cellCoordToCellIndex(c) = n
    BY DEF n
  <2>. QED
    BY <1>1, <1>2, <2>1
<1>4. cellCoordToCellIndex(c) = n
  BY DEF n
<1>5. FirstOf(S, n + 1) = FirstOf(S, n) \cup (IF c \in S THEN {n} ELSE {})
  BY <1>3, <1>4, Zenon DEF FirstOf
<1>. QED
  BY <1>5 DEF n

\* push_back of something new.
LEMMA AppendedOnce ==
  ASSUME NEW list \in Seq(Int), IsInjective(list), NEW n \in Int, n \notin ToSet(list)
  PROVE  /\ Append(list, n) \in Seq(Int)
         /\ IsInjective(Append(list, n))
         /\ ToSet(Append(list, n)) = ToSet(list) \cup {n}
<1>. DEFINE longer == Append(list, n)
<1>1. /\ longer \in Seq(Int)
      /\ Len(longer) = Len(list) + 1
      /\ \A i \in 1 .. Len(list) : longer[i] = list[i]
      /\ longer[Len(list) + 1] = n
  BY AppendProperties
<1>2. Len(list) \in Nat /\ DOMAIN list = 1 .. Len(list)
  OBVIOUS
<1>3. DOMAIN longer = 1 .. (Len(list) + 1)
  BY <1>1
<1>. HIDE DEF longer
<1>4. \A i \in DOMAIN list : list[i] # n
  BY DEF ToSet
<1>5. IsInjective(longer)
  <2>. SUFFICES ASSUME NEW i \in DOMAIN longer, NEW j \in DOMAIN longer,
                       longer[i] = longer[j]
                PROVE  i = j
    BY DEF IsInjective
  <2>1. \A k \in DOMAIN longer : k \in DOMAIN list \/ k = Len(list) + 1
    BY <1>2, <1>3
  <2>2. CASE i \in DOMAIN list /\ j \in DOMAIN list
    BY <1>1, <1>2, <2>2 DEF IsInjective
  <2>3. CASE i \in DOMAIN list /\ j = Len(list) + 1
    BY <1>1, <1>2, <1>4, <2>3
  <2>4. CASE i = Len(list) + 1 /\ j \in DOMAIN list
    BY <1>1, <1>2, <1>4, <2>4
  <2>. QED
    BY <2>1, <2>2, <2>3, <2>4
<1>6. ToSet(longer) = ToSet(list) \cup {n}
  <2>1. ASSUME NEW x \in ToSet(longer) PROVE x \in ToSet(list) \cup {n}
    <3>1. PICK i \in DOMAIN longer : longer[i] = x
      BY <2>1 DEF ToSet
    <3>2. i \in DOMAIN list \/ i = Len(list) + 1
      BY <1>2, <1>3
    <3>. QED
      BY <1>1, <1>2, <3>1, <3>2 DEF ToSet
  <2>2. ASSUME NEW x \in ToSet(list) PROVE x \in ToSet(longer)
    <3>1. PICK i \in DOMAIN list : list[i] = x
      BY <2>2 DEF ToSet
    <3>2. i \in DOMAIN longer /\ longer[i] = x
      BY <1>1, <1>2, <1>3, <3>1
    <3>. QED
      BY <3>2 DEF ToSet
  <2>3. n \in ToSet(longer)
    <3>1. Len(list) + 1 \in DOMAIN longer
      BY <1>2, <1>3
    <3>. QED
      BY <1>1, <3>1 DEF ToSet
  <2>. QED
    BY <2>1, <2>2, <2>3
<1>. QED
  BY <1>1, <1>5, <1>6 DEF longer

\* A reference is pushed back to the list exactly if the new cell is in S.
LEMMA PushedBack ==
  ASSUME NEW S \in SUBSET Cells, NEW c \in Cells, NEW list,
         Lists(list, S, cellCoordToCellIndex(c))
  PROVE  LET n == cellCoordToCellIndex(c)
         IN  Lists(IF c \in S THEN Append(list, n) ELSE list, S, n + 1)
<1>. DEFINE n == cellCoordToCellIndex(c)
<1>1. n \in Int
  BY IndexInt
<1>2. FirstOf(S, n + 1) = FirstOf(S, n) \cup (IF c \in S THEN {n} ELSE {})
  BY FirstOfNext
<1>3. n \notin FirstOf(S, n)
  BY <1>1 DEF FirstOf
<1>4. list \in Seq(Int) /\ IsInjective(list) /\ ToSet(list) = FirstOf(S, n)
  BY DEF Lists
<1>. HIDE DEF n
<1>5. CASE c \in S
  BY <1>1, <1>2, <1>3, <1>4, <1>5, AppendedOnce DEF Lists, n
<1>6. CASE c \notin S
  BY <1>2, <1>4, <1>6 DEF Lists, n
<1>. QED
  BY <1>5, <1>6

LEMMA NothingListed == ASSUME NEW S \in SUBSET Cells PROVE Lists(<<>>, S, 0)
<1>1. FirstOf(S, 0) = {}
  <2>1. \A c \in S : ~(cellCoordToCellIndex(c) < 0)
    BY IndexInRange, NumCellsNat
  <2>. QED
    BY <2>1 DEF FirstOf
<1>2. <<>> \in Seq(Int) /\ DOMAIN <<>> = {}
  OBVIOUS
<1>. QED
  BY <1>1, <1>2 DEF Lists, IsInjective, ToSet

\* In the end a list has all the cells of S.
LEMMA AllListed ==
  ASSUME NEW S \in SUBSET Cells
  PROVE  FirstOf(S, NumCells) = IndicesOf(S)
<1>1. \A c \in S : cellCoordToCellIndex(c) < NumCells
  BY IndexInRange, NumCellsNat
<1>. QED
  BY <1>1 DEF FirstOf, IndicesOf

\* A cell is in the layer of a side if it is of the type and at the coordinate.
LEMMA LayerOfSide ==
  ASSUME NEW c \in Cells, NEW s \in Sides
  PROVE  /\ c \in HaloOf(s) <=> IsHalo(c) /\ c[s[1]] = HaloLayer[s]
         /\ c \in BoundaryOf(s) <=> ~IsHalo(c) /\ AtEdge(c) /\ c[s[1]] = BoundaryLayer[s]
         /\ HaloOf(s) \in SUBSET Cells /\ BoundaryOf(s) \in SUBSET Cells
<1>1. /\ HaloLayer[s] = IF s[2] = "low" THEN -1 ELSE N[s[1]]
      /\ BoundaryLayer[s] = IF s[2] = "low" THEN 0 ELSE N[s[1]] - 1
  BY DEF HaloLayer, BoundaryLayer
<1>2. (c \in Halo <=> IsHalo(c)) /\ (c \in Boundary <=> ~IsHalo(c) /\ AtEdge(c))
  BY DEF Halo, Boundary, IsHalo, AtEdge
<1>3. Halo \in SUBSET Cells /\ Boundary \in SUBSET Cells
  BY DEF Halo, Boundary
<1>. QED
  BY <1>1, <1>2, <1>3, Zenon DEF HaloOf, BoundaryOf

-----------------------------------------------------------------------------
(***************************************************************************)
(* The neighbour references                                                *)
(***************************************************************************)

\* A cell found by shifting the coordinates is a neighbour, unless it is the cell
\* itself or out of bounds.
LEMMA ShiftedIsNeighbour ==
  ASSUME NEW c \in Cells, NEW d \in AllDeltas
  PROVE  Shifted(c, d) \in Neighbours(c)
           <=> d # <<0, 0, 0>> /\ cellCoordToCellIndex(Shifted(c, d)) # -1
<1>1. /\ c[1] \in Int /\ c[2] \in Int /\ c[3] \in Int
      /\ c = <<c[1], c[2], c[3]>>
  BY CellCoordinates
<1>2. /\ d[1] \in -1 .. 1 /\ d[2] \in -1 .. 1 /\ d[3] \in -1 .. 1
      /\ d = <<d[1], d[2], d[3]>>
  BY DEF AllDeltas
<1>3. PICK e : e = Shifted(c, d)
  OBVIOUS
<1>4. /\ e[1] = c[1] + d[1] /\ e[2] = c[2] + d[2] /\ e[3] = c[3] + d[3]
      /\ e[1] \in Int /\ e[2] \in Int /\ e[3] \in Int
      /\ e = <<e[1], e[2], e[3]>>
  BY <1>1, <1>2, <1>3 DEF Shifted
<1>5. e = c <=> d = <<0, 0, 0>>
  <2>1. e = c <=> e[1] = c[1] /\ e[2] = c[2] /\ e[3] = c[3]
    BY <1>1, <1>4
  <2>2. d = <<0, 0, 0>> <=> d[1] = 0 /\ d[2] = 0 /\ d[3] = 0
    BY <1>2
  <2>. QED
    BY <1>1, <1>2, <1>4, <2>1, <2>2
<1>6. \A a \in Axes : e[a] - c[a] \in -1 .. 1
  BY <1>1, <1>2, <1>4 DEF Axes
<1>7. cellCoordToCellIndex(e) # -1 => e \in Cells
  <2>. SUFFICES ASSUME cellCoordToCellIndex(e) # -1 PROVE e \in Cells
    OBVIOUS
  <2>1. /\ ~(e[1] < -1) /\ ~(e[1] > NX) /\ ~(e[2] < -1) /\ ~(e[2] > NY)
        /\ ~(e[3] < -1) /\ ~(e[3] > NZ)
    BY DEF cellCoordToCellIndex
  <2>2. e[1] \in -1 .. NX /\ e[2] \in -1 .. NY /\ e[3] \in -1 .. NZ
    BY <1>4, <2>1, SizesPositive
  <2>3. <<e[1], e[2], e[3]>> \in Cells
    BY <2>2 DEF Cells
  <2>. QED
    BY <1>4, <2>3
<1>8. e \in Cells => cellCoordToCellIndex(e) # -1
  BY IndexInRange, NumCellsNat
<1>9. e \in Neighbours(c) <=> d # <<0, 0, 0>> /\ cellCoordToCellIndex(e) # -1
  BY <1>5, <1>6, <1>7, <1>8 DEF Neighbours
<1>. QED
  BY <1>3, <1>9

\* The neighbours the loops over the deltas come by before d.
NeighboursBefore(c, d) == {e \in Neighbours(c) : LexBefore(e, Shifted(c, d))}

LEMMA NoneBeforeFirst ==
  ASSUME NEW c \in Cells
  PROVE  NeighboursBefore(c, FirstDelta) = {}
<1>1. c[1] \in Int /\ c[2] \in Int /\ c[3] \in Int
  BY CellCoordinates
<1>2. ASSUME NEW e \in Neighbours(c) PROVE ~LexBefore(e, Shifted(c, FirstDelta))
  <2>1. /\ e[1] - c[1] \in -1 .. 1 /\ e[2] - c[2] \in -1 .. 1 /\ e[3] - c[3] \in -1 .. 1
        /\ e \in Cells
    BY DEF Neighbours, Axes
  <2>2. e[1] \in Int /\ e[2] \in Int /\ e[3] \in Int
    BY <2>1, CellCoordinates
  <2>. QED
    BY <1>1, <2>1, <2>2 DEF LexBefore, Shifted, FirstDelta
<1>. QED
  BY <1>2 DEF NeighboursBefore

\* One step of these loops comes by one cell, and they end behind the last
\* neighbour.
LEMMA DeltaAdvances ==
  ASSUME NEW c \in Cells, NEW d \in AllDeltas
  PROVE  LET n == Advance(d, FirstDelta, Unit, LastDelta)
             found == NeighboursBefore(c, d) \cup ({Shifted(c, d)} \cap Neighbours(c))
         IN  \/ n # End /\ n \in AllDeltas /\ NeighboursBefore(c, n) = found
             \/ n = End /\ Neighbours(c) = found
<1>. DEFINE n == Advance(d, FirstDelta, Unit, LastDelta)
            found == NeighboursBefore(c, d) \cup ({Shifted(c, d)} \cap Neighbours(c))
<1>1. c[1] \in Int /\ c[2] \in Int /\ c[3] \in Int
  BY CellCoordinates
<1>2. /\ d[1] \in Int /\ d[2] \in Int /\ d[3] \in Int
      /\ -1 <= d[1] /\ d[1] <= 1 /\ -1 <= d[2] /\ d[2] <= 1 /\ -1 <= d[3] /\ d[3] <= 1
  BY DEF AllDeltas
<1>3. ASSUME NEW e \in Neighbours(c)
      PROVE  /\ e[1] \in Int /\ e[2] \in Int /\ e[3] \in Int
             /\ -1 <= e[1] - c[1] /\ e[1] - c[1] <= 1
             /\ -1 <= e[2] - c[2] /\ e[2] - c[2] <= 1
             /\ -1 <= e[3] - c[3] /\ e[3] - c[3] <= 1
             /\ e = Shifted(c, d) <=> /\ e[1] = c[1] + d[1]
                                     /\ e[2] = c[2] + d[2]
                                     /\ e[3] = c[3] + d[3]
  <2>1. e \in Cells /\ e[1] - c[1] \in -1 .. 1 /\ e[2] - c[2] \in -1 .. 1
        /\ e[3] - c[3] \in -1 .. 1
    BY DEF Neighbours, Axes
  <2>2. e[1] \in Int /\ e[2] \in Int /\ e[3] \in Int /\ e = <<e[1], e[2], e[3]>>
    BY <2>1, CellCoordinates
  <2>. QED
    BY <1>1, <1>2, <2>1, <2>2 DEF Shifted
<1>4. ASSUME NEW m \in AllDeltas, n = m,
             \A e \in Neighbours(c) : LexBefore(e, Shifted(c, m))
                                        <=> LexBefore(e, Shifted(c, d)) \/ e = Shifted(c, d)
      PROVE  n \in AllDeltas /\ NeighboursBefore(c, n) = found
  BY <1>4, Zenon DEF NeighboursBefore
<1>5. \A x, y, z : <<x, y, z>> # End
  BY DEF End
<1>6. CASE d[3] < 1
  <2>. DEFINE m == <<d[1], d[2], d[3] + 1>>
  <2>1. n = m /\ m \in AllDeltas
    BY <1>2, <1>6 DEF Advance, Unit, LastDelta, AllDeltas
  <2>2. \A e \in Neighbours(c) : LexBefore(e, Shifted(c, m))
                                   <=> LexBefore(e, Shifted(c, d)) \/ e = Shifted(c, d)
    <3>. SUFFICES ASSUME NEW e \in Neighbours(c)
                  PROVE  LexBefore(e, Shifted(c, m))
                           <=> LexBefore(e, Shifted(c, d)) \/ e = Shifted(c, d)
      OBVIOUS
    <3>1. Shifted(c, m) = <<c[1] + d[1], c[2] + d[2], c[3] + (d[3] + 1)>>
      BY DEF Shifted
    <3>2. Shifted(c, d) = <<c[1] + d[1], c[2] + d[2], c[3] + d[3]>>
      BY DEF Shifted
    <3>. HIDE DEF m
    <3>. QED
      BY <1>1, <1>2, <1>3, <3>1, <3>2, <1>6, SMTT(30) DEF LexBefore
  <2>. QED
    BY <1>4, <1>5, <2>1, <2>2
<1>7. CASE d[3] = 1 /\ d[2] < 1
  <2>. DEFINE m == <<d[1], d[2] + 1, -1>>
  <2>1. n = m /\ m \in AllDeltas
    BY <1>2, <1>7 DEF Advance, Unit, LastDelta, FirstDelta, AllDeltas
  <2>2. \A e \in Neighbours(c) : LexBefore(e, Shifted(c, m))
                                   <=> LexBefore(e, Shifted(c, d)) \/ e = Shifted(c, d)
    <3>. SUFFICES ASSUME NEW e \in Neighbours(c)
                  PROVE  LexBefore(e, Shifted(c, m))
                           <=> LexBefore(e, Shifted(c, d)) \/ e = Shifted(c, d)
      OBVIOUS
    <3>1. Shifted(c, m) = <<c[1] + d[1], c[2] + (d[2] + 1), c[3] + (-1)>>
      BY DEF Shifted
    <3>2. Shifted(c, d) = <<c[1] + d[1], c[2] + d[2], c[3] + d[3]>>
      BY DEF Shifted
    <3>. HIDE DEF m
    <3>. QED
      BY <1>1, <1>2, <1>3, <3>1, <3>2, <1>7, SMTT(30) DEF LexBefore
  <2>. QED
    BY <1>4, <1>5, <2>1, <2>2
<1>8. CASE d[3] = 1 /\ d[2] = 1 /\ d[1] < 1
  <2>. DEFINE m == <<d[1] + 1, -1, -1>>
  <2>1. n = m /\ m \in AllDeltas
    BY <1>2, <1>8 DEF Advance, Unit, LastDelta, FirstDelta, AllDeltas
  <2>2. \A e \in Neighbours(c) : LexBefore(e, Shifted(c, m))
                                   <=> LexBefore(e, Shifted(c, d)) \/ e = Shifted(c, d)
    BY <1>1, <1>2, <1>3, <1>8 DEF LexBefore, Shifted
  <2>. QED
    BY <1>4, <1>5, <2>1, <2>2
<1>9. CASE d[3] = 1 /\ d[2] = 1 /\ d[1] = 1
  <2>1. n = End
    BY <1>9 DEF Advance, Unit, LastDelta
  <2>2. \A e \in Neighbours(c) : LexBefore(e, Shifted(c, d)) \/ e = Shifted(c, d)
    BY <1>1, <1>2, <1>3, <1>9 DEF LexBefore, Shifted
  <2>3. Neighbours(c) = found
    BY <2>2, Zenon DEF NeighboursBefore
  <2>. QED
    BY <2>1, <2>3
<1>. QED
  BY <1>2, <1>6, <1>7, <1>8, <1>9

\* `list` has the references of the cells in S, once each.
Linked(list, S) ==
  /\ list \in Seq(Int)
  /\ IsInjective(list)
  /\ ToSet(list) = IndicesOf(S)

LEMMA LinkedOnce ==
  ASSUME NEW S \in SUBSET Cells, NEW e \in Cells \ S, NEW list, Linked(list, S)
  PROVE  Linked(Append(list, cellCoordToCellIndex(e)), S \cup {e})
<1>. DEFINE n == cellCoordToCellIndex(e)
<1>1. n \in Int
  BY IndexInt
<1>2. n \notin IndicesOf(S)
  BY IndexInjective DEF IndicesOf
<1>3. IndicesOf(S \cup {e}) = IndicesOf(S) \cup {n}
  BY DEF IndicesOf
<1>. HIDE DEF n
<1>4. Linked(Append(list, n), S \cup {e})
  BY <1>1, <1>2, <1>3, AppendedOnce DEF Linked
<1>. QED
  BY <1>4 DEF n

-----------------------------------------------------------------------------
(***************************************************************************)
(* The inductive invariant                                                 *)
(***************************************************************************)

TypeOK ==
  /\ phase \in {"cells", "neighbours", "orders", "done"}
  /\ phase \in {"cells", "neighbours"} => cursor \in Cells
  /\ cells \in Seq(CellRecords)
  /\ neighbours \in [0 .. NumCells - 1 -> Seq(Int)]
  /\ delta \in AllDeltas
  /\ halo = [s \in Sides |-> halo[s]]
  /\ boundary = [s \in Sides |-> boundary[s]]

\* The index of the cursor counts what the running loop has done.
CursorCounts ==
  /\ phase = "cells" => Len(cells) = cellCoordToCellIndex(cursor)
  /\ phase # "cells" => Len(cells) = NumCells
  /\ phase = "cells" => delta = FirstDelta

\* The lists of the sides have what has been created of their layers.
SideLists ==
  \A s \in Sides : /\ Lists(halo[s], HaloOf(s), Len(cells))
                   /\ Lists(boundary[s], BoundaryOf(s), Len(cells))

\* The neighbours of c that have been linked to it: those of the cells before the
\* cursor are complete, those of the cell at the cursor up to the delta.
LinkedSoFar(c) ==
  CASE phase = "cells" -> {}
    [] phase = "neighbours" /\ c = cursor -> NeighboursBefore(c, delta)
    [] phase = "neighbours" /\ c # cursor ->
         IF Before(c, cursor) THEN Neighbours(c) ELSE {}
    [] OTHER -> Neighbours(c)

References ==
  \A c \in Cells : Linked(neighbours[cellCoordToCellIndex(c)], LinkedSoFar(c))

IInv == TypeOK /\ CursorCounts /\ IndexFindsCell /\ SideLists /\ References

LEMMA FirstIsDelta == FirstDelta \in AllDeltas
  BY DEF FirstDelta, AllDeltas

LEMMA NothingLinked == Linked(<<>>, {})
<1>1. <<>> \in Seq(Int) /\ DOMAIN <<>> = {} /\ IndicesOf({}) = {}
  BY DEF IndicesOf
<1>. QED
  BY <1>1 DEF Linked, IsInjective, ToSet

LEMMA InitInv == Init => IInv
<1>. SUFFICES ASSUME Init PROVE IInv
  OBVIOUS
<1>. USE DEF Init
<1>1. /\ <<>> \in Seq(CellRecords) /\ <<>> \in Seq(Int)
      /\ Len(<<>>) = 0 /\ DOMAIN <<>> = {}
  OBVIOUS
<1>2. TypeOK
  BY <1>1, FirstIsDelta, Corners DEF TypeOK
<1>3. CursorCounts
  BY <1>1, Corners DEF CursorCounts
<1>4. IndexFindsCell
  BY <1>1 DEF IndexFindsCell
<1>5. SideLists
  <2>. SUFFICES ASSUME NEW s \in Sides
                PROVE  Lists(<<>>, HaloOf(s), 0) /\ Lists(<<>>, BoundaryOf(s), 0)
    BY <1>1 DEF SideLists
  <2>1. HaloOf(s) \in SUBSET Cells /\ BoundaryOf(s) \in SUBSET Cells
    BY DEF HaloOf, BoundaryOf, Halo, Boundary
  <2>. QED
    BY <2>1, NothingListed
<1>6. References
  <2>. SUFFICES ASSUME NEW c \in Cells
                PROVE  Linked(neighbours[cellCoordToCellIndex(c)], {})
    BY DEF References, LinkedSoFar
  <2>1. neighbours[cellCoordToCellIndex(c)] = <<>>
    BY IndexInRange
  <2>. QED
    BY <2>1, NothingLinked
<1>. QED
  BY <1>2, <1>3, <1>4, <1>5, <1>6 DEF IInv

\* One body of initCells: the new cell is where its index says, and in the list
\* of a side exactly if it is in the layer.
LEMMA InitCellInv == IInv /\ InitCell => IInv'
<1>. SUFFICES ASSUME IInv, InitCell PROVE IInv'
  OBVIOUS
<1>. DEFINE n == cellCoordToCellIndex(cursor)
<1>1. /\ phase = "cells" /\ cursor \in Cells /\ Len(cells) = n
      /\ cells \in Seq(CellRecords) /\ delta = FirstDelta
  BY DEF IInv, TypeOK, CursorCounts, InitCell
<1>2. n \in Int /\ 0 <= n /\ n < NumCells
  BY <1>1, IndexInRange, NumCellsNat
<1>3. PICK type \in {"HALO", "BOUNDARY", "INNER"} :
        cells' = Append(cells, [coord |-> cursor, type |-> type])
  BY DEF InitCell, Emplace
<1>4. neighbours' = neighbours /\ delta' = delta
  BY DEF InitCell
<1>. HIDE DEF n
<1>5. /\ cells' \in Seq(CellRecords)
      /\ Len(cells') = n + 1
      /\ \A i \in 1 .. Len(cells) : cells'[i] = cells[i]
      /\ cells'[n + 1].coord = cursor
  <2>1. [coord |-> cursor, type |-> type] \in CellRecords
    BY <1>1 DEF CellRecords
  <2>. QED
    BY <1>1, <1>3, <2>1, AppendProperties
<1>6. \/ /\ phase' = "cells" /\ cursor' \in Cells
         /\ cellCoordToCellIndex(cursor') = n + 1
      \/ /\ phase' = "neighbours" /\ cursor' = Origin /\ n = NumCells - 1
  BY <1>1, AdvanceIndex DEF InitCell, n
<1>7. TypeOK'
  <2>1. halo' = [s \in Sides |-> halo'[s]] /\ boundary' = [s \in Sides |-> boundary'[s]]
    BY DEF IInv, TypeOK, InitCell, AppendBack
  <2>2. cursor' \in Cells /\ phase' \in {"cells", "neighbours"}
    BY <1>6, Corners
  <2>. QED
    BY <1>4, <1>5, <2>1, <2>2 DEF IInv, TypeOK
<1>8. CursorCounts'
  BY <1>1, <1>2, <1>4, <1>5, <1>6, Corners, NumCellsNat DEF CursorCounts
<1>9. IndexFindsCell'
  <2>. SUFFICES ASSUME NEW i \in DOMAIN cells'
                PROVE  cellCoordToCellIndex(cells'[i].coord) = i - 1
    BY DEF IndexFindsCell
  <2>1. i \in 1 .. n + 1 /\ DOMAIN cells = 1 .. n
    BY <1>1, <1>2, <1>5
  <2>2. CASE i \in 1 .. n
    BY <1>1, <1>5, <2>1, <2>2 DEF IInv, IndexFindsCell
  <2>3. CASE i = n + 1
    BY <1>2, <1>5, <2>3 DEF n
  <2>. QED
    BY <1>2, <2>1, <2>2, <2>3
<1>10. SideLists'
  <2>. SUFFICES ASSUME NEW s \in Sides
                PROVE  /\ Lists(halo'[s], HaloOf(s), n + 1)
                       /\ Lists(boundary'[s], BoundaryOf(s), n + 1)
    BY <1>5 DEF SideLists
  <2>1. /\ cursor \in HaloOf(s) <=> IsHalo(cursor) /\ cursor[s[1]] = HaloLayer[s]
        /\ cursor \in BoundaryOf(s)
             <=> ~IsHalo(cursor) /\ AtEdge(cursor) /\ cursor[s[1]] = BoundaryLayer[s]
        /\ HaloOf(s) \in SUBSET Cells /\ BoundaryOf(s) \in SUBSET Cells
    BY <1>1, LayerOfSide
  <2>2. /\ Lists(halo[s], HaloOf(s), n) /\ Lists(boundary[s], BoundaryOf(s), n)
    BY <1>1 DEF IInv, SideLists
  <2>3. /\ Lists(IF cursor \in HaloOf(s) THEN Append(halo[s], n) ELSE halo[s],
                 HaloOf(s), n + 1)
        /\ Lists(IF cursor \in BoundaryOf(s) THEN Append(boundary[s], n) ELSE boundary[s],
                 BoundaryOf(s), n + 1)
    BY <1>1, <2>1, <2>2, PushedBack DEF n
  <2>4. Back = n
    BY <1>1 DEF Back
  <2>5. halo'[s] = IF cursor \in HaloOf(s) THEN Append(halo[s], n) ELSE halo[s]
    BY <2>1, <2>4 DEF InitCell, AppendBack
  <2>6. boundary'[s] = IF cursor \in BoundaryOf(s) THEN Append(boundary[s], n) ELSE boundary[s]
    BY <2>1, <2>4 DEF InitCell, AppendBack
  <2>. QED
    BY <2>3, <2>5, <2>6
<1>11. References'
  <2>. SUFFICES ASSUME NEW c \in Cells
                PROVE  Linked(neighbours[cellCoordToCellIndex(c)], LinkedSoFar(c)')
    BY <1>4 DEF References
  <2>1. Linked(neighbours[cellCoordToCellIndex(c)], {})
    BY <1>1 DEF IInv, References, LinkedSoFar
  <2>2. LinkedSoFar(c)' = {}
    <3>1. CASE phase' = "cells"
      BY <3>1 DEF LinkedSoFar
    <3>2. CASE phase' = "neighbours" /\ cursor' = Origin
      <4>1. NeighboursBefore(c, FirstDelta) = {}
        BY NoneBeforeFirst
      <4>2. ~Before(c, Origin)
        BY Corners, IndexInRange, NumCellsNat DEF Before
      <4>. QED
        BY <1>1, <1>4, <3>2, <4>1, <4>2 DEF LinkedSoFar
    <3>. QED
      BY <1>6, <3>1, <3>2
  <2>. QED
    BY <2>1, <2>2
<1>. QED
  BY <1>7, <1>8, <1>9, <1>10, <1>11 DEF IInv

\* One body of initCellNeighbourReferences: the cell found through the index of
\* the cursor is the one at the cursor, and gets one more reference or none.
LEMMA InitCellNeighbourInv == IInv /\ InitCellNeighbour => IInv'
<1>. SUFFICES ASSUME IInv, InitCellNeighbour PROVE IInv'
  OBVIOUS
<1>. DEFINE n == cellCoordToCellIndex(cursor)
            e == Shifted(cursor, delta)
            list == neighbours[n]
            found == NeighboursBefore(cursor, delta) \cup ({e} \cap Neighbours(cursor))
            nextDelta == Advance(delta, FirstDelta, Unit, LastDelta)
            next == Advance(cursor, Origin, Unit, LastCell)
            longer == IF e \in Neighbours(cursor) THEN Append(list, cellCoordToCellIndex(e))
                      ELSE list
<1>1. /\ phase = "neighbours" /\ cursor \in Cells /\ delta \in AllDeltas
      /\ Len(cells) = NumCells /\ neighbours \in [0 .. NumCells - 1 -> Seq(Int)]
  BY DEF IInv, TypeOK, CursorCounts, InitCellNeighbour
<1>2. n \in 0 .. NumCells - 1 /\ NumCells \in Nat
  BY <1>1, IndexInRange, NumCellsNat
<1>3. Neighbours(cursor) \subseteq Cells
  BY DEF Neighbours
<1>4. UNCHANGED <<cells, halo, boundary>>
      /\ neighbours' = [neighbours EXCEPT ![n] = longer]
  <2>1. e \in Neighbours(cursor)
          <=> delta # <<0, 0, 0>> /\ cellCoordToCellIndex(e) # -1
    BY <1>1, ShiftedIsNeighbour
  <2>2. neighbours = [neighbours EXCEPT ![n] = neighbours[n]]
    BY <1>1
  <2>. QED
    BY <2>1, <2>2, Zenon DEF InitCellNeighbour
<1>5. \/ /\ nextDelta # End /\ delta' = nextDelta
         /\ UNCHANGED <<phase, cursor>>
      \/ /\ nextDelta = End /\ delta' = FirstDelta
         /\ cursor' = IF next = End THEN StartOffset(0) ELSE next
         /\ phase' = IF next = End THEN "orders" ELSE phase
  BY DEF InitCellNeighbour
<1>6. \/ nextDelta # End /\ nextDelta \in AllDeltas /\ NeighboursBefore(cursor, nextDelta) = found
      \/ nextDelta = End /\ Neighbours(cursor) = found
  BY <1>1, DeltaAdvances
<1>7. \/ next # End /\ next \in Cells /\ cellCoordToCellIndex(next) = n + 1
      \/ next = End /\ n = NumCells - 1
  BY <1>1, AdvanceIndex
<1>8. Linked(longer, found)
  <2>1. Linked(list, NeighboursBefore(cursor, delta))
    BY <1>1 DEF IInv, References, LinkedSoFar
  <2>2. NeighboursBefore(cursor, delta) \in SUBSET Cells
    BY <1>3 DEF NeighboursBefore
  <2>3. CASE e \in Neighbours(cursor)
    <3>1. e \notin NeighboursBefore(cursor, delta)
      <4>1. e \in Cells
        BY <1>3, <2>3
      <4>2. e[1] \in Int /\ e[2] \in Int /\ e[3] \in Int
        BY <4>1, CellCoordinates
      <4>. HIDE DEF e
      <4>3. ~LexBefore(e, e)
        BY <4>2 DEF LexBefore
      <4>. QED
        BY <4>3 DEF NeighboursBefore, e
    <3>2. e \in Cells \ NeighboursBefore(cursor, delta)
      BY <1>3, <2>3, <3>1
    <3>3. found = NeighboursBefore(cursor, delta) \cup {e}
      BY <2>3
    <3>. HIDE DEF e, list, found
    <3>4. Linked(Append(list, cellCoordToCellIndex(e)), NeighboursBefore(cursor, delta) \cup {e})
      BY <2>1, <2>2, <3>2, LinkedOnce
    <3>. QED
      BY <2>3, <3>3, <3>4
  <2>4. CASE e \notin Neighbours(cursor)
    <3>1. found = NeighboursBefore(cursor, delta)
      BY <2>4
    <3>. QED
      BY <2>1, <2>4, <3>1
  <2>. QED
    BY <2>3, <2>4
<1>. HIDE DEF n, e, list, found, nextDelta, next, longer
<1>9. TypeOK'
  <2>1. neighbours' \in [0 .. NumCells - 1 -> Seq(Int)]
    BY <1>1, <1>4, <1>8 DEF Linked
  <2>2. delta' \in AllDeltas
    BY <1>5, <1>6, FirstIsDelta
  <2>3. /\ phase' \in {"neighbours", "orders"}
        /\ phase' = "neighbours" => cursor' \in Cells
    BY <1>1, <1>5, <1>7
  <2>. QED
    BY <1>4, <2>1, <2>2, <2>3 DEF IInv, TypeOK
<1>10. CursorCounts'
  BY <1>1, <1>4, <1>5 DEF CursorCounts
<1>11. IndexFindsCell'
  BY <1>4 DEF IInv, IndexFindsCell
<1>12. SideLists'
  BY <1>4 DEF IInv, SideLists
<1>13. References'
  <2>. SUFFICES ASSUME NEW c \in Cells
                PROVE  Linked(neighbours'[cellCoordToCellIndex(c)], LinkedSoFar(c)')
    BY DEF References
  <2>1. cellCoordToCellIndex(c) \in 0 .. NumCells - 1
    BY IndexInRange
  <2>2. CASE c = cursor
    <3>1. neighbours'[cellCoordToCellIndex(c)] = longer
      BY <1>1, <1>2, <1>4, <2>2 DEF n
    <3>2. LinkedSoFar(c)' = found
      <4>1. CASE nextDelta # End
        BY <1>1, <1>5, <1>6, <2>2, <4>1 DEF LinkedSoFar
      <4>2. CASE nextDelta = End /\ next = End
        BY <1>5, <1>6, <2>2, <4>2 DEF LinkedSoFar
      <4>3. CASE nextDelta = End /\ next # End
        <5>1. cellCoordToCellIndex(c) < cellCoordToCellIndex(next)
          BY <1>2, <1>7, <2>2, <4>3 DEF n
        <5>2. c # next /\ Before(c, next)
          BY <2>1, <5>1 DEF Before
        <5>. QED
          BY <1>1, <1>5, <1>6, <2>2, <4>3, <5>2 DEF LinkedSoFar
      <4>. QED
        BY <4>1, <4>2, <4>3
    <3>. QED
      BY <1>8, <3>1, <3>2
  <2>3. CASE c # cursor
    <3>1. cellCoordToCellIndex(c) # n
      BY <1>1, <2>3, IndexInjective DEF n
    <3>2. neighbours'[cellCoordToCellIndex(c)] = neighbours[cellCoordToCellIndex(c)]
      BY <1>1, <1>4, <2>1, <3>1
    <3>3. Linked(neighbours[cellCoordToCellIndex(c)],
                 IF Before(c, cursor) THEN Neighbours(c) ELSE {})
      BY <1>1, <2>3 DEF IInv, References, LinkedSoFar
    <3>4. LinkedSoFar(c)' = IF Before(c, cursor) THEN Neighbours(c) ELSE {}
      <4>1. CASE nextDelta # End
        BY <1>1, <1>5, <2>3, <4>1 DEF LinkedSoFar
      <4>2. CASE nextDelta = End /\ next = End
        <5>1. Before(c, cursor)
          BY <1>2, <1>7, <2>1, <3>1, <4>2 DEF n, Before
        <5>. QED
          BY <1>5, <4>2, <5>1 DEF LinkedSoFar
      <4>3. CASE nextDelta = End /\ next # End
        <5>1. phase' = "neighbours" /\ cursor' = next /\ delta' = FirstDelta
          BY <1>1, <1>5, <4>3
        <5>2. CASE c = next
          <6>1. ~Before(c, cursor)
            BY <1>2, <1>7, <4>3, <5>2 DEF n, Before
          <6>2. NeighboursBefore(c, FirstDelta) = {}
            BY NoneBeforeFirst
          <6>. QED
            BY <5>1, <5>2, <6>1, <6>2 DEF LinkedSoFar
        <5>3. CASE c # next
          <6>1. cellCoordToCellIndex(c) # cellCoordToCellIndex(next)
            BY <1>7, <4>3, <5>3, IndexInjective
          <6>2. Before(c, cursor) <=> Before(c, next)
            BY <1>2, <1>7, <2>1, <3>1, <4>3, <6>1 DEF n, Before
          <6>. QED
            BY <5>1, <5>3, <6>2 DEF LinkedSoFar
        <5>. QED
          BY <5>2, <5>3
      <4>. QED
        BY <4>1, <4>2, <4>3
    <3>. QED
      BY <3>2, <3>3, <3>4
  <2>. QED
    BY <2>2, <2>3
<1>. QED
  BY <1>9, <1>10, <1>11, <1>12, <1>13 DEF IInv

LEMMA InitIterationOrderInv == IInv /\ InitIterationOrder => IInv'
<1>. SUFFICES ASSUME IInv, InitIterationOrder PROVE IInv'
  OBVIOUS
<1>1. /\ phase = "orders" /\ phase' \in {"orders", "done"}
      /\ UNCHANGED <<cells, halo, boundary, neighbours, delta>>
  BY DEF InitIterationOrder
<1>2. \A c \in Cells : LinkedSoFar(c)' = LinkedSoFar(c)
  BY <1>1 DEF LinkedSoFar
<1>3. References'
  BY <1>1, <1>2 DEF IInv, References
<1>. QED
  BY <1>1, <1>3 DEF IInv, TypeOK, CursorCounts, IndexFindsCell, SideLists

THEOREM Invariance == Spec => []IInv
<1>1. IInv /\ [Next]_vars => IInv'
  <2>. SUFFICES ASSUME IInv, [Next]_vars PROVE IInv'
    OBVIOUS
  <2>1. CASE InitCell
    BY <2>1, InitCellInv
  <2>2. CASE InitCellNeighbour
    BY <2>2, InitCellNeighbourInv
  <2>3. CASE InitIterationOrder
    BY <2>3, InitIterationOrderInv
  <2>4. CASE UNCHANGED vars
    BY <2>4 DEF vars, IInv, TypeOK, CursorCounts, IndexFindsCell, SideLists,
                References, LinkedSoFar
  <2>. QED
    BY <2>1, <2>2, <2>3, <2>4 DEF Next, Constructed
<1>. QED
  BY <1>1, InitInv, PTL DEF Spec

-----------------------------------------------------------------------------
(***************************************************************************)
(* The properties                                                          *)
(***************************************************************************)

\* The variables of the constructor keep their types.
THEOREM TypeCorrect == Spec => []TypeOK
<1>1. IInv => TypeOK
  BY DEF IInv
<1>. QED
  BY <1>1, Invariance, PTL

\* For every size of the domain, cellCoordToCellIndex finds a cell where
\* initCells has put it.
THEOREM CellsFound == Spec => []IndexFindsCell
<1>1. IInv => IndexFindsCell
  BY DEF IInv
<1>. QED
  BY <1>1, Invariance, PTL

\* For every size of the domain, every cell gets one reference to each of the cells
\* around it and to no others.
THEOREM NeighboursLinked == Spec => []NeighboursComplete
<1>1. IInv => NeighboursComplete
  <2>. SUFFICES ASSUME IInv, phase \in {"orders", "done"}, NEW c \in Cells
                PROVE  LET refs == neighbours[cellCoordToCellIndex(c)]
                       IN  ToSet(refs) = IndicesOf(Neighbours(c)) /\ IsInjective(refs)
    BY DEF NeighboursComplete
  <2>1. LinkedSoFar(c) = Neighbours(c)
    BY DEF LinkedSoFar
  <2>. QED
    BY <2>1, Zenon DEF IInv, References, Linked
<1>. QED
  BY <1>1, Invariance, PTL

\* For every size of the domain, the list of a side has the cells of its layer,
\* once each.
THEOREM SidesListed == Spec => []SideListsComplete
<1>1. IInv => SideListsComplete
  <2>. SUFFICES ASSUME IInv, phase = "done", NEW s \in Sides
                PROVE  /\ ToSet(halo[s]) = IndicesOf(HaloOf(s)) /\ IsInjective(halo[s])
                       /\ ToSet(boundary[s]) = IndicesOf(BoundaryOf(s))
                       /\ IsInjective(boundary[s])
    BY DEF SideListsComplete
  <2>1. Len(cells) = NumCells
    BY DEF IInv, CursorCounts
  <2>2. Lists(halo[s], HaloOf(s), NumCells) /\ Lists(boundary[s], BoundaryOf(s), NumCells)
    BY <2>1 DEF IInv, SideLists
  <2>3. HaloOf(s) \in SUBSET Cells /\ BoundaryOf(s) \in SUBSET Cells
    BY DEF HaloOf, BoundaryOf, Halo, Boundary
  <2>. QED
    BY <2>2, <2>3, AllListed DEF Lists
<1>. QED
  BY <1>1, Invariance, PTL

-----------------------------------------------------------------------------
(***************************************************************************)
(* The iteration orders                                                    *)
(***************************************************************************)

\* Both builds at once: the cells of an order are a lattice with the stride of the
\* loops, and every lattice begins in the grid.
LEMMA StrideOfOrder ==
  ASSUME NEW g \in 0 .. NumOrders - 1
  PROVE  /\ Stride[1] \in 1 .. 3 /\ Stride[2] \in 1 .. 3 /\ Stride[3] \in 1 .. 3
         /\ StartOffset(g)[1] \in -1 .. NX
         /\ StartOffset(g)[2] \in -1 .. NY
         /\ StartOffset(g)[3] \in -1 .. NZ
         /\ StartOffset(g) = <<StartOffset(g)[1], StartOffset(g)[2], StartOffset(g)[3]>>
         /\ OrderCells(g) =
              {c \in Cells : /\ OnLattice(c[1], StartOffset(g)[1], Stride[1])
                             /\ OnLattice(c[2], StartOffset(g)[2], Stride[2])
                             /\ OnLattice(c[3], StartOffset(g)[3], Stride[3])}
<1>1. CASE PARALLEL_V2
  <2>1. g = 0 /\ Stride = <<1, 1, 1>>
    BY <1>1 DEF NumOrders, Stride, Unit
  <2>2. StartOffset(g) = <<-1, -1, -1>>
    BY <2>1 DEF StartOffset, d_x, d_y, d_z
  <2>3. \A c \in Cells : /\ OnLattice(c[1], -1, 1) /\ OnLattice(c[2], -1, 1)
                         /\ OnLattice(c[3], -1, 1)
    BY CellCoordinates DEF OnLattice
  <2>. QED
    BY <1>1, <2>1, <2>2, <2>3, SizesPositive DEF OrderCells
<1>2. CASE ~PARALLEL_V2
  <2>1. Stride = <<2, 3, 3>>
    BY <1>2 DEF Stride, d_x, d_y, d_z
  <2>2. g \in 0 .. 17
    BY <1>2 DEF NumOrders, d_x, d_y, d_z
  <2>3. StartOffset(g) = <<(g \div 9) - 1, ((g \div 3) % 3) - 1, (g % 3) - 1>>
    BY DEF StartOffset, d_x, d_y, d_z
  <2>4. (g \div 9) \in 0 .. 1 /\ ((g \div 3) % 3) \in 0 .. 2 /\ (g % 3) \in 0 .. 2
    BY <2>2
  <2>5. OrderCells(g) =
          {c \in Cells : /\ OnLattice(c[1], StartOffset(g)[1], 2)
                         /\ OnLattice(c[2], StartOffset(g)[2], 3)
                         /\ OnLattice(c[3], StartOffset(g)[3], 3)}
    BY <1>2 DEF OrderCells, d_x, d_y, d_z
  <2>. QED
    BY <2>1, <2>3, <2>4, <2>5, SizesPositive
<1>. QED
  BY <1>1, <1>2

\* On one axis: the lattice begins at its start, and goes on by its stride.
LEMMA LatticeStep ==
  ASSUME NEW s \in Int, NEW st \in 1 .. 3, NEW x \in Int, NEW y \in Int,
         OnLattice(x, s, st), OnLattice(y, s, st)
  PROVE  /\ s <= y
         /\ OnLattice(s, s, st) /\ OnLattice(x + st, s, st)
         /\ x < y <=> x + st <= y
<1>1. CASE st = 1
  BY <1>1 DEF OnLattice
<1>2. CASE st = 2
  BY <1>2 DEF OnLattice
<1>3. CASE st = 3
  BY <1>3 DEF OnLattice
<1>. QED
  BY <1>1, <1>2, <1>3

\* The loops begin at the first cell of an order.
LEMMA OrderBegins ==
  ASSUME NEW g \in 0 .. NumOrders - 1
  PROVE  /\ StartOffset(g) \in OrderCells(g)
         /\ \A d \in OrderCells(g) : ~Before(d, StartOffset(g))
<1>. DEFINE s == StartOffset(g)
<1>1. /\ Stride[1] \in 1 .. 3 /\ Stride[2] \in 1 .. 3 /\ Stride[3] \in 1 .. 3
      /\ s[1] \in -1 .. NX /\ s[2] \in -1 .. NY /\ s[3] \in -1 .. NZ
      /\ s = <<s[1], s[2], s[3]>>
      /\ OrderCells(g) = {c \in Cells : /\ OnLattice(c[1], s[1], Stride[1])
                                        /\ OnLattice(c[2], s[2], Stride[2])
                                        /\ OnLattice(c[3], s[3], Stride[3])}
  BY StrideOfOrder
<1>. HIDE DEF s
<1>2. <<s[1], s[2], s[3]>> \in Cells
  BY <1>1 DEF Cells
<1>3. s[1] \in Int /\ s[2] \in Int /\ s[3] \in Int
  BY <1>1, SizesPositive
<1>4. \A x \in Int, st \in 1 .. 3 : OnLattice(x, x, st)
  BY DEF OnLattice
<1>5. s \in OrderCells(g)
  BY <1>1, <1>2, <1>3, <1>4
<1>6. ASSUME NEW d \in OrderCells(g) PROVE ~Before(d, s)
  <2>1. /\ d \in Cells /\ s \in Cells
        /\ d[1] \in Int /\ d[2] \in Int /\ d[3] \in Int
    BY <1>1, <1>2, CellCoordinates
  <2>2. s[1] <= d[1] /\ s[2] <= d[2] /\ s[3] <= d[3]
    BY <1>1 DEF OnLattice
  <2>3. ~LexBefore(d, s)
    BY <1>3, <2>1, <2>2 DEF LexBefore
  <2>. QED
    BY <2>1, <2>3, BeforeIsLexicographic
<1>. QED
  BY <1>5, <1>6 DEF s

\* One step of the loops goes to the next cell of the order, and they end behind
\* its last one.
LEMMA OrderAdvances ==
  ASSUME NEW g \in 0 .. NumOrders - 1, NEW c \in OrderCells(g)
  PROVE  LET n == Advance(c, StartOffset(g), Stride, LastCell)
         IN  \/ /\ n # End /\ n \in OrderCells(g)
                /\ \A d \in OrderCells(g) : LexBefore(d, n) <=> LexBefore(d, c) \/ d = c
             \/ /\ n = End
                /\ \A d \in OrderCells(g) : LexBefore(d, c) \/ d = c
<1>. DEFINE s == StartOffset(g)
            O == OrderCells(g)
<1>1. /\ Stride[1] \in 1 .. 3 /\ Stride[2] \in 1 .. 3 /\ Stride[3] \in 1 .. 3
      /\ s[1] \in -1 .. NX /\ s[2] \in -1 .. NY /\ s[3] \in -1 .. NZ
      /\ O = {d \in Cells : /\ OnLattice(d[1], s[1], Stride[1])
                            /\ OnLattice(d[2], s[2], Stride[2])
                            /\ OnLattice(d[3], s[3], Stride[3])}
  BY StrideOfOrder
<1>2. c \in O
  OBVIOUS
<1>. HIDE DEF s, O
<1>3. s[1] \in Int /\ s[2] \in Int /\ s[3] \in Int
  BY <1>1, SizesPositive
<1>4. ASSUME NEW d \in O
      PROVE  /\ d \in Cells
             /\ d[1] \in Int /\ d[2] \in Int /\ d[3] \in Int
             /\ -1 <= d[1] /\ d[1] <= NX /\ -1 <= d[2] /\ d[2] <= NY
             /\ -1 <= d[3] /\ d[3] <= NZ
             /\ d = <<d[1], d[2], d[3]>>
             /\ OnLattice(d[1], s[1], Stride[1])
             /\ OnLattice(d[2], s[2], Stride[2])
             /\ OnLattice(d[3], s[3], Stride[3])
  <2>1. d \in Cells /\ OnLattice(d[1], s[1], Stride[1])
        /\ OnLattice(d[2], s[2], Stride[2]) /\ OnLattice(d[3], s[3], Stride[3])
    BY <1>1
  <2>. QED
    BY <2>1, CellCoordinates
<1>5. ASSUME NEW x \in 1 .. 3, NEW d \in O
      PROVE  /\ s[x] <= d[x]
             /\ OnLattice(s[x], s[x], Stride[x])
             /\ OnLattice(c[x] + Stride[x], s[x], Stride[x])
             /\ c[x] < d[x] <=> c[x] + Stride[x] <= d[x]
  <2>1. /\ s[x] \in Int /\ Stride[x] \in 1 .. 3 /\ c[x] \in Int /\ d[x] \in Int
        /\ OnLattice(c[x], s[x], Stride[x]) /\ OnLattice(d[x], s[x], Stride[x])
    <3>1. x = 1 \/ x = 2 \/ x = 3
      OBVIOUS
    <3>. QED
      BY <1>1, <1>2, <1>3, <1>4, <3>1
  <2>. QED
    BY <2>1, LatticeStep
<1>6. PICK a \in Int, b \in Int, e \in Int :
        a = Stride[1] /\ b = Stride[2] /\ e = Stride[3] /\ 1 <= a /\ 1 <= b /\ 1 <= e
  BY <1>1
<1>7. /\ c[1] \in Int /\ c[2] \in Int /\ c[3] \in Int
      /\ -1 <= c[1] /\ c[1] <= NX /\ -1 <= c[2] /\ c[2] <= NY
      /\ -1 <= c[3] /\ c[3] <= NZ
  BY <1>2, <1>4
<1>8. /\ OnLattice(s[1], s[1], a) /\ OnLattice(s[2], s[2], b) /\ OnLattice(s[3], s[3], e)
      /\ OnLattice(c[1] + a, s[1], a) /\ OnLattice(c[2] + b, s[2], b)
      /\ OnLattice(c[3] + e, s[3], e)
      /\ OnLattice(c[1], s[1], a) /\ OnLattice(c[2], s[2], b) /\ OnLattice(c[3], s[3], e)
  BY <1>2, <1>4, <1>5, <1>6
<1>9. ASSUME NEW d \in O
      PROVE  /\ d[1] \in Int /\ d[2] \in Int /\ d[3] \in Int
             /\ d[1] <= NX /\ d[2] <= NY /\ d[3] <= NZ
             /\ s[1] <= d[1] /\ s[2] <= d[2] /\ s[3] <= d[3]
             /\ c[1] < d[1] <=> c[1] + a <= d[1]
             /\ c[2] < d[2] <=> c[2] + b <= d[2]
             /\ c[3] < d[3] <=> c[3] + e <= d[3]
             /\ (d[1] = c[1] /\ d[2] = c[2] /\ d[3] = c[3]) <=> d = c
  <2>1. (d[1] = c[1] /\ d[2] = c[2] /\ d[3] = c[3]) <=> d = c
    BY <1>2, <1>4
  <2>2. /\ s[1] <= d[1] /\ s[2] <= d[2] /\ s[3] <= d[3]
        /\ c[1] < d[1] <=> c[1] + a <= d[1]
        /\ c[2] < d[2] <=> c[2] + b <= d[2]
        /\ c[3] < d[3] <=> c[3] + e <= d[3]
    BY <1>5, <1>6
  <2>. QED
    BY <1>4, <2>1, <2>2
<1>10. \A x, y, z : <<x, y, z>> # End
  BY DEF End
<1>11. ASSUME NEW x \in Int, NEW y \in Int, NEW z \in Int,
              -1 <= x, x <= NX, -1 <= y, y <= NY, -1 <= z, z <= NZ,
              OnLattice(x, s[1], a), OnLattice(y, s[2], b), OnLattice(z, s[3], e)
       PROVE  <<x, y, z>> \in O
  <2>1. <<x, y, z>> \in Cells
    BY <1>11, SizesPositive DEF Cells
  <2>. QED
    BY <1>1, <1>6, <1>11, <2>1
<1>12. /\ -1 <= s[1] /\ s[1] <= NX /\ -1 <= s[2] /\ s[2] <= NY /\ -1 <= s[3] /\ s[3] <= NZ
  BY <1>1, SizesPositive
<1>. SUFFICES \/ /\ Advance(c, s, Stride, LastCell) # End /\ Advance(c, s, Stride, LastCell) \in O
                 /\ \A d \in O : LexBefore(d, Advance(c, s, Stride, LastCell))
                                   <=> LexBefore(d, c) \/ d = c
              \/ /\ Advance(c, s, Stride, LastCell) = End
                 /\ \A d \in O : LexBefore(d, c) \/ d = c
  BY DEF s, O
<1>13. CASE c[3] + e <= NZ
  <2>. DEFINE n == <<c[1], c[2], c[3] + e>>
  <2>1. Advance(c, s, Stride, LastCell) = n
    BY <1>6, <1>7, <1>13, SizesPositive DEF Advance, LastCell
  <2>2. n \in O
    BY <1>6, <1>7, <1>8, <1>11, <1>13
  <2>3. \A d \in O : LexBefore(d, n) <=> LexBefore(d, c) \/ d = c
    BY <1>7, <1>9, <1>6 DEF LexBefore
  <2>. QED
    BY <1>10, <2>1, <2>2, <2>3
<1>14. CASE c[3] + e > NZ /\ c[2] + b <= NY
  <2>. DEFINE n == <<c[1], c[2] + b, s[3]>>
  <2>1. Advance(c, s, Stride, LastCell) = n
    BY <1>6, <1>7, <1>14, SizesPositive DEF Advance, LastCell
  <2>2. n \in O
    BY <1>3, <1>6, <1>7, <1>8, <1>11, <1>12, <1>14
  <2>3. \A d \in O : LexBefore(d, n) <=> LexBefore(d, c) \/ d = c
    BY <1>3, <1>7, <1>9, <1>6, <1>14, SizesPositive DEF LexBefore
  <2>. QED
    BY <1>10, <2>1, <2>2, <2>3
<1>15. CASE c[3] + e > NZ /\ c[2] + b > NY /\ c[1] + a <= NX
  <2>. DEFINE n == <<c[1] + a, s[2], s[3]>>
  <2>1. Advance(c, s, Stride, LastCell) = n
    BY <1>6, <1>7, <1>15, SizesPositive DEF Advance, LastCell
  <2>2. n \in O
    BY <1>3, <1>6, <1>7, <1>8, <1>11, <1>12, <1>15
  <2>3. \A d \in O : LexBefore(d, n) <=> LexBefore(d, c) \/ d = c
    BY <1>3, <1>7, <1>9, <1>6, <1>15, SizesPositive DEF LexBefore
  <2>. QED
    BY <1>10, <2>1, <2>2, <2>3
<1>16. CASE c[3] + e > NZ /\ c[2] + b > NY /\ c[1] + a > NX
  <2>1. Advance(c, s, Stride, LastCell) = End
    BY <1>6, <1>7, <1>16, SizesPositive DEF Advance, LastCell
  <2>2. \A d \in O : LexBefore(d, c) \/ d = c
    BY <1>7, <1>9, <1>6, <1>16, SizesPositive DEF LexBefore
  <2>. QED
    BY <2>1, <2>2
<1>. QED
  BY <1>6, <1>7, <1>13, <1>14, <1>15, <1>16, SizesPositive

\* The same for the indices: what has been visited of an order.
LEMMA OrderVisited ==
  ASSUME NEW g \in 0 .. NumOrders - 1, NEW c \in OrderCells(g)
  PROVE  LET n == Advance(c, StartOffset(g), Stride, LastCell)
         IN  /\ n # End => /\ n \in OrderCells(g)
                           /\ FirstOf(OrderCells(g), cellCoordToCellIndex(c) + 1)
                                = FirstOf(OrderCells(g), cellCoordToCellIndex(n))
             /\ n = End => FirstOf(OrderCells(g), cellCoordToCellIndex(c) + 1)
                             = FirstOf(OrderCells(g), NumCells)
<1>. DEFINE O == OrderCells(g)
            n == Advance(c, StartOffset(g), Stride, LastCell)
<1>1. \/ /\ n # End /\ n \in O
         /\ \A d \in O : LexBefore(d, n) <=> LexBefore(d, c) \/ d = c
      \/ /\ n = End
         /\ \A d \in O : LexBefore(d, c) \/ d = c
  BY OrderAdvances
<1>2. c \in O /\ O \subseteq Cells
  BY DEF OrderCells
<1>. HIDE DEF O, n
<1>3. ASSUME NEW d \in O
      PROVE  cellCoordToCellIndex(d) < cellCoordToCellIndex(c) + 1
               <=> LexBefore(d, c) \/ d = c
  <2>1. d \in Cells /\ c \in Cells
    BY <1>2
  <2>2. cellCoordToCellIndex(d) \in Int /\ cellCoordToCellIndex(c) \in Int
    BY <2>1, IndexInt
  <2>3. LexBefore(d, c) <=> cellCoordToCellIndex(d) < cellCoordToCellIndex(c)
    BY <2>1, BeforeIsLexicographic DEF Before
  <2>4. cellCoordToCellIndex(d) = cellCoordToCellIndex(c) <=> d = c
    BY <2>1, IndexInjective
  <2>. QED
    BY <2>2, <2>3, <2>4
<1>4. CASE n # End
  <2>1. n \in O /\ n \in Cells
    BY <1>1, <1>2, <1>4
  <2>2. \A d \in O : LexBefore(d, n) <=> cellCoordToCellIndex(d) < cellCoordToCellIndex(n)
    BY <1>2, <2>1, BeforeIsLexicographic DEF Before
  <2>3. \A d \in O : cellCoordToCellIndex(d) < cellCoordToCellIndex(c) + 1
                       <=> cellCoordToCellIndex(d) < cellCoordToCellIndex(n)
    BY <1>1, <1>3, <1>4, <2>2
  <2>4. FirstOf(O, cellCoordToCellIndex(c) + 1) = FirstOf(O, cellCoordToCellIndex(n))
    BY <2>3, Zenon DEF FirstOf
  <2>. QED
    BY <1>4, <2>1, <2>4 DEF O, n
<1>5. CASE n = End
  <2>1. \A d \in O : cellCoordToCellIndex(d) < NumCells
    BY <1>2, IndexInRange, NumCellsNat
  <2>2. \A d \in O : cellCoordToCellIndex(d) < cellCoordToCellIndex(c) + 1
                       <=> cellCoordToCellIndex(d) < NumCells
    BY <1>1, <1>3, <1>5, <2>1
  <2>3. FirstOf(O, cellCoordToCellIndex(c) + 1) = FirstOf(O, NumCells)
    BY <2>2, Zenon DEF FirstOf
  <2>. QED
    BY <1>5, <2>3 DEF O, n
<1>. QED
  BY <1>4, <1>5

\* Nothing of an order is listed when its loops begin.
LEMMA NothingVisited ==
  ASSUME NEW g \in 0 .. NumOrders - 1
  PROVE  Lists(<<>>, OrderCells(g), cellCoordToCellIndex(StartOffset(g)))
<1>1. /\ StartOffset(g) \in OrderCells(g)
      /\ \A d \in OrderCells(g) : ~Before(d, StartOffset(g))
  BY OrderBegins
<1>2. FirstOf(OrderCells(g), cellCoordToCellIndex(StartOffset(g))) = {}
  BY <1>1, Zenon DEF FirstOf, Before
<1>3. <<>> \in Seq(Int) /\ DOMAIN <<>> = {}
  OBVIOUS
<1>. QED
  BY <1>2, <1>3 DEF Lists, IsInjective, ToSet

\* The orders before the last one are complete, and the last one has what comes
\* before the cursor.
OrderLists ==
  /\ phase \in {"orders", "done"} => /\ orders \in Seq(Seq(Int))
                                     /\ Len(orders) \in 1 .. NumOrders
  /\ phase = "orders" =>
       /\ cursor \in OrderCells(Len(orders) - 1)
       /\ \A k \in 1 .. Len(orders) - 1 : Lists(orders[k], OrderCells(k - 1), NumCells)
       /\ Lists(orders[Len(orders)], OrderCells(Len(orders) - 1), cellCoordToCellIndex(cursor))
  /\ phase = "done" =>
       /\ Len(orders) = NumOrders
       /\ \A k \in 1 .. NumOrders : Lists(orders[k], OrderCells(k - 1), NumCells)

LEMMA NumOrdersNat == NumOrders \in Nat /\ 1 <= NumOrders
  BY DEF NumOrders, d_x, d_y, d_z

LEMMA OrdersBegin ==
  ASSUME InitCellNeighbour
  PROVE  OrderLists'
<1>1. \/ phase' = "neighbours"
      \/ phase' = "orders" /\ cursor' = StartOffset(0) /\ orders' = <<<<>>>>
  BY DEF InitCellNeighbour
<1>2. CASE phase' = "neighbours"
  BY <1>2 DEF OrderLists
<1>3. CASE phase' = "orders" /\ cursor' = StartOffset(0) /\ orders' = <<<<>>>>
  <2>1. /\ orders' \in Seq(Seq(Int)) /\ Len(orders') = 1 /\ orders'[1] = <<>>
    <3>1. <<>> \in Seq(Int)
      OBVIOUS
    <3>. QED
      BY <1>3, <3>1
  <2>2. 0 \in 0 .. NumOrders - 1 /\ 1 \in 1 .. NumOrders
    BY NumOrdersNat
  <2>3. cursor' \in OrderCells(0) /\ Lists(orders'[1], OrderCells(0), cellCoordToCellIndex(cursor'))
    BY <1>3, <2>1, <2>2, OrderBegins, NothingVisited
  <2>. QED
    BY <1>3, <2>1, <2>2, <2>3 DEF OrderLists
<1>. QED
  BY <1>1, <1>2, <1>3

\* One body of initIterationOrders.
LEMMA OrdersGrow ==
  ASSUME OrderLists, InitIterationOrder
  PROVE  OrderLists'
<1>. DEFINE g == Len(orders) - 1
            longer == [orders EXCEPT ![Len(orders)] =
                         Append(@, cellCoordToCellIndex(cursor))]
            next == Advance(cursor, StartOffset(g), Stride, LastCell)
<1>1. /\ phase = "orders"
      /\ \/ /\ next # End
            /\ cursor' = next /\ orders' = longer /\ phase' = "orders"
         \/ /\ next = End /\ g + 1 < NumOrders
            /\ cursor' = StartOffset(g + 1) /\ orders' = Append(longer, <<>>)
            /\ phase' = "orders"
         \/ /\ next = End /\ g + 1 = NumOrders
            /\ orders' = longer /\ phase' = "done"
  BY DEF InitIterationOrder
<1>2. /\ orders \in Seq(Seq(Int)) /\ Len(orders) \in 1 .. NumOrders
      /\ cursor \in OrderCells(g)
      /\ \A k \in 1 .. Len(orders) - 1 : Lists(orders[k], OrderCells(k - 1), NumCells)
      /\ Lists(orders[Len(orders)], OrderCells(g), cellCoordToCellIndex(cursor))
  BY <1>1 DEF OrderLists
<1>3. PICK last \in Nat : last = Len(orders)
  BY <1>2
<1>4. /\ 1 <= last /\ last <= NumOrders /\ g = last - 1 /\ g \in 0 .. NumOrders - 1
      /\ g + 1 = last
  BY <1>2, <1>3, NumOrdersNat
<1>5. PICK now : now = Append(orders[last], cellCoordToCellIndex(cursor))
  OBVIOUS
<1>6. Lists(now, OrderCells(g), cellCoordToCellIndex(cursor) + 1)
  <2>1. cursor \in Cells /\ OrderCells(g) \in SUBSET Cells
    BY <1>2 DEF OrderCells
  <2>. QED
    BY <1>2, <1>3, <1>5, <2>1, PushedBack
<1>7. /\ next # End => /\ next \in OrderCells(g)
                       /\ Lists(now, OrderCells(g), cellCoordToCellIndex(next))
      /\ next = End => Lists(now, OrderCells(g), NumCells)
  BY <1>2, <1>4, <1>6, OrderVisited DEF Lists
<1>8. /\ longer \in Seq(Seq(Int)) /\ Len(longer) = last
      /\ longer[last] = now
      /\ \A k \in 1 .. last - 1 : longer[k] = orders[k]
  <2>1. now \in Seq(Int)
    BY <1>6 DEF Lists
  <2>2. longer = [orders EXCEPT ![last] = now]
    BY <1>3, <1>5
  <2>. QED
    BY <1>2, <1>3, <1>4, <2>1, <2>2, SMTT(30)
<1>. HIDE DEF g, longer, next
<1>9. \A k \in 1 .. last - 1 : Lists(longer[k], OrderCells(k - 1), NumCells)
  BY <1>2, <1>3, <1>8
<1>10. CASE next # End
  <2>1. orders' = longer /\ cursor' = next /\ phase' = "orders"
    BY <1>1, <1>10
  <2>2. cursor' \in OrderCells(last - 1)
        /\ Lists(orders'[last], OrderCells(last - 1), cellCoordToCellIndex(cursor'))
    BY <1>4, <1>7, <1>8, <1>10, <2>1
  <2>. QED
    BY <1>4, <1>8, <1>9, <2>1, <2>2 DEF OrderLists
<1>11. CASE next = End /\ g + 1 = NumOrders
  <2>1. orders' = longer /\ phase' = "done" /\ last = NumOrders
    BY <1>1, <1>4, <1>11
  <2>2. \A k \in 1 .. last : Lists(longer[k], OrderCells(k - 1), NumCells)
    <3>. SUFFICES ASSUME NEW k \in 1 .. last
                  PROVE  Lists(longer[k], OrderCells(k - 1), NumCells)
      OBVIOUS
    <3>1. CASE k = last
      BY <1>4, <1>7, <1>8, <1>11, <3>1
    <3>2. CASE k # last
      BY <1>9, <3>2
    <3>. QED
      BY <3>1, <3>2
  <2>. QED
    BY <1>4, <1>8, <2>1, <2>2 DEF OrderLists
<1>12. CASE next = End /\ g + 1 < NumOrders
  <2>1. /\ orders' = Append(longer, <<>>) /\ phase' = "orders"
        /\ cursor' = StartOffset(last)
    BY <1>1, <1>4, <1>12
  <2>2. last \in 0 .. NumOrders - 1 /\ last + 1 \in 1 .. NumOrders /\ (last + 1) - 1 = last
    BY <1>4, <1>12, NumOrdersNat
  <2>3. /\ orders' \in Seq(Seq(Int)) /\ Len(orders') = last + 1
        /\ orders'[last + 1] = <<>>
        /\ \A k \in 1 .. last : orders'[k] = longer[k]
    <3>1. <<>> \in Seq(Int)
      OBVIOUS
    <3>. QED
      BY <1>8, <2>1, <3>1, AppendProperties
  <2>4. cursor' \in OrderCells(last)
        /\ Lists(orders'[last + 1], OrderCells(last), cellCoordToCellIndex(cursor'))
    BY <2>1, <2>2, <2>3, OrderBegins, NothingVisited
  <2>5. \A k \in 1 .. last : Lists(orders'[k], OrderCells(k - 1), NumCells)
    <3>. SUFFICES ASSUME NEW k \in 1 .. last
                  PROVE  Lists(longer[k], OrderCells(k - 1), NumCells)
      BY <2>3
    <3>1. CASE k = last
      BY <1>4, <1>7, <1>8, <1>12, <3>1
    <3>2. CASE k # last
      BY <1>9, <3>2
    <3>. QED
      BY <3>1, <3>2
  <2>. QED
    BY <2>1, <2>2, <2>3, <2>4, <2>5 DEF OrderLists
<1>. QED
  BY <1>1, <1>10, <1>11, <1>12

\* An order under construction has the cells the loops have come by, once each.
THEOREM OrderListsAlways == Spec => []OrderLists
<1>1. Init => OrderLists
  BY DEF Init, OrderLists
<1>2. OrderLists /\ [Next]_vars => OrderLists'
  <2>. SUFFICES ASSUME OrderLists, [Next]_vars PROVE OrderLists'
    OBVIOUS
  <2>1. CASE InitCell
    <3>1. phase' \in {"cells", "neighbours"}
      BY <2>1 DEF InitCell
    <3>. QED
      BY <3>1 DEF OrderLists
  <2>2. CASE InitCellNeighbour
    BY <2>2, OrdersBegin
  <2>3. CASE InitIterationOrder
    BY <2>3, OrdersGrow
  <2>4. CASE UNCHANGED vars
    BY <2>4 DEF vars, OrderLists
  <2>. QED
    BY <2>1, <2>2, <2>3, <2>4 DEF Next, Constructed
<1>. QED
  BY <1>1, <1>2, PTL DEF Spec

-----------------------------------------------------------------------------
(***************************************************************************)
(* All orders, one after the other                                         *)
(***************************************************************************)

\* Induction, for a set of numbers.
LEMMA NatSet ==
  ASSUME NEW S, 0 \in S, \A m \in Nat : m \in S => m + 1 \in S
  PROVE  \A m \in Nat : m \in S
<1>. DEFINE Less == OpToRel(<, Nat)
            Bad == {m \in Nat : m \notin S}
<1>1. IsWellFoundedOn(Less, Nat)
  BY NatLessThanWellFounded
<1>2. \A m, n \in Nat : <<m, n>> \in Less <=> m < n
  BY DEF OpToRel
<1>. HIDE DEF Less
<1>3. SUFFICES ASSUME Bad # {} PROVE FALSE
  OBVIOUS
<1>4. PICK n \in Bad : \A m \in Bad : <<m, n>> \notin Less
  <2>1. Bad \subseteq Nat
    OBVIOUS
  <2>. HIDE DEF Bad
  <2>. QED BY <1>1, <1>3, <2>1, WFMin
<1>5. n \in Nat /\ n \notin S /\ n # 0
  OBVIOUS
<1>6. n - 1 \in Nat /\ (n - 1) + 1 = n
  BY <1>5
<1>7. n - 1 \notin S
  BY <1>5, <1>6
<1>8. n - 1 \in Bad
  BY <1>6, <1>7
<1>9. <<n - 1, n>> \in Less
  BY <1>2, <1>5, <1>6
<1>. QED BY <1>4, <1>8, <1>9, Zenon

\* `joined` has the elements of both lists, which have none in common.
LEMMA JoinedLists ==
  ASSUME NEW s \in Seq(Int), NEW t \in Seq(Int), IsInjective(s), IsInjective(t),
         \A x \in ToSet(s) : x \notin ToSet(t)
  PROVE  /\ s \o t \in Seq(Int) /\ IsInjective(s \o t)
         /\ ToSet(s \o t) = ToSet(s) \cup ToSet(t)
<1>. DEFINE st == s \o t
<1>1. PICK m \in Nat, n \in Nat : m = Len(s) /\ n = Len(t)
  OBVIOUS
<1>2. /\ st \in Seq(Int) /\ DOMAIN st = 1 .. m + n
      /\ DOMAIN s = 1 .. m /\ DOMAIN t = 1 .. n
      /\ \A i \in 1 .. m : st[i] = s[i]
      /\ \A i \in m + 1 .. m + n : st[i] = t[i - m]
  BY <1>1
<1>. HIDE DEF st
<1>3. \A i \in 1 .. m : st[i] \in ToSet(s)
  BY <1>2 DEF ToSet
<1>4. ASSUME NEW i \in m + 1 .. m + n
      PROVE  i - m \in 1 .. n /\ st[i] = t[i - m] /\ st[i] \in ToSet(t)
  <2>1. i - m \in 1 .. n
    OBVIOUS
  <2>2. st[i] = t[i - m]
    BY <1>2
  <2>3. t[i - m] \in ToSet(t)
    BY <1>2, <2>1, Zenon DEF ToSet
  <2>. QED
    BY <2>1, <2>2, <2>3
<1>5. \A i \in 1 .. m + n : i \in 1 .. m \/ i \in m + 1 .. m + n
  OBVIOUS
<1>6. IsInjective(st)
  <2>. SUFFICES ASSUME NEW i \in 1 .. m + n, NEW j \in 1 .. m + n, st[i] = st[j]
                PROVE  i = j
    BY <1>2 DEF IsInjective
  <2>1. CASE i \in 1 .. m /\ j \in 1 .. m
    <3>1. s[i] = s[j]
      BY <1>2, <2>1
    <3>. QED
      BY <1>2, <2>1, <3>1 DEF IsInjective
  <2>2. CASE i \in m + 1 .. m + n /\ j \in m + 1 .. m + n
    <3>1. t[i - m] = t[j - m] /\ i - m \in DOMAIN t /\ j - m \in DOMAIN t
      BY <1>2, <1>4, <2>2
    <3>2. i - m = j - m
      BY <3>1 DEF IsInjective
    <3>. QED
      BY <3>2
  <2>3. ~(i \in 1 .. m /\ j \in m + 1 .. m + n) /\ ~(j \in 1 .. m /\ i \in m + 1 .. m + n)
    BY <1>3, <1>4
  <2>. QED
    BY <1>5, <2>1, <2>2, <2>3
<1>7. ToSet(st) = ToSet(s) \cup ToSet(t)
  <2>1. ASSUME NEW x \in ToSet(st) PROVE x \in ToSet(s) \cup ToSet(t)
    <3>1. PICK i \in 1 .. m + n : st[i] = x
      BY <1>2, <2>1 DEF ToSet
    <3>. QED
      BY <1>3, <1>4, <1>5, <3>1
  <2>2. ASSUME NEW x \in ToSet(s) PROVE x \in ToSet(st)
    <3>1. PICK i \in 1 .. m : s[i] = x
      BY <1>2, <2>2 DEF ToSet
    <3>2. i \in DOMAIN st /\ st[i] = x
      BY <1>2, <3>1
    <3>. QED
      BY <3>2 DEF ToSet
  <2>3. ASSUME NEW x \in ToSet(t) PROVE x \in ToSet(st)
    <3>1. PICK i \in 1 .. n : t[i] = x
      BY <1>2, <2>3 DEF ToSet
    <3>2. PICK k \in Int : k = i + m
      OBVIOUS
    <3>3. k \in m + 1 .. m + n /\ k - m = i
      BY <3>2
    <3>4. k \in DOMAIN st /\ st[k] = x
      BY <1>2, <3>1, <3>3
    <3>. QED
      BY <3>4 DEF ToSet
  <2>. QED
    BY <2>1, <2>2, <2>3
<1>. QED
  BY <1>2, <1>6, <1>7 DEF st

\* Everything in the first m lists.
Together(lists, m) == UNION {ToSet(lists[k]) : k \in 1 .. m}

\* f is the function in FlattenSeq, up to the m-th list.
Flattens(f, lists, m) ==
  f = [i \in 1 .. m |-> IF i = 1 THEN lists[i] ELSE f[i - 1] \o lists[i]]

LEMMA FlattensExists ==
  ASSUME NEW lists, NEW n \in Nat
  PROVE  \E f : Flattens(f, lists, n)
<1>. DEFINE Good == {m \in Nat : \E f : Flattens(f, lists, m)}
<1>1. 0 \in Good
  <2>1. 1 .. 0 = {}
    OBVIOUS
  <2>2. \A f : [i \in 1 .. 0 |-> IF i = 1 THEN lists[i] ELSE f[i - 1] \o lists[i]]
                = [i \in 1 .. 0 |-> 0]
    BY <2>1
  <2>. DEFINE none == [i \in 1 .. 0 |-> 0]
  <2>3. Flattens(none, lists, 0)
    BY <2>2 DEF Flattens
  <2>. QED
    BY <2>3
<1>2. ASSUME NEW m \in Nat, m \in Good
      PROVE  m + 1 \in Good
  <2>1. PICK f : Flattens(f, lists, m)
    BY <1>2
  <2>. DEFINE g == [i \in 1 .. m + 1 |->
                      IF i = m + 1
                      THEN IF i = 1 THEN lists[i] ELSE f[m] \o lists[i]
                      ELSE f[i]]
              h == [i \in 1 .. m + 1 |-> IF i = 1 THEN lists[i] ELSE g[i - 1] \o lists[i]]
  <2>2. ASSUME NEW i \in 1 .. m + 1
        PROVE  g[i] = h[i]
    <3>1. h[i] = IF i = 1 THEN lists[i] ELSE g[i - 1] \o lists[i]
      OBVIOUS
    <3>2. CASE i = m + 1
      <4>1. i = 1 => g[i] = lists[i]
        BY <3>2
      <4>2. i # 1 => g[i] = f[m] \o lists[i]
        BY <3>2
      <4>3. i # 1 => g[i - 1] = f[m]
        BY <3>2
      <4>. HIDE DEF g, h
      <4>. QED
        BY <3>1, <4>1, <4>2, <4>3, Zenon
    <3>3. CASE i # m + 1
      <4>1. i \in 1 .. m /\ g[i] = f[i]
        BY <3>3
      <4>2. f[i] = IF i = 1 THEN lists[i] ELSE f[i - 1] \o lists[i]
        BY <2>1, <4>1, Zenon DEF Flattens
      <4>3. i # 1 => g[i - 1] = f[i - 1]
        BY <3>3
      <4>. HIDE DEF g, h
      <4>. QED
        BY <3>1, <4>1, <4>2, <4>3, Zenon
    <3>. QED
      BY <3>2, <3>3
  <2>3. g = [i \in 1 .. m + 1 |-> g[i]] /\ h = [i \in 1 .. m + 1 |-> h[i]]
    OBVIOUS
  <2>4. Flattens(g, lists, m + 1)
    <3>1. g = h
      <4>. HIDE DEF g, h
      <4>. QED
        BY <2>2, <2>3, Zenon
    <3>2. h = [i \in 1 .. m + 1 |-> IF i = 1 THEN lists[i] ELSE g[i - 1] \o lists[i]]
      OBVIOUS
    <3>. HIDE DEF g, h
    <3>. QED
      BY <3>1, <3>2, Zenon DEF Flattens
  <2>. HIDE DEF g, h
  <2>. QED
    BY <2>4
<1>. HIDE DEF Good
<1>3. n \in Good
  BY <1>1, <1>2, NatSet
<1>. QED
  BY <1>3 DEF Good

\* Flattening lists without common elements keeps all of them, once.
LEMMA FlattenedLists ==
  ASSUME NEW lists \in Seq(Seq(Int)), lists # <<>>,
         \A k \in DOMAIN lists : IsInjective(lists[k]),
         \A j, k \in DOMAIN lists : j # k => \A x \in ToSet(lists[j]) : x \notin ToSet(lists[k])
  PROVE  /\ IsInjective(FlattenSeq(lists))
         /\ ToSet(FlattenSeq(lists)) = Together(lists, Len(lists))
<1>1. PICK n \in Nat : n = Len(lists) /\ n # 0 /\ DOMAIN lists = 1 .. n
  BY EmptySeq
<1>2. PICK f : f = CHOOSE h : Flattens(h, lists, n)
  OBVIOUS
<1>3. FlattenSeq(lists) = f[n]
  BY <1>1, <1>2 DEF FlattenSeq, Flattens
<1>4. Flattens(f, lists, n)
  BY <1>2, FlattensExists, Zenon
<1>5. \A i \in 1 .. n : f[i] = IF i = 1 THEN lists[i] ELSE f[i - 1] \o lists[i]
  BY <1>4, Zenon DEF Flattens
<1>6. \A k \in 1 .. n : lists[k] \in Seq(Int) /\ IsInjective(lists[k])
  <2>1. \A k \in 1 .. n : lists[k] \in Seq(Int)
    BY <1>1
  <2>2. \A k \in 1 .. n : IsInjective(lists[k])
    BY <1>1, Zenon
  <2>. QED
    BY <2>1, <2>2
<1>. DEFINE Right(i) == /\ f[i] \in Seq(Int) /\ IsInjective(f[i])
                        /\ ToSet(f[i]) = Together(lists, i)
            Good == {m \in Nat : m < n => Right(m + 1)}
<1>7. 0 \in Good
  <2>1. 1 \in 1 .. n /\ 1 .. 1 = {1}
    BY <1>1
  <2>2. f[1] = lists[1]
    BY <1>5, <2>1, Zenon
  <2>3. Together(lists, 1) = ToSet(lists[1])
    BY <2>1 DEF Together
  <2>4. Right(1)
    BY <1>6, <2>1, <2>2, <2>3
  <2>. HIDE DEF Right
  <2>. QED
    BY <2>4
<1>8. ASSUME NEW m \in Nat, m \in Good
      PROVE  m + 1 \in Good
  <2>. SUFFICES ASSUME m + 1 < n PROVE Right((m + 1) + 1)
    OBVIOUS
  <2>1. Right(m + 1)
    BY <1>8
  <2>2. PICK i \in Nat : i = (m + 1) + 1 /\ i - 1 = m + 1 /\ i # 1 /\ i \in 1 .. n
    OBVIOUS
  <2>3. f[i] = f[i - 1] \o lists[i]
    BY <1>5, <2>2, Zenon
  <2>4. ASSUME NEW x \in ToSet(f[i - 1]) PROVE x \notin ToSet(lists[i])
    <3>1. PICK k \in 1 .. i - 1 : x \in ToSet(lists[k])
      BY <2>1, <2>2 DEF Together
    <3>2. k \in DOMAIN lists /\ i \in DOMAIN lists /\ k # i
      BY <1>1, <2>2
    <3>. QED
      BY <3>1, <3>2
  <2>5. /\ f[i - 1] \in Seq(Int) /\ IsInjective(f[i - 1])
        /\ ToSet(f[i - 1]) = Together(lists, i - 1)
    BY <2>1, <2>2
  <2>6. /\ f[i] \in Seq(Int) /\ IsInjective(f[i])
        /\ ToSet(f[i]) = Together(lists, i - 1) \cup ToSet(lists[i])
    BY <1>6, <2>2, <2>3, <2>4, <2>5, JoinedLists
  <2>7. Together(lists, i) = Together(lists, i - 1) \cup ToSet(lists[i])
    <3>1. 1 .. i = (1 .. i - 1) \cup {i}
      BY <2>2
    <3>. QED
      BY <3>1, Zenon DEF Together
  <2>. QED
    BY <2>2, <2>6, <2>7
<1>. HIDE DEF Good
<1>9. n - 1 \in Good
  <2>1. \A m \in Nat : m \in Good => m + 1 \in Good
    BY <1>8
  <2>2. \A m \in Nat : m \in Good
    BY <1>7, <2>1, NatSet
  <2>. QED
    BY <1>1, <2>2
<1>10. Right(n)
  <2>1. n - 1 < n /\ (n - 1) + 1 = n
    BY <1>1
  <2>. HIDE DEF Right
  <2>. QED
    BY <1>9, <2>1 DEF Good
<1>. QED
  BY <1>1, <1>3, <1>10

\* For every size of the domain, and in both builds, the orders are those of
\* CellGrid, and together they have every cell exactly once.
THEOREM OrdersPartition == Spec => []OrdersPartitionCells
<1>1. IInv /\ OrderLists => OrdersPartitionCells
  <2>. SUFFICES ASSUME IInv, OrderLists, phase = "done" PROVE OrdersPartitionCells
    BY DEF OrdersPartitionCells
  <2>1. /\ orders \in Seq(Seq(Int)) /\ Len(orders) = NumOrders
        /\ DOMAIN orders = 1 .. NumOrders
        /\ \A k \in 1 .. NumOrders : Lists(orders[k], OrderCells(k - 1), NumCells)
    BY DEF OrderLists
  <2>2. ASSUME NEW k \in 1 .. NumOrders
        PROVE  /\ IsInjective(orders[k])
               /\ ToSet(orders[k]) = IndicesOf(OrderCells(k - 1))
               /\ k - 1 \in 0 .. NumOrders - 1
    <3>1. OrderCells(k - 1) \in SUBSET Cells
      BY DEF OrderCells
    <3>2. k - 1 \in 0 .. NumOrders - 1
      BY NumOrdersNat
    <3>. QED
      BY <2>1, <3>1, <3>2, AllListed DEF Lists
  <2>3. \A g \in 0 .. NumOrders - 1 : ToSet(orders[g + 1]) = IndicesOf(OrderCells(g))
    <3>. SUFFICES ASSUME NEW g \in 0 .. NumOrders - 1
                  PROVE  ToSet(orders[g + 1]) = IndicesOf(OrderCells(g))
      OBVIOUS
    <3>1. g + 1 \in 1 .. NumOrders /\ (g + 1) - 1 = g
      BY NumOrdersNat
    <3>. QED
      BY <2>2, <3>1
  <2>4. ASSUME NEW j \in 1 .. NumOrders, NEW k \in 1 .. NumOrders, j # k,
               NEW x \in ToSet(orders[j])
        PROVE  x \notin ToSet(orders[k])
    <3>. SUFFICES ASSUME x \in ToSet(orders[k]) PROVE FALSE
      OBVIOUS
    <3>1. PICK c \in OrderCells(j - 1) : x = cellCoordToCellIndex(c)
      BY <2>2 DEF IndicesOf
    <3>2. PICK d \in OrderCells(k - 1) : x = cellCoordToCellIndex(d)
      BY <2>2 DEF IndicesOf
    <3>3. c \in Cells /\ d \in Cells
      BY DEF OrderCells
    <3>4. c = d
      BY <3>1, <3>2, <3>3, IndexInjective
    <3>5. j - 1 = OrderOf(c) /\ k - 1 = OrderOf(c)
      BY <2>2, <3>1, <3>2, <3>3, <3>4, EveryCellInOneOrder
    <3>. QED
      BY <2>4, <3>5
  <2>5. orders # <<>>
    BY <2>1, NumOrdersNat
  <2>6. /\ IsInjective(FlattenSeq(orders))
        /\ ToSet(FlattenSeq(orders)) = Together(orders, NumOrders)
    BY <2>1, <2>2, <2>4, <2>5, FlattenedLists
  <2>7. Together(orders, NumOrders) = IndicesOf(Cells)
    <3>1. ASSUME NEW x \in Together(orders, NumOrders) PROVE x \in IndicesOf(Cells)
      <4>1. PICK k \in 1 .. NumOrders : x \in ToSet(orders[k])
        BY <3>1 DEF Together
      <4>2. PICK c \in OrderCells(k - 1) : x = cellCoordToCellIndex(c)
        BY <2>2, <4>1 DEF IndicesOf
      <4>3. c \in Cells
        BY DEF OrderCells
      <4>. QED
        BY <4>2, <4>3 DEF IndicesOf
    <3>2. ASSUME NEW c \in Cells PROVE cellCoordToCellIndex(c) \in Together(orders, NumOrders)
      <4>1. PICK g \in 0 .. NumOrders - 1 : g = OrderOf(c)
        BY OrderOfInRange
      <4>2. c \in OrderCells(g)
        BY <4>1, EveryCellInOneOrder
      <4>3. g + 1 \in 1 .. NumOrders
        BY NumOrdersNat
      <4>4. cellCoordToCellIndex(c) \in ToSet(orders[g + 1])
        BY <2>3, <4>2 DEF IndicesOf
      <4>. QED
        BY <4>3, <4>4 DEF Together
    <3>. QED
      BY <3>1, <3>2 DEF IndicesOf
  <2>8. IndicesOf(Cells) = 0 .. Len(cells) - 1
    <3>1. Len(cells) = NumCells /\ NumCells \in Nat /\ cells \in Seq(CellRecords)
      BY NumCellsNat DEF IInv, CursorCounts, TypeOK
    <3>2. ASSUME NEW i \in 0 .. NumCells - 1 PROVE i \in IndicesOf(Cells)
      <4>1. PICK k \in Nat : k = i + 1 /\ k - 1 = i /\ k \in DOMAIN cells
        BY <3>1
      <4>2. cellCoordToCellIndex(cells[k].coord) = i
        BY <4>1 DEF IInv, IndexFindsCell
      <4>3. cells[k].coord \in Cells
        <5>1. cells[k] \in CellRecords
          BY <3>1, <4>1
        <5>. QED
          BY <5>1 DEF CellRecords
      <4>. QED
        BY <4>2, <4>3 DEF IndicesOf
    <3>3. \A c \in Cells : cellCoordToCellIndex(c) \in 0 .. NumCells - 1
      BY IndexInRange
    <3>. QED
      BY <3>1, <3>2, <3>3 DEF IndicesOf
  <2>. QED
    BY <2>3, <2>6, <2>7, <2>8 DEF OrdersPartitionCells
<1>. QED
  BY <1>1, Invariance, OrderListsAlways, PTL

=============================================================================
