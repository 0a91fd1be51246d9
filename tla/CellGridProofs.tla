--------------------------- MODULE CellGridProofs ---------------------------
(***************************************************************************)
(* Facts about CellGrid for every domain size: the one-dimensional index   *)
(* orders the cells lexicographically, every cell belongs to exactly one   *)
(* iteration order, and two cells of one iteration order never write to a  *)
(* common cell.                                                            *)
(***************************************************************************)
EXTENDS CellGrid, TLAPS

\* The lexicographic order of cell coordinates, the order of creation.
LexBefore(c, d) ==
    \/ c[1] < d[1]
    \/ c[1] = d[1] /\ c[2] < d[2]
    \/ c[1] = d[1] /\ c[2] = d[2] /\ c[3] < d[3]

\* One digit: with a lower digit in 0 .. W-1 the higher digit decides.
LEMMA DigitOrder ==
    ASSUME NEW W \in Nat, NEW u \in Int, NEW v \in Int,
           NEW r \in Int, NEW s \in Int,
           0 <= r, r < W, 0 <= s, s < W, u < v
    PROVE  u * W + r < v * W + s
<1>1. u + 1 <= v
  OBVIOUS
<1>2. (v - (u + 1)) * W >= 0
  <2>1. v - (u + 1) \in Nat
    BY <1>1
  <2> QED
    BY <2>1
<1>3. (v - (u + 1)) * W = v * W - u * W - W
  OBVIOUS
<1>4. u * W \in Int /\ v * W \in Int
  OBVIOUS
<1> QED
  BY <1>2, <1>3, <1>4

LEMMA CellCoordinates ==
    ASSUME NEW c \in Cells
    PROVE  /\ c[1] \in Int /\ c[2] \in Int /\ c[3] \in Int
           /\ -1 <= c[1] /\ c[1] <= NX
           /\ -1 <= c[2] /\ c[2] <= NY
           /\ -1 <= c[3] /\ c[3] <= NZ
           /\ c = <<c[1], c[2], c[3]>>
  BY DomainAssumption DEF Cells, DomainAssumption

\* The index of a cell is a number with the digits c[1]+1, c[2]+1, c[3]+1.
Row(c) == (c[1] + 1) * (NY + 2) + (c[2] + 1)

LEMMA IndexDigits ==
    ASSUME NEW c \in Cells
    PROVE  /\ Row(c) \in Int
           /\ cellCoordToCellIndex(c) = Row(c) * (NZ + 2) + (c[3] + 1)
<1>1. /\ c[1] \in Int /\ c[2] \in Int /\ c[3] \in Int
      /\ -1 <= c[1] /\ c[1] <= NX /\ -1 <= c[2] /\ c[2] <= NY
      /\ -1 <= c[3] /\ c[3] <= NZ
  BY CellCoordinates
<1>2. cellCoordToCellIndex(c)
        = (c[1] + 1) * (NY + 2) * (NZ + 2) + (c[2] + 1) * (NZ + 2) + (c[3] + 1)
  BY <1>1, DomainAssumption DEF cellCoordToCellIndex, DomainAssumption
<1> DEFINE a == c[1] + 1
           b == c[2] + 1
           V == NY + 2
           W == NZ + 2
<1>3. a \in Int /\ b \in Int /\ V \in Int /\ W \in Int
  BY <1>1, DomainAssumption DEF DomainAssumption
<1>4. a * V * W + b * W = (a * V + b) * W
  <2> HIDE DEF a, b, V, W
  <2> QED
    BY <1>3
<1>5. Row(c) \in Int
  BY <1>3 DEF Row
<1> QED
  BY <1>2, <1>4, <1>5 DEF Row

LEMMA LexImpliesBefore ==
    ASSUME NEW c \in Cells, NEW d \in Cells, LexBefore(c, d)
    PROVE  Before(c, d)
<1>1. /\ c[1] \in Int /\ c[2] \in Int /\ c[3] \in Int
      /\ -1 <= c[2] /\ c[2] <= NY /\ -1 <= c[3] /\ c[3] <= NZ
  BY CellCoordinates
<1>2. /\ d[1] \in Int /\ d[2] \in Int /\ d[3] \in Int
      /\ -1 <= d[2] /\ d[2] <= NY /\ -1 <= d[3] /\ d[3] <= NZ
  BY CellCoordinates
<1>3. NY + 2 \in Nat /\ NZ + 2 \in Nat
  BY DomainAssumption DEF DomainAssumption
<1>4. Row(c) \in Int /\ Row(d) \in Int
  BY IndexDigits
<1>5. CASE c[1] = d[1] /\ c[2] = d[2] /\ c[3] < d[3]
  <2>1. Row(c) = Row(d)
    BY <1>5 DEF Row
  <2>2. cellCoordToCellIndex(c) = Row(d) * (NZ + 2) + (c[3] + 1)
    BY <2>1, IndexDigits
  <2>3. cellCoordToCellIndex(d) = Row(d) * (NZ + 2) + (d[3] + 1)
    BY IndexDigits
  <2>4. Row(d) * (NZ + 2) \in Int
    BY <1>3, <1>4
  <2> QED
    BY <1>1, <1>2, <1>5, <2>2, <2>3, <2>4 DEF Before
<1>6. ASSUME Row(c) < Row(d) PROVE Before(c, d)
  <2>1. Row(c) * (NZ + 2) + (c[3] + 1) < Row(d) * (NZ + 2) + (d[3] + 1)
    <3>1. /\ c[3] + 1 \in Int /\ 0 <= c[3] + 1 /\ c[3] + 1 < NZ + 2
          /\ d[3] + 1 \in Int /\ 0 <= d[3] + 1 /\ d[3] + 1 < NZ + 2
      BY <1>1, <1>2, DomainAssumption DEF DomainAssumption
    <3> QED
      BY <1>3, <1>4, <1>6, <3>1, DigitOrder
  <2> QED
    BY <2>1, IndexDigits DEF Before
<1>7. CASE c[1] = d[1] /\ c[2] < d[2]
  <2>1. (c[1] + 1) * (NY + 2) \in Int
    BY <1>1, <1>3
  <2>2. Row(c) = (c[1] + 1) * (NY + 2) + (c[2] + 1)
    BY DEF Row
  <2>3. Row(d) = (c[1] + 1) * (NY + 2) + (d[2] + 1)
    BY <1>7 DEF Row
  <2> QED
    BY <1>1, <1>2, <1>6, <1>7, <2>1, <2>2, <2>3
<1>8. CASE c[1] < d[1]
  <2>1. /\ c[2] + 1 \in Int /\ 0 <= c[2] + 1 /\ c[2] + 1 < NY + 2
        /\ d[2] + 1 \in Int /\ 0 <= d[2] + 1 /\ d[2] + 1 < NY + 2
        /\ c[1] + 1 \in Int /\ d[1] + 1 \in Int /\ c[1] + 1 < d[1] + 1
    BY <1>1, <1>2, <1>8, DomainAssumption DEF DomainAssumption
  <2>2. Row(c) < Row(d)
    BY <1>3, <2>1, DigitOrder DEF Row
  <2> QED
    BY <1>6, <2>2
<1> QED
  BY <1>5, <1>7, <1>8 DEF LexBefore

LEMMA IndexInt ==
    ASSUME NEW c \in Cells
    PROVE  cellCoordToCellIndex(c) \in Int
<1>1. Row(c) \in Int /\ NZ + 2 \in Int /\ c[3] \in Int
  BY IndexDigits, CellCoordinates, DomainAssumption DEF DomainAssumption
<1>2. Row(c) * (NZ + 2) \in Int
  BY <1>1
<1> QED
  BY <1>1, <1>2, IndexDigits

\* Comparing the addresses of two cells compares their coordinates.
LEMMA BeforeIsLexicographic ==
    ASSUME NEW c \in Cells, NEW d \in Cells
    PROVE  Before(c, d) <=> LexBefore(c, d)
<1>1. LexBefore(c, d) => Before(c, d)
  BY LexImpliesBefore
<1>2. LexBefore(d, c) => Before(d, c)
  BY LexImpliesBefore
<1>3. c = d \/ LexBefore(c, d) \/ LexBefore(d, c)
  <2>1. /\ c[1] \in Int /\ c[2] \in Int /\ c[3] \in Int /\ c = <<c[1], c[2], c[3]>>
        /\ d[1] \in Int /\ d[2] \in Int /\ d[3] \in Int /\ d = <<d[1], d[2], d[3]>>
    BY CellCoordinates
  <2>2. CASE c[1] = d[1] /\ c[2] = d[2] /\ c[3] = d[3]
    BY <2>1, <2>2
  <2>3. CASE ~(c[1] = d[1] /\ c[2] = d[2] /\ c[3] = d[3])
    BY <2>1, <2>3 DEF LexBefore
  <2> QED
    BY <2>2, <2>3
<1>4. cellCoordToCellIndex(c) \in Int /\ cellCoordToCellIndex(d) \in Int
  BY IndexInt
<1> QED
  BY <1>1, <1>2, <1>3, <1>4 DEF Before

\* No two cells share an index, so every cell has its place in `cells`.
THEOREM IndexInjective ==
    ASSUME NEW c \in Cells, NEW d \in Cells,
           cellCoordToCellIndex(c) = cellCoordToCellIndex(d)
    PROVE  c = d
<1>1. cellCoordToCellIndex(c) \in Int
  BY IndexInt
<1>2. ~Before(c, d) /\ ~Before(d, c)
  BY <1>1 DEF Before
<1>3. ~LexBefore(c, d) /\ ~LexBefore(d, c)
  BY <1>2, LexImpliesBefore
<1>4. /\ c[1] \in Int /\ c[2] \in Int /\ c[3] \in Int /\ c = <<c[1], c[2], c[3]>>
      /\ d[1] \in Int /\ d[2] \in Int /\ d[3] \in Int /\ d = <<d[1], d[2], d[3]>>
  BY CellCoordinates
<1>5. c[1] = d[1] /\ c[2] = d[2] /\ c[3] = d[3]
  BY <1>3, <1>4 DEF LexBefore
<1> QED
  BY <1>4, <1>5

\* Of two different cells exactly one comes first.
LEMMA BeforeTotal ==
    ASSUME NEW c \in Cells, NEW d \in Cells, c # d
    PROVE  Before(c, d) <=> ~Before(d, c)
<1>1. cellCoordToCellIndex(c) \in Int /\ cellCoordToCellIndex(d) \in Int
  BY IndexInt
<1>2. cellCoordToCellIndex(c) # cellCoordToCellIndex(d)
  BY IndexInjective
<1> QED
  BY <1>1, <1>2 DEF Before

-----------------------------------------------------------------------------
(***************************************************************************)
(* The iteration orders of the c_18 traversal                              *)
(***************************************************************************)

\* A thread that processes c only writes to cells one step away, and on the
\* first axis never upwards.
LEMMA FootprintReach ==
    ASSUME NEW c \in Cells, NEW e \in Footprint(c)
    PROVE  /\ e \in Cells
           /\ c[1] - e[1] \in 0 .. 1
           /\ e[2] - c[2] \in -1 .. 1
           /\ e[3] - c[3] \in -1 .. 1
<1>1. /\ c[1] \in Int /\ c[2] \in Int /\ c[3] \in Int
  BY CellCoordinates
<1>2. CASE e = c
  BY <1>1, <1>2
<1>3. CASE e \in Neighbours(c) /\ ~Before(c, e)
  <2>1. e \in Cells /\ \A a \in Axes : e[a] - c[a] \in -1 .. 1
    BY <1>3 DEF Neighbours
  <2>2. /\ e[1] \in Int /\ e[2] \in Int /\ e[3] \in Int
    BY <2>1, CellCoordinates
  <2>3. e[1] - c[1] \in -1 .. 1 /\ e[2] - c[2] \in -1 .. 1 /\ e[3] - c[3] \in -1 .. 1
    BY <2>1 DEF Axes
  <2>4. ~(c[1] < e[1])
    BY <1>3, <2>1, BeforeIsLexicographic DEF LexBefore
  <2> QED
    BY <1>1, <2>1, <2>2, <2>3, <2>4
<1> QED
  BY <1>2, <1>3 DEF Footprint

\* Points of one lattice are equal or a stride apart.
LEMMA LatticeSpacing2 ==
    ASSUME NEW s \in Int, NEW x \in Int, NEW y \in Int, x # y,
           OnLattice(x, s, 2), OnLattice(y, s, 2)
    PROVE  x - y >= 2 \/ y - x >= 2
  BY DEF OnLattice

LEMMA LatticeSpacing3 ==
    ASSUME NEW s \in Int, NEW x \in Int, NEW y \in Int, x # y,
           OnLattice(x, s, 3), OnLattice(y, s, 3)
    PROVE  x - y >= 3 \/ y - x >= 3
  BY DEF OnLattice

LEMMA StartOffsetInt ==
    ASSUME NEW g \in Nat
    PROVE  /\ StartOffset(g)[1] \in Int
           /\ StartOffset(g)[2] \in Int
           /\ StartOffset(g)[3] \in Int
  BY DEF StartOffset, d_x, d_y, d_z

\* Two cells of one iteration order have disjoint footprints: the spacing of
\* the traversal, by which PARALLEL_V2 = OFF needs no locks.
THEOREM FootprintsDisjoint ==
    ASSUME ~PARALLEL_V2,
           NEW g \in Nat,
           NEW c \in OrderCells(g), NEW d \in OrderCells(g), c # d
    PROVE  Footprint(c) \cap Footprint(d) = {}
<1>1. c \in Cells /\ d \in Cells
  BY DEF OrderCells
<1>2. /\ c[1] \in Int /\ c[2] \in Int /\ c[3] \in Int /\ c = <<c[1], c[2], c[3]>>
      /\ d[1] \in Int /\ d[2] \in Int /\ d[3] \in Int /\ d = <<d[1], d[2], d[3]>>
  BY <1>1, CellCoordinates
<1>3. /\ OnLattice(c[1], StartOffset(g)[1], 2) /\ OnLattice(d[1], StartOffset(g)[1], 2)
      /\ OnLattice(c[2], StartOffset(g)[2], 3) /\ OnLattice(d[2], StartOffset(g)[2], 3)
      /\ OnLattice(c[3], StartOffset(g)[3], 3) /\ OnLattice(d[3], StartOffset(g)[3], 3)
  BY DEF OrderCells, d_x, d_y, d_z
<1>4. /\ c[1] # d[1] => c[1] - d[1] >= 2 \/ d[1] - c[1] >= 2
      /\ c[2] # d[2] => c[2] - d[2] >= 3 \/ d[2] - c[2] >= 3
      /\ c[3] # d[3] => c[3] - d[3] >= 3 \/ d[3] - c[3] >= 3
  BY <1>2, <1>3, LatticeSpacing2, LatticeSpacing3, StartOffsetInt
<1>5. ASSUME NEW e, e \in Footprint(c), e \in Footprint(d)
      PROVE  FALSE
  <2>1. /\ c[1] - e[1] \in 0 .. 1 /\ e[2] - c[2] \in -1 .. 1 /\ e[3] - c[3] \in -1 .. 1
        /\ d[1] - e[1] \in 0 .. 1 /\ e[2] - d[2] \in -1 .. 1 /\ e[3] - d[3] \in -1 .. 1
        /\ e \in Cells
    BY <1>1, <1>5, FootprintReach
  <2>2. e[1] \in Int /\ e[2] \in Int /\ e[3] \in Int
    BY <2>1, CellCoordinates
  <2>3. c[1] = d[1] /\ c[2] = d[2] /\ c[3] = d[3]
    BY <1>2, <1>4, <2>1, <2>2
  <2> QED
    BY <1>2, <2>3
<1> QED
  BY <1>5

\* The index of the order that visits a cell.
OrderOf(c) ==
    IF PARALLEL_V2 THEN 0
    ELSE ((c[1] + 1) % 2) * 9 + ((c[2] + 1) % 3) * 3 + ((c[3] + 1) % 3)

\* On each axis the start offset is the residue of the coordinate.
LEMMA LatticeResidue2 ==
    ASSUME NEW x \in Int, -1 <= x, NEW s \in 0 .. 1
    PROVE  OnLattice(x, s - 1, 2) <=> s = (x + 1) % 2
<1>1. OnLattice(x, s - 1, 2) <=> x >= s - 1 /\ (x + 1 - s) % 2 = 0
  BY DEF OnLattice
<1> QED
  BY <1>1

LEMMA LatticeResidue3 ==
    ASSUME NEW x \in Int, -1 <= x, NEW s \in 0 .. 2
    PROVE  OnLattice(x, s - 1, 3) <=> s = (x + 1) % 3
<1>1. OnLattice(x, s - 1, 3) <=> x >= s - 1 /\ (x + 1 - s) % 3 = 0
  BY DEF OnLattice
<1> QED
  BY <1>1

\* The three residues make up the index of an order.
LEMMA ResiduesUnique ==
    ASSUME NEW x \in 0 .. 1, NEW y \in 0 .. 2, NEW z \in 0 .. 2,
           NEW u \in 0 .. 1, NEW v \in 0 .. 2, NEW w \in 0 .. 2
    PROVE  x * 9 + y * 3 + z = u * 9 + v * 3 + w <=> x = u /\ y = v /\ z = w
  OBVIOUS

\* Every cell is visited in exactly one iteration order.
THEOREM EveryCellInOneOrder ==
    ASSUME NEW c \in Cells, NEW g \in 0 .. NumOrders - 1
    PROVE  c \in OrderCells(g) <=> g = OrderOf(c)
<1>1. CASE PARALLEL_V2
  BY <1>1 DEF NumOrders, OrderCells, OrderOf
<1>2. CASE ~PARALLEL_V2
  <2>1. /\ c[1] \in Int /\ c[2] \in Int /\ c[3] \in Int
        /\ -1 <= c[1] /\ -1 <= c[2] /\ -1 <= c[3]
    BY CellCoordinates
  <2>2. g \in 0 .. 17
    BY <1>2 DEF NumOrders, d_x, d_y, d_z
  <2> DEFINE gx == g \div 9
             gy == (g \div 3) % 3
             gz == g % 3
  <2>3. /\ gx \in 0 .. 1 /\ gy \in 0 .. 2 /\ gz \in 0 .. 2
        /\ g = gx * 9 + gy * 3 + gz
    BY <2>2
  <2>4. StartOffset(g) = <<gx - 1, gy - 1, gz - 1>>
    BY DEF StartOffset, d_y, d_z
  <2> HIDE DEF gx, gy, gz
  <2>5. /\ OnLattice(c[1], gx - 1, 2) <=> gx = (c[1] + 1) % 2
        /\ OnLattice(c[2], gy - 1, 3) <=> gy = (c[2] + 1) % 3
        /\ OnLattice(c[3], gz - 1, 3) <=> gz = (c[3] + 1) % 3
    BY <2>1, <2>3, LatticeResidue2, LatticeResidue3
  <2>6. c \in OrderCells(g) <=> /\ OnLattice(c[1], gx - 1, 2)
                                /\ OnLattice(c[2], gy - 1, 3)
                                /\ OnLattice(c[3], gz - 1, 3)
    BY <1>2, <2>4 DEF OrderCells, d_x, d_y, d_z
  <2>7. /\ (c[1] + 1) % 2 \in 0 .. 1
        /\ (c[2] + 1) % 3 \in 0 .. 2
        /\ (c[3] + 1) % 3 \in 0 .. 2
    BY <2>1
  <2>8. OrderOf(c) = ((c[1] + 1) % 2) * 9 + ((c[2] + 1) % 3) * 3 + ((c[3] + 1) % 3)
    BY <1>2 DEF OrderOf
  <2>9. g = OrderOf(c) <=> /\ gx = (c[1] + 1) % 2
                           /\ gy = (c[2] + 1) % 3
                           /\ gz = (c[3] + 1) % 3
    <3> DEFINE hx == (c[1] + 1) % 2
               hy == (c[2] + 1) % 3
               hz == (c[3] + 1) % 3
    <3>1. /\ gx \in 0 .. 1 /\ gy \in 0 .. 2 /\ gz \in 0 .. 2
          /\ hx \in 0 .. 1 /\ hy \in 0 .. 2 /\ hz \in 0 .. 2
      BY <2>3, <2>7
    <3>2. g = gx * 9 + gy * 3 + gz
      BY <2>3
    <3>3. OrderOf(c) = hx * 9 + hy * 3 + hz
      BY <2>8
    <3> HIDE DEF hx, hy, hz
    <3>4. gx * 9 + gy * 3 + gz = hx * 9 + hy * 3 + hz
            <=> gx = hx /\ gy = hy /\ gz = hz
      BY <3>1, ResiduesUnique
    <3>5. g = OrderOf(c) <=> gx = hx /\ gy = hy /\ gz = hz
      BY <3>2, <3>3, <3>4
    <3> QED
      BY <3>5 DEF hx, hy, hz
  <2> QED
    BY <2>5, <2>6, <2>9
<1> QED
  BY <1>1, <1>2

LEMMA OrderOfInRange ==
    ASSUME NEW c \in Cells
    PROVE  OrderOf(c) \in 0 .. NumOrders - 1
<1>1. c[1] \in Int /\ c[2] \in Int /\ c[3] \in Int
  BY CellCoordinates
<1>2. /\ (c[1] + 1) % 2 \in 0 .. 1
      /\ (c[2] + 1) % 3 \in 0 .. 2
      /\ (c[3] + 1) % 3 \in 0 .. 2
  BY <1>1
<1> QED
  BY <1>2 DEF OrderOf, NumOrders, d_x, d_y, d_z

=============================================================================
