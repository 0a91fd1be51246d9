------------------------ MODULE PairwiseForcesProofs ------------------------
(***************************************************************************)
(* The parallel force loop is free of data races and applies every pair    *)
(* exactly once, for every domain size, number of threads, number of       *)
(* particles and placement of the particles, in both builds.               *)
(***************************************************************************)
EXTENDS PairwiseForces, CellGridProofs, FiniteSetTheorems

LEMMA PlacementCells ==
    ASSUME cellOf \in Placements
    PROVE  \A p \in Particles : cellOf[p] \in Cells
  BY PairwiseAssumption DEF PairwiseAssumption

LEMMA NumOrdersPositive == NumOrders \in Nat \ {0}
  BY DEF NumOrders, d_x, d_y, d_z

\* A pair joins two different particles, belongs to the cell of its first one,
\* lies in the footprint of that cell, and is not listed in reverse.
LEMMA PairShape ==
    ASSUME cellOf \in Placements, NEW c \in Cells, NEW pq \in Pairs(c)
    PROVE  /\ pq = <<pq[1], pq[2]>>
           /\ pq[1] \in Particles /\ pq[2] \in Particles /\ pq[1] # pq[2]
           /\ cellOf[pq[1]] = c
           /\ cellOf[pq[2]] \in Footprint(c)
           /\ pq \in AllPairs
           /\ <<pq[2], pq[1]>> \notin AllPairs
<1>1. /\ pq \in Particles \X Particles
      /\ pq = <<pq[1], pq[2]>>
      /\ pq[1] \in Particles /\ pq[2] \in Particles
      /\ cellOf[pq[1]] = c
  BY DEF Pairs, InnerPairs, NeighbourPairs, References
<1>2. pq \in AllPairs
  BY <1>1 DEF AllPairs
<1>3. cellOf[pq[2]] \in Cells
  BY <1>1, PlacementCells
<1>4. pq[1] \in Int /\ pq[2] \in Int
  BY <1>1 DEF Particles
<1>5. CASE pq \in InnerPairs(c)
  <2>1. cellOf[pq[2]] = c /\ pq[1] < pq[2]
    BY <1>5 DEF InnerPairs, References
  <2>2. cellOf[pq[2]] \notin Neighbours(c)
    BY <2>1 DEF Neighbours
  <2>3. <<pq[2], pq[1]>> \notin InnerPairs(cellOf[pq[2]])
    BY <1>4, <2>1 DEF InnerPairs
  <2>4. <<pq[2], pq[1]>> \notin NeighbourPairs(cellOf[pq[2]])
    BY <1>1, <2>1, <2>2 DEF NeighbourPairs
  <2>5. <<pq[2], pq[1]>> \notin AllPairs
    BY <2>3, <2>4 DEF AllPairs, Pairs
  <2> QED
    BY <1>1, <1>2, <1>4, <2>1, <2>5 DEF Footprint
<1>6. CASE pq \in NeighbourPairs(c)
  <2> DEFINE d == cellOf[pq[2]]
  <2>1. d \in Neighbours(c) /\ ~Before(c, d)
    BY <1>6 DEF NeighbourPairs
  <2>2. d # c
    BY <2>1 DEF Neighbours
  <2>3. Before(d, c)
    BY <1>3, <2>1, <2>2, BeforeTotal
  <2>4. <<pq[2], pq[1]>> \notin NeighbourPairs(d)
    BY <1>1, <2>3 DEF NeighbourPairs
  <2>5. <<pq[2], pq[1]>> \notin InnerPairs(d)
    BY <1>1, <2>2 DEF InnerPairs, References
  <2>6. <<pq[2], pq[1]>> \notin AllPairs
    BY <2>4, <2>5 DEF AllPairs, Pairs
  <2> QED
    BY <1>1, <1>2, <2>1, <2>2, <2>6 DEF Footprint
<1> QED
  BY <1>5, <1>6 DEF Pairs

\* The pairs of a cell depend on the placement only.
LEMMA PairsUnchanged ==
    ASSUME cellOf' = cellOf
    PROVE  /\ \A c : Pairs(c)' = Pairs(c)
           /\ \A g : NonEmpty(g)' = NonEmpty(g)
           /\ AllPairs' = AllPairs
<1>1. \A c : Pairs(c)' = Pairs(c)
  BY DEF Pairs, InnerPairs, NeighbourPairs, References
<1>2. \A g : NonEmpty(g)' = NonEmpty(g)
  BY DEF NonEmpty, References
<1>3. AllPairs' = AllPairs
  BY <1>1 DEF AllPairs
<1> QED
  BY <1>1, <1>2, <1>3

\* A cell of the current order is in no later order.
LEMMA NotLater ==
    ASSUME NEW g \in 0 .. NumOrders - 1, NEW c \in OrderCells(g)
    PROVE  \A h \in g + 1 .. NumOrders - 1 : c \notin OrderCells(h)
<1>1. c \in Cells
  BY DEF OrderCells
<1>2. g = OrderOf(c)
  BY <1>1, EveryCellInOneOrder
<1>3. SUFFICES ASSUME NEW h \in g + 1 .. NumOrders - 1, c \in OrderCells(h)
               PROVE  FALSE
  OBVIOUS
<1>4. g \in Int /\ NumOrders \in Int
  BY NumOrdersPositive
<1>5. h \in 0 .. NumOrders - 1 /\ h # g
  BY <1>4
<1> QED
  BY <1>1, <1>2, <1>3, <1>5, EveryCellInOneOrder

-----------------------------------------------------------------------------
(***************************************************************************)
(* What the invariant says of a thread that holds a cell                   *)
(***************************************************************************)

Active == {"addF", "adding", "subF", "subbing"}

\* The pair of an active thread is a pair of the cell it holds.
LEMMA HeldPair ==
    ASSUME TypeOK, CellsHeldOnce, NEW w \in Workers, pc[w] \in Active
    PROVE  /\ cell[w] \in Cells
           /\ cell[w] \in OrderCells(order)
           /\ order \in 0 .. NumOrders - 1
           /\ pair[w] \in Pairs(cell[w])
           /\ pair[w] \notin work[w]
           /\ pair[w] = <<pair[w][1], pair[w][2]>>
           /\ pair[w][1] \in Particles /\ pair[w][2] \in Particles
           /\ pair[w][1] # pair[w][2]
           /\ cellOf[pair[w][1]] = cell[w]
           /\ cellOf[pair[w][1]] \in Footprint(cell[w])
           /\ cellOf[pair[w][2]] \in Footprint(cell[w])
           /\ pair[w] \in AllPairs
           /\ <<pair[w][2], pair[w][1]>> \notin AllPairs
<1>1. /\ cell[w] \in NonEmpty(order)
      /\ order < NumOrders
      /\ pair[w] \in Pairs(cell[w])
      /\ pair[w] \notin work[w]
  BY DEF CellsHeldOnce, Active
<1>2. cell[w] \in OrderCells(order)
  BY <1>1 DEF NonEmpty
<1>3. cell[w] \in Cells
  BY <1>2 DEF OrderCells
<1>4. order \in 0 .. NumOrders - 1
  BY <1>1, NumOrdersPositive DEF TypeOK
<1>5. cellOf \in Placements
  BY DEF TypeOK
<1>6. cell[w] \in Footprint(cell[w])
  BY DEF Footprint
<1> HIDE DEF Active
<1> QED
  BY <1>1, <1>2, <1>3, <1>4, <1>5, <1>6, PairShape

\* An active thread is the only place where its pair is pending.
LEMMA PairState ==
    ASSUME TypeOK, CellsHeldOnce, NEW w \in Workers, pc[w] \in Active
    PROVE  /\ ~Waiting(pair[w])
           /\ \A v \in Workers : pc[v] \in Active /\ pair[v] = pair[w] => v = w
<1>1. /\ cellOf[pair[w][1]] = cell[w]
      /\ cell[w] \in OrderCells(order)
      /\ order \in 0 .. NumOrders - 1
      /\ cell[w] \in Cells
      /\ pair[w] \notin work[w]
  BY HeldPair
<1>2. cell[w] \notin todo
  BY DEF CellsHeldOnce, Active
<1>3. \A g \in order + 1 .. NumOrders - 1 : cell[w] \notin OrderCells(g)
  BY <1>1, NotLater
<1>4. ASSUME NEW v \in Workers, pair[w] \in work[v]
      PROVE  FALSE
  <2>1. pc[v] # "idle" /\ cell[v] \in NonEmpty(order) /\ pair[w] \in Pairs(cell[v])
    BY <1>4 DEF CellsHeldOnce
  <2>2. cell[v] \in Cells
    BY <2>1 DEF NonEmpty, OrderCells
  <2>3. cellOf[pair[w][1]] = cell[v]
    BY <2>1, <2>2, PairShape DEF TypeOK
  <2>4. v # w
    BY <1>1, <1>4
  <2> QED
    BY <1>1, <2>1, <2>3, <2>4 DEF CellsHeldOnce, Active
<1>5. ASSUME NEW v \in Workers, pc[v] \in Active, pair[v] = pair[w]
      PROVE  v = w
  <2>1. cellOf[pair[v][1]] = cell[v]
    BY <1>5, HeldPair
  <2> QED
    BY <1>1, <1>5, <2>1 DEF CellsHeldOnce, Active
<1> QED
  BY <1>1, <1>2, <1>3, <1>4, <1>5 DEF Waiting

\* The two builds avoid races differently: by the footprints of the cells of
\* one order, or by the mutex of the particle.
LEMMA NoRace == TypeOK /\ CellsHeldOnce /\ MutexHeldInUpdate => NoDataRace
<1> SUFFICES ASSUME TypeOK, CellsHeldOnce, MutexHeldInUpdate,
                    NEW v \in Workers, NEW w \in Workers, v # w,
                    NEW p \in Updating(v), p \in Updating(w)
             PROVE  FALSE
  BY DEF NoDataRace
<1>1. /\ pc[v] \in {"adding", "subbing"} /\ pc[w] \in {"adding", "subbing"}
      /\ p \in {pair[v][1], pair[v][2]}
      /\ p \in {pair[w][1], pair[w][2]}
  BY DEF Updating
<1>2. pc[v] \in Active /\ pc[w] \in Active
  BY <1>1 DEF Active
<1>3. p \in Particles
  BY <1>1, <1>2, HeldPair
<1>4. CASE PARALLEL_V2
  <2>1. mutex_f[p] = v /\ mutex_f[p] = w
    BY <1>3, <1>4 DEF MutexHeldInUpdate
  <2> QED
    BY <2>1
<1>5. CASE ~PARALLEL_V2
  <2>1. cellOf[p] \in Footprint(cell[v]) /\ cellOf[p] \in Footprint(cell[w])
    BY <1>1, <1>2, HeldPair
  <2>2. cell[v] # cell[w]
    BY <1>1 DEF CellsHeldOnce
  <2>3. cell[v] \in OrderCells(order) /\ cell[w] \in OrderCells(order)
    BY <1>2, HeldPair
  <2>4. order \in Nat
    BY NumOrdersPositive DEF TypeOK
  <2> QED
    BY <1>5, <2>1, <2>2, <2>3, <2>4, FootprintsDisjoint
<1> QED
  BY <1>4, <1>5

LEMMA FootprintsApart == TypeOK /\ CellsHeldOnce => DisjointFootprints
<1> SUFFICES ASSUME TypeOK, CellsHeldOnce, ~PARALLEL_V2,
                    NEW v \in Workers, NEW w \in Workers, v # w,
                    cell[v] # NoCell, cell[w] # NoCell
             PROVE  Footprint(cell[v]) \cap Footprint(cell[w]) = {}
  BY DEF DisjointFootprints
<1>1. pc[v] # "idle" /\ pc[w] # "idle"
  BY DEF CellsHeldOnce
<1>2. cell[v] \in OrderCells(order) /\ cell[w] \in OrderCells(order) /\ cell[v] # cell[w]
  BY <1>1 DEF CellsHeldOnce, NonEmpty
<1>3. order \in Nat
  BY NumOrdersPositive DEF TypeOK
<1> QED
  BY <1>2, <1>3, FootprintsDisjoint

-----------------------------------------------------------------------------
(***************************************************************************)
(* The steps preserve the invariant                                        *)
(***************************************************************************)

\* Steps that leave the forces alone and keep every pair at the same stage.
LEMMA AccountedUnchanged ==
    ASSUME Accounted, cellOf' = cellOf, f' = f,
           \A pq \in AllPairs :
             /\ (Waiting(pq) \/ InAddF(pq))' <=> Waiting(pq) \/ InAddF(pq)
             /\ InSubF(pq)' <=> InSubF(pq)
    PROVE  Accounted'
<1>1. AllPairs' = AllPairs
  BY PairsUnchanged
<1> QED
  BY <1>1 DEF Accounted, AccountedFor

LEMMA TakeCellStep ==
    ASSUME IInv, NEW w \in Workers, TakeCell(w)
    PROVE  IInv'
<1> USE DEF IInv, TakeCell
<1>1. PICK c \in todo : /\ todo' = todo \ {c}
                        /\ cell' = [cell EXCEPT ![w] = c]
                        /\ work' = [work EXCEPT ![w] = Pairs(c)]
  OBVIOUS
<1>2. c \in Cells /\ Pairs(c) \subseteq Particles \X Particles
  BY DEF TypeOK, Pairs, InnerPairs, NeighbourPairs, References
<1>3. TypeOK'
  BY <1>1, <1>2 DEF TypeOK
<1>4. CellsHeldOnce'
  BY <1>1, <1>2, PairsUnchanged DEF CellsHeldOnce, TypeOK
<1>5. \A v \in Workers : Updating(v)' = Updating(v)
  BY <1>1 DEF Updating, TypeOK
<1>6. MutexHeldInUpdate'
  BY <1>5 DEF MutexHeldInUpdate
<1>7. LoadedIsCurrent'
  BY <1>5 DEF LoadedIsCurrent
<1>8. Accounted'
  <2>1. \A v \in Workers : v # w => work'[v] = work[v]
    BY <1>1 DEF TypeOK
  <2>2. work'[w] = Pairs(c) /\ work[w] = {}
    BY <1>1 DEF TypeOK, CellsHeldOnce
  <2>3. \A pq \in AllPairs : Waiting(pq)' <=> Waiting(pq)
    <3> SUFFICES ASSUME NEW pq \in AllPairs
                 PROVE  Waiting(pq)' <=> Waiting(pq)
      OBVIOUS
    <3>1. pq \in Pairs(c) <=> cellOf[pq[1]] = c
      BY <1>2, PairShape DEF AllPairs, TypeOK
    <3> QED
      BY <1>1, <2>1, <2>2, <3>1 DEF Waiting
  <2>4. \A pq \in AllPairs : (InAddF(pq)' <=> InAddF(pq)) /\ (InSubF(pq)' <=> InSubF(pq))
    BY DEF InAddF, InSubF, TypeOK
  <2> QED
    BY <2>3, <2>4, AccountedUnchanged
<1> QED
  BY <1>3, <1>4, <1>6, <1>7, <1>8

LEMMA NextPairStep ==
    ASSUME IInv, NEW w \in Workers, NextPair(w)
    PROVE  IInv'
<1> USE DEF IInv, NextPair
<1>1. PICK pq \in work[w] : /\ pair' = [pair EXCEPT ![w] = pq]
                            /\ work' = [work EXCEPT ![w] = @ \ {pq}]
  OBVIOUS
<1>2. pq \in Particles \X Particles
  BY DEF TypeOK
<1>3. TypeOK'
  BY <1>1, <1>2 DEF TypeOK
<1>4. CellsHeldOnce'
  BY <1>1, <1>2, PairsUnchanged DEF CellsHeldOnce, TypeOK
<1>5. \A v \in Workers : Updating(v)' = Updating(v)
  BY <1>1 DEF Updating, TypeOK
<1>6. MutexHeldInUpdate'
  BY <1>5 DEF MutexHeldInUpdate
<1>7. LoadedIsCurrent'
  BY <1>5 DEF LoadedIsCurrent
<1>8. Accounted'
  <2>1. \A r \in AllPairs : (Waiting(r) \/ InAddF(r))' <=> Waiting(r) \/ InAddF(r)
    <3> SUFFICES ASSUME NEW r \in AllPairs
                 PROVE  (Waiting(r) \/ InAddF(r))' <=> Waiting(r) \/ InAddF(r)
      OBVIOUS
    <3>1. CASE r = pq
      <4>1. Waiting(r)
        BY <3>1 DEF Waiting
      <4>2. InAddF(r)'
        BY <1>1, <3>1 DEF InAddF, TypeOK
      <4> QED
        BY <4>1, <4>2
    <3>2. CASE r # pq
      <4>1. Waiting(r)' <=> Waiting(r)
        BY <1>1, <3>2 DEF Waiting, TypeOK
      <4>2. InAddF(r)' <=> InAddF(r)
        BY <1>1, <3>2 DEF InAddF, TypeOK
      <4> QED
        BY <4>1, <4>2
    <3> QED
      BY <3>1, <3>2
  <2>2. \A r \in AllPairs : InSubF(r)' <=> InSubF(r)
    BY <1>1 DEF InSubF, TypeOK
  <2> QED
    BY <2>1, <2>2, AccountedUnchanged
<1> QED
  BY <1>3, <1>4, <1>6, <1>7, <1>8

\* The store of an addition to a force that has no contribution of q yet.
LEMMA PlusFromZero ==
    ASSUME NEW g \in Forces, NEW q \in Particles, g[q] = 0
    PROVE  Plus(g, q) = [g EXCEPT ![q] = 1]
  BY DEF Plus, Forces

LEMMA BeginAddFStep ==
    ASSUME IInv, NEW w \in Workers, BeginAddF(w)
    PROVE  IInv'
<1> USE DEF IInv, BeginAddF, Load
<1>1. pair[w][1] \in Particles
  BY HeldPair DEF Active
<1>2. TypeOK'
  BY <1>1 DEF TypeOK, Forces, Acquire
<1>3. CellsHeldOnce'
  BY PairsUnchanged DEF CellsHeldOnce, TypeOK
<1>4. /\ Updating(w)' = {pair[w][1]}
      /\ Updating(w) = {}
      /\ \A v \in Workers : v # w => Updating(v)' = Updating(v)
  BY <1>1 DEF Updating, TypeOK
<1>5. MutexHeldInUpdate'
  BY <1>1, <1>4, PairwiseAssumption DEF MutexHeldInUpdate, Acquire, TypeOK, PairwiseAssumption
<1>6. LoadedIsCurrent'
  BY <1>4 DEF LoadedIsCurrent, TypeOK
<1>7. Accounted'
  <2>1. \A r \in AllPairs : Waiting(r)' <=> Waiting(r)
    BY DEF Waiting
  <2>2. \A r \in AllPairs : (InAddF(r)' <=> InAddF(r)) /\ (InSubF(r)' <=> InSubF(r))
    BY DEF InAddF, InSubF, TypeOK
  <2> QED
    BY <2>1, <2>2, AccountedUnchanged
<1> QED
  BY <1>2, <1>3, <1>5, <1>6, <1>7

LEMMA EndAddFStep ==
    ASSUME IInv, NEW w \in Workers, EndAddF(w)
    PROVE  IInv'
<1> USE DEF IInv, EndAddF, Store
<1> DEFINE p == pair[w][1]
           q == pair[w][2]
<1>1. /\ p \in Particles /\ q \in Particles /\ p # q
      /\ pair[w] = <<pair[w][1], pair[w][2]>>
      /\ pair[w] \in AllPairs
      /\ <<pair[w][2], pair[w][1]>> \notin AllPairs
  BY HeldPair DEF Active
<1>2. /\ Updating(w) = {p}
      /\ Updating(w)' = {}
      /\ \A v \in Workers : v # w => Updating(v)' = Updating(v)
  BY <1>1 DEF Updating, TypeOK
<1>3. \A v \in Workers : v # w => p \notin Updating(v)
  BY <1>2, NoRace DEF NoDataRace
<1>4. f[p][q] = 0
  BY <1>1, PairState DEF Accounted, AccountedFor, InAddF, InSubF, Active
<1>5. reg[w] = f[p] /\ f[p] \in [Particles -> 0 .. 1]
  BY <1>1, <1>2 DEF LoadedIsCurrent, TypeOK, Forces
<1>6. f' = [f EXCEPT ![p] = [f[p] EXCEPT ![q] = 1]]
  <2>1. f' = [f EXCEPT ![p] = Plus(reg[w], q)]
    OBVIOUS
  <2>2. Plus(reg[w], q) = [f[p] EXCEPT ![q] = 1]
    BY <1>1, <1>4, <1>5, PlusFromZero DEF Forces
  <2> QED
    BY <2>1, <2>2
<1>7. TypeOK'
  <2>1. [f[p] EXCEPT ![q] = 1] \in Forces
    BY <1>1, <1>5 DEF Forces
  <2>2. f' \in [Particles -> Forces]
    BY <1>6, <2>1 DEF TypeOK
  <2> QED
    BY <1>1, <2>2 DEF TypeOK, Release
<1>8. CellsHeldOnce'
  BY PairsUnchanged DEF CellsHeldOnce, TypeOK
<1>9. MutexHeldInUpdate'
  BY <1>1, <1>2, PairwiseAssumption DEF MutexHeldInUpdate, Release, TypeOK, PairwiseAssumption
<1>10. LoadedIsCurrent'
  BY <1>2, <1>3, <1>6 DEF LoadedIsCurrent, TypeOK
<1>11. Accounted'
  <2>1. ~Waiting(pair[w]) /\ InAddF(pair[w])
    BY PairState DEF InAddF, Active
  <2>2. ~InAddF(pair[w])' /\ InSubF(pair[w])'
    BY PairState DEF InAddF, InSubF, Active, TypeOK
  <2>3. \A r \in AllPairs : r # pair[w] =>
           (InAddF(r)' <=> InAddF(r)) /\ (InSubF(r)' <=> InSubF(r))
    BY DEF InAddF, InSubF, TypeOK
  <2>4. \A r \in AllPairs : Waiting(r)' <=> Waiting(r)
    BY DEF Waiting
  <2>5. \A a, b \in Particles : <<a, b>> # <<p, q>> => f'[a][b] = f[a][b]
    <3> SUFFICES ASSUME NEW a \in Particles, NEW b \in Particles, <<a, b>> # <<p, q>>
                 PROVE  f'[a][b] = f[a][b]
      OBVIOUS
    <3>1. f \in [Particles -> Forces] /\ f[p] \in [Particles -> 0 .. 1]
      BY <1>5 DEF TypeOK
    <3> HIDE DEF p, q
    <3>2. CASE a # p
      BY <1>6, <3>1, <3>2
    <3>3. CASE a = p /\ b # q
      BY <1>6, <3>1, <3>3
    <3> QED
      BY <3>2, <3>3
  <2>6. f'[p][q] = 1
    BY <1>1, <1>5, <1>6 DEF TypeOK
  <2>7. AllPairs' = AllPairs
    BY PairsUnchanged
  <2>8. SUFFICES ASSUME NEW a \in Particles, NEW b \in Particles
                 PROVE  AccountedFor(a, b)'
    BY DEF Accounted
  <2>9. CASE <<a, b>> = pair[w]
    <3>1. f[a][b] = 0 /\ f[b][a] = 0
      BY <1>1, <2>1, <2>9 DEF Accounted, AccountedFor
    <3> QED
      BY <1>1, <2>1, <2>2, <2>4, <2>5, <2>6, <2>7, <2>9, <3>1 DEF AccountedFor
  <2>10. CASE <<a, b>> # pair[w]
    <3>1. CASE <<a, b>> \in AllPairs
      <4>1. <<a, b>> # <<p, q>> /\ <<b, a>> # <<p, q>>
        BY <1>1, <2>10, <3>1
      <4>2. f'[a][b] = f[a][b] /\ f'[b][a] = f[b][a]
        BY <2>5, <4>1
      <4> QED
        BY <2>3, <2>4, <2>7, <2>10, <3>1, <4>2 DEF Accounted, AccountedFor
    <3>2. CASE <<a, b>> \notin AllPairs /\ <<b, a>> \notin AllPairs
      <4>1. <<a, b>> # <<p, q>>
        BY <1>1, <3>2
      <4> QED
        BY <2>5, <2>7, <3>2, <4>1 DEF Accounted, AccountedFor
    <3>3. CASE <<a, b>> \notin AllPairs /\ <<b, a>> \in AllPairs
      BY <2>7, <3>3 DEF AccountedFor
    <3> QED
      BY <3>1, <3>2, <3>3
  <2> QED
    BY <2>9, <2>10
<1> QED
  BY <1>7, <1>8, <1>9, <1>10, <1>11

LEMMA BeginSubFStep ==
    ASSUME IInv, NEW w \in Workers, BeginSubF(w)
    PROVE  IInv'
<1> USE DEF IInv, BeginSubF, Load
<1>1. pair[w][2] \in Particles
  BY HeldPair DEF Active
<1>2. TypeOK'
  BY <1>1 DEF TypeOK, Forces, Acquire
<1>3. CellsHeldOnce'
  BY PairsUnchanged DEF CellsHeldOnce, TypeOK
<1>4. /\ Updating(w)' = {pair[w][2]}
      /\ Updating(w) = {}
      /\ \A v \in Workers : v # w => Updating(v)' = Updating(v)
  BY <1>1 DEF Updating, TypeOK
<1>5. MutexHeldInUpdate'
  BY <1>1, <1>4, PairwiseAssumption DEF MutexHeldInUpdate, Acquire, TypeOK, PairwiseAssumption
<1>6. LoadedIsCurrent'
  BY <1>4 DEF LoadedIsCurrent, TypeOK
<1>7. Accounted'
  <2>1. \A r \in AllPairs : Waiting(r)' <=> Waiting(r)
    BY DEF Waiting
  <2>2. \A r \in AllPairs : (InAddF(r)' <=> InAddF(r)) /\ (InSubF(r)' <=> InSubF(r))
    BY DEF InAddF, InSubF, TypeOK
  <2> QED
    BY <2>1, <2>2, AccountedUnchanged
<1> QED
  BY <1>2, <1>3, <1>5, <1>6, <1>7

LEMMA EndSubFStep ==
    ASSUME IInv, NEW w \in Workers, EndSubF(w)
    PROVE  IInv'
<1> USE DEF IInv, EndSubF, Store
<1> DEFINE p == pair[w][2]
           q == pair[w][1]
<1>1. /\ p \in Particles /\ q \in Particles /\ p # q
      /\ pair[w] = <<pair[w][1], pair[w][2]>>
      /\ pair[w] \in AllPairs
      /\ <<pair[w][2], pair[w][1]>> \notin AllPairs
  BY HeldPair DEF Active
<1>2. /\ Updating(w) = {p}
      /\ Updating(w)' = {}
      /\ \A v \in Workers : v # w => Updating(v)' = Updating(v)
  BY <1>1 DEF Updating, TypeOK
<1>3. \A v \in Workers : v # w => p \notin Updating(v)
  BY <1>2, NoRace DEF NoDataRace
<1>4. f[p][q] = 0
  BY <1>1, PairState DEF Accounted, AccountedFor, InAddF, InSubF, Active
<1>5. reg[w] = f[p] /\ f[p] \in [Particles -> 0 .. 1]
  BY <1>1, <1>2 DEF LoadedIsCurrent, TypeOK, Forces
<1>6. f' = [f EXCEPT ![p] = [f[p] EXCEPT ![q] = 1]]
  <2>1. f' = [f EXCEPT ![p] = Plus(reg[w], q)]
    OBVIOUS
  <2>2. Plus(reg[w], q) = [f[p] EXCEPT ![q] = 1]
    BY <1>1, <1>4, <1>5, PlusFromZero DEF Forces
  <2> QED
    BY <2>1, <2>2
<1>7. TypeOK'
  <2>1. [f[p] EXCEPT ![q] = 1] \in Forces
    BY <1>1, <1>5 DEF Forces
  <2>2. f' \in [Particles -> Forces]
    BY <1>6, <2>1 DEF TypeOK
  <2> QED
    BY <1>1, <2>2 DEF TypeOK, Release
<1>8. CellsHeldOnce'
  BY PairsUnchanged DEF CellsHeldOnce, TypeOK
<1>9. MutexHeldInUpdate'
  BY <1>1, <1>2, PairwiseAssumption DEF MutexHeldInUpdate, Release, TypeOK, PairwiseAssumption
<1>10. LoadedIsCurrent'
  BY <1>2, <1>3, <1>6 DEF LoadedIsCurrent, TypeOK
<1>11. Accounted'
  <2>1. ~Waiting(pair[w]) /\ InSubF(pair[w])
    BY PairState DEF InSubF, Active
  <2>2. ~InAddF(pair[w]) /\ ~InAddF(pair[w])' /\ ~InSubF(pair[w])'
    BY PairState DEF InAddF, InSubF, Active, TypeOK
  <2>3. \A r \in AllPairs : r # pair[w] =>
           (InAddF(r)' <=> InAddF(r)) /\ (InSubF(r)' <=> InSubF(r))
    BY DEF InAddF, InSubF, TypeOK
  <2>4. \A r \in AllPairs : Waiting(r)' <=> Waiting(r)
    BY DEF Waiting
  <2>5. \A a, b \in Particles : <<a, b>> # <<p, q>> => f'[a][b] = f[a][b]
    <3> SUFFICES ASSUME NEW a \in Particles, NEW b \in Particles, <<a, b>> # <<p, q>>
                 PROVE  f'[a][b] = f[a][b]
      OBVIOUS
    <3>1. f \in [Particles -> Forces] /\ f[p] \in [Particles -> 0 .. 1]
      BY <1>5 DEF TypeOK
    <3> HIDE DEF p, q
    <3>2. CASE a # p
      BY <1>6, <3>1, <3>2
    <3>3. CASE a = p /\ b # q
      BY <1>6, <3>1, <3>3
    <3> QED
      BY <3>2, <3>3
  <2>6. f'[p][q] = 1
    BY <1>1, <1>5, <1>6 DEF TypeOK
  <2>7. AllPairs' = AllPairs
    BY PairsUnchanged
  <2>8. SUFFICES ASSUME NEW a \in Particles, NEW b \in Particles
                 PROVE  AccountedFor(a, b)'
    BY DEF Accounted
  <2>9. CASE <<a, b>> = pair[w]
    <3>1. f[a][b] = 1 /\ f[b][a] = 0
      BY <1>1, <2>1, <2>2, <2>9 DEF Accounted, AccountedFor
    <3> QED
      BY <1>1, <2>1, <2>2, <2>4, <2>5, <2>6, <2>7, <2>9, <3>1 DEF AccountedFor
  <2>10. CASE <<a, b>> # pair[w]
    <3>1. CASE <<a, b>> \in AllPairs
      <4>1. <<a, b>> # <<p, q>> /\ <<b, a>> # <<p, q>>
        BY <1>1, <2>10, <3>1
      <4>2. f'[a][b] = f[a][b] /\ f'[b][a] = f[b][a]
        BY <2>5, <4>1
      <4> QED
        BY <2>3, <2>4, <2>7, <2>10, <3>1, <4>2 DEF Accounted, AccountedFor
    <3>2. CASE <<a, b>> \notin AllPairs /\ <<b, a>> \notin AllPairs
      <4>1. <<a, b>> # <<p, q>>
        BY <1>1, <3>2
      <4> QED
        BY <2>5, <2>7, <3>2, <4>1 DEF Accounted, AccountedFor
    <3>3. CASE <<a, b>> \notin AllPairs /\ <<b, a>> \in AllPairs
      BY <2>7, <3>3 DEF AccountedFor
    <3> QED
      BY <3>1, <3>2, <3>3
  <2> QED
    BY <2>9, <2>10
<1> QED
  BY <1>7, <1>8, <1>9, <1>10, <1>11

LEMMA FinishCellStep ==
    ASSUME IInv, NEW w \in Workers, FinishCell(w)
    PROVE  IInv'
<1> USE DEF IInv, FinishCell
<1>1. TypeOK'
  BY DEF TypeOK
<1>2. CellsHeldOnce'
  BY PairsUnchanged DEF CellsHeldOnce, TypeOK
<1>3. \A v \in Workers : Updating(v)' = Updating(v)
  BY DEF Updating, TypeOK
<1>4. MutexHeldInUpdate'
  BY <1>3 DEF MutexHeldInUpdate
<1>5. LoadedIsCurrent'
  BY <1>3 DEF LoadedIsCurrent
<1>6. Accounted'
  <2>1. \A r \in AllPairs : Waiting(r)' <=> Waiting(r)
    BY DEF Waiting
  <2>2. \A r \in AllPairs : (InAddF(r)' <=> InAddF(r)) /\ (InSubF(r)' <=> InSubF(r))
    BY DEF InAddF, InSubF, TypeOK
  <2> QED
    BY <2>1, <2>2, AccountedUnchanged
<1> QED
  BY <1>1, <1>2, <1>4, <1>5, <1>6

LEMMA NextOrderStep ==
    ASSUME IInv, NextOrder
    PROVE  IInv'
<1> USE DEF IInv, NextOrder
<1>1. order \in Nat /\ order < NumOrders /\ NumOrders \in Nat
  BY NumOrdersPositive DEF TypeOK
<1>2. TypeOK'
  BY <1>1 DEF TypeOK, NonEmpty, OrderCells
<1>3. CellsHeldOnce'
  BY PairsUnchanged DEF CellsHeldOnce, TypeOK
<1>4. \A v \in Workers : Updating(v)' = Updating(v)
  BY DEF Updating, TypeOK
<1>5. MutexHeldInUpdate'
  BY <1>4 DEF MutexHeldInUpdate
<1>6. LoadedIsCurrent'
  BY <1>4 DEF LoadedIsCurrent
<1>7. Accounted'
  <2>1. \A r \in AllPairs : Waiting(r)' <=> Waiting(r)
    <3> SUFFICES ASSUME NEW r \in AllPairs
                 PROVE  Waiting(r)' <=> Waiting(r)
      OBVIOUS
    <3> DEFINE c == cellOf[r[1]]
               Later(o) == \E g \in o + 1 .. NumOrders - 1 : c \in OrderCells(g)
    <3>1. r[1] \in References(c)
      BY DEF AllPairs, References
    <3>2. Later(order) <=>
            (order + 1 < NumOrders /\ c \in OrderCells(order + 1)) \/ Later(order + 1)
      BY <1>1
    <3>3. order + 1 < NumOrders =>
            (c \in NonEmpty(order + 1) <=> c \in OrderCells(order + 1))
      BY <3>1 DEF NonEmpty
    <3>4. c \in todo' <=> order + 1 < NumOrders /\ c \in OrderCells(order + 1)
      BY <3>3
    <3>5. Waiting(r) <=> Later(order) \/ \E w \in Workers : r \in work[w]
      BY DEF Waiting
    <3>6. Waiting(r)' <=> c \in todo' \/ Later(order + 1) \/ \E w \in Workers : r \in work[w]
      BY DEF Waiting
    <3> HIDE DEF c, Later
    <3> QED
      BY <3>2, <3>4, <3>5, <3>6
  <2>2. \A r \in AllPairs : (InAddF(r)' <=> InAddF(r)) /\ (InSubF(r)' <=> InSubF(r))
    BY DEF InAddF, InSubF
  <2> QED
    BY <2>1, <2>2, AccountedUnchanged
<1> QED
  BY <1>2, <1>3, <1>5, <1>6, <1>7

LEMMA StutterStep ==
    ASSUME IInv, UNCHANGED vars
    PROVE  IInv'
<1> USE DEF IInv, vars
<1>1. TypeOK'
  BY DEF TypeOK
<1>2. CellsHeldOnce'
  BY PairsUnchanged DEF CellsHeldOnce
<1>3. \A v \in Workers : Updating(v)' = Updating(v)
  BY DEF Updating
<1>4. MutexHeldInUpdate' /\ LoadedIsCurrent'
  BY <1>3 DEF MutexHeldInUpdate, LoadedIsCurrent
<1>5. \A r \in AllPairs : /\ Waiting(r)' <=> Waiting(r)
                          /\ InAddF(r)' <=> InAddF(r)
                          /\ InSubF(r)' <=> InSubF(r)
  BY DEF Waiting, InAddF, InSubF
<1>6. Accounted'
  BY <1>5, AccountedUnchanged
<1> QED
  BY <1>1, <1>2, <1>4, <1>6

LEMMA InitEstablishes == Init => IInv
<1> SUFFICES ASSUME Init
             PROVE  IInv
  OBVIOUS
<1> USE DEF Init
<1>1. /\ NumOrders \in Nat \ {0}
      /\ NonEmpty(0) \subseteq Cells
  BY NumOrdersPositive DEF NonEmpty, OrderCells
<1>2. TypeOK
  BY <1>1, PairwiseAssumption DEF TypeOK, PairwiseAssumption, Forces, NoForce
<1>3. CellsHeldOnce
  BY <1>1 DEF CellsHeldOnce
<1>4. \A w \in Workers : Updating(w) = {}
  BY DEF Updating
<1>5. MutexHeldInUpdate /\ LoadedIsCurrent
  BY <1>4, PairwiseAssumption DEF MutexHeldInUpdate, LoadedIsCurrent, PairwiseAssumption
<1>6. Accounted
  <2> SUFFICES ASSUME NEW p \in Particles, NEW q \in Particles
               PROVE  AccountedFor(p, q)
    BY DEF Accounted
  <2>1. f[p][q] = 0 /\ f[q][p] = 0
    BY DEF NoForce
  <2>2. ASSUME <<p, q>> \in AllPairs
        PROVE  Waiting(<<p, q>>)
    <3> DEFINE c == cellOf[p]
    <3>1. c \in Cells /\ p \in References(c)
      BY PlacementCells DEF References
    <3>2. OrderOf(c) \in 0 .. NumOrders - 1 /\ c \in OrderCells(OrderOf(c))
      BY <3>1, OrderOfInRange, EveryCellInOneOrder
    <3>3. CASE OrderOf(c) = 0
      BY <3>1, <3>2, <3>3 DEF Waiting, NonEmpty
    <3>4. CASE OrderOf(c) # 0
      <4>1. OrderOf(c) \in order + 1 .. NumOrders - 1
        BY <1>1, <3>2, <3>4
      <4> QED
        BY <3>2, <4>1 DEF Waiting
    <3> QED
      BY <3>3, <3>4
  <2> QED
    BY <2>1, <2>2 DEF AccountedFor
<1> QED
  BY <1>2, <1>3, <1>5, <1>6 DEF IInv

\* Every step of a thread and of the barrier preserves the invariant.
LEMMA NextPreserves == IInv /\ [Next]_vars => IInv'
<1> SUFFICES ASSUME IInv, [Next]_vars
             PROVE  IInv'
  OBVIOUS
<1>1. ASSUME NEW w \in Workers, Step(w)
      PROVE  IInv'
  BY <1>1, TakeCellStep, NextPairStep, BeginAddFStep, EndAddFStep,
     BeginSubFStep, EndSubFStep, FinishCellStep DEF Step
<1>2. CASE NextOrder
  BY <1>2, NextOrderStep
<1>3. CASE UNCHANGED vars
  BY <1>3, StutterStep
<1> QED
  BY <1>1, <1>2, <1>3 DEF Next, Terminated

\* The invariant of the loop: types, ownership of cells and of mutexes, the
\* loaded values and the account of all contributions.
THEOREM Invariance == Spec => []IInv
<1>1. Init => IInv
  BY InitEstablishes
<1>2. IInv /\ [Next]_vars => IInv'
  BY NextPreserves
<1> QED
  BY <1>1, <1>2, PTL DEF Spec

\* Every variable of the loop of applyPairwiseForces keeps its type.
THEOREM TypeCorrect == Spec => []TypeOK
<1>1. IInv => TypeOK
  BY DEF IInv
<1> QED
  BY <1>1, Invariance, PTL

\* addF and subF are never executed on one particle by two threads at a time,
\* in either build, for any number of threads, cells and particles.
THEOREM RaceFree == Spec => []NoDataRace
<1>1. IInv => NoDataRace
  BY NoRace DEF IInv
<1> QED
  BY <1>1, Invariance, PTL

\* Without locks the cells two threads write to at the same time are disjoint,
\* the spacing argument of docs/Parallelization.md.
THEOREM CellsApart == Spec => []DisjointFootprints
<1>1. IInv => DisjointFootprints
  BY FootprintsApart DEF IInv
<1> QED
  BY <1>1, Invariance, PTL

-----------------------------------------------------------------------------
(***************************************************************************)
(* The loop implements ForceAccumulation                                   *)
(***************************************************************************)

\* Two cells are adjacent if they are equal or neighbours, and either cell is
\* then a neighbour of the other.
LEMMA NeighbourShape ==
    ASSUME NEW c \in Cells, NEW d \in Cells
    PROVE  /\ Adjacent(c, d) <=> c = d \/ d \in Neighbours(c)
           /\ d \in Neighbours(c) <=> c \in Neighbours(d)
<1>1. /\ c[1] \in Int /\ c[2] \in Int /\ c[3] \in Int
      /\ d[1] \in Int /\ d[2] \in Int /\ d[3] \in Int
  BY CellCoordinates
<1> DEFINE Close == /\ c[1] - d[1] \in -1 .. 1
                    /\ c[2] - d[2] \in -1 .. 1
                    /\ c[3] - d[3] \in -1 .. 1
<1>2. Axes = {1, 2, 3}
  BY DEF Axes
<1>3. Adjacent(c, d) <=> Close
  BY <1>2 DEF Adjacent
<1>4. d \in Neighbours(c) <=> d # c /\ Close
  BY <1>1, <1>2 DEF Neighbours
<1>5. c \in Neighbours(d) <=> d # c /\ Close
  BY <1>2 DEF Neighbours
<1>6. c = d => Close
  BY <1>1
<1> QED
  BY <1>3, <1>4, <1>5, <1>6

\* The half of the pairs the loop lists, one direction each, makes up exactly
\* the pairs that have to interact.
LEMMA PairsCoverInteractions ==
    ASSUME cellOf \in Placements, NEW p \in Particles, NEW q \in Particles
    PROVE  <<p, q>> \in Interacting <=> <<p, q>> \in AllPairs \/ <<q, p>> \in AllPairs
<1> DEFINE c == cellOf[p]
           d == cellOf[q]
<1>1. c \in Cells /\ d \in Cells
  BY PlacementCells
<1>2. /\ c[1] \in Int /\ c[2] \in Int /\ c[3] \in Int
      /\ d[1] \in Int /\ d[2] \in Int /\ d[3] \in Int
  BY <1>1, CellCoordinates
<1>3. {p, q} = {q, p}
  OBVIOUS
<1>4. p \in Int /\ q \in Int
  BY DEF Particles
<1>5. p \in References(c) /\ q \in References(d)
  BY DEF References
<1>6. Adjacent(c, d) <=> c = d \/ d \in Neighbours(c)
  BY <1>1, NeighbourShape
<1>7. d \in Neighbours(c) <=> c \in Neighbours(d)
  BY <1>1, NeighbourShape
<1>8. c \notin Neighbours(c)
  BY DEF Neighbours
<1>9. BothLocked(p, q) <=> BothLocked(q, p)
  BY DEF BothLocked
<1>10. <<p, q>> \in AllPairs <=>
         \/ c = d /\ p < q /\ ~BothLocked(p, q)
         \/ /\ d \in Neighbours(c) /\ ~Before(c, d)
            /\ ~BothLocked(p, q) /\ {p, q} \notin Far
  BY <1>5 DEF AllPairs, Pairs, InnerPairs, NeighbourPairs, References
<1>11. <<q, p>> \in AllPairs <=>
         \/ c = d /\ q < p /\ ~BothLocked(q, p)
         \/ /\ c \in Neighbours(d) /\ ~Before(d, c)
            /\ ~BothLocked(q, p) /\ {p, q} \notin Far
  BY <1>3, <1>5 DEF AllPairs, Pairs, InnerPairs, NeighbourPairs, References
<1>12. <<p, q>> \in Interacting <=>
         /\ p # q /\ ~BothLocked(p, q)
         /\ Adjacent(c, d)
         /\ c = d \/ {p, q} \notin Far
  BY DEF Interacting
<1>13. CASE c = d
  BY <1>4, <1>6, <1>8, <1>9, <1>10, <1>11, <1>12, <1>13
<1>14. CASE c # d
  <2>1. Before(c, d) <=> ~Before(d, c)
    BY <1>1, <1>14, BeforeTotal
  <2>2. p # q
    BY <1>14
  <2> QED
    BY <1>6, <1>7, <1>9, <1>10, <1>11, <1>12, <1>14, <2>1, <2>2
<1> QED
  BY <1>13, <1>14

LEMMA InteractingUnchanged ==
    ASSUME cellOf' = cellOf
    PROVE  Interacting' = Interacting
  BY DEF Interacting

\* A store of a thread adds one missing partner to the force of one particle.
LEMMA StoreContributes ==
    ASSUME cellOf' = cellOf, order' = order,
           NEW p \in Particles, NEW q \in Particles,
           <<p, q>> \in Interacting, ~Returned, f \in [Particles -> Forces],
           f[p][q] = 0, f' = [f EXCEPT ![p] = [f[p] EXCEPT ![q] = 1]]
    PROVE  ForceSum!Contribute(p)
<1>1. Interacting' = Interacting
  BY InteractingUnchanged
<1>2. Returned' = Returned
  BY DEF Returned
<1>3. {q} \in SUBSET ForceSum!Missing(p)
  BY DEF ForceSum!Missing
<1>4. [f[p] EXCEPT ![q] = 1] = [x \in Particles |-> IF x \in {q} THEN 1 ELSE f[p][x]]
  BY DEF Forces
<1>5. f' = [f EXCEPT ![p] = [x \in Particles |-> IF x \in {q} THEN 1 ELSE f[p][x]]]
  BY <1>4
<1> QED
  BY <1>1, <1>2, <1>3, <1>5 DEF ForceSum!Contribute

\* When the last order has ended, no contribution is missing.
LEMMA NothingMissing ==
    ASSUME IInv, NextOrder, order + 1 = NumOrders, NEW p \in Particles
    PROVE  ForceSum!Missing(p) = {}
<1> USE DEF IInv
<1> SUFFICES ASSUME NEW q \in Particles, <<p, q>> \in Interacting, f[p][q] = 0
             PROVE  FALSE
  BY DEF ForceSum!Missing
<1>1. \A w \in Workers : work[w] = {} /\ pc[w] = "idle"
  BY DEF NextOrder, CellsHeldOnce
<1>2. \A r : ~InAddF(r) /\ ~InSubF(r)
  BY <1>1 DEF InAddF, InSubF
<1>3. order + 1 .. NumOrders - 1 = {}
  BY NumOrdersPositive
<1>4. \A r : ~Waiting(r)
  BY <1>1, <1>3 DEF Waiting, NextOrder
<1>5. <<p, q>> \in AllPairs \/ <<q, p>> \in AllPairs
  BY PairsCoverInteractions DEF TypeOK
<1>6. AccountedFor(p, q) /\ AccountedFor(q, p)
  BY DEF Accounted
<1> QED
  BY <1>2, <1>4, <1>5, <1>6 DEF AccountedFor

LEMMA InitRefines == Init => ForceSum!Init
<1> SUFFICES ASSUME Init
             PROVE  ForceSum!Init
  OBVIOUS
<1>1. Interacting \subseteq {pq \in Particles \X Particles : pq[1] # pq[2]}
  BY DEF Interacting
<1>2. Returned = FALSE
  BY NumOrdersPositive DEF Init, Returned
<1> QED
  BY <1>1, <1>2 DEF ForceSum!Init, ForceSum!NoForces, Init, NoForce

\* Every step of the loop is a contribution, the return, or invisible.
LEMMA NextRefines == IInv /\ [Next]_vars => [ForceSum!Next]_(ForceSum!vars)
<1> SUFFICES ASSUME IInv, [Next]_vars
             PROVE  [ForceSum!Next]_(ForceSum!vars)
  OBVIOUS
<1>1. ASSUME cellOf' = cellOf, f' = f, order' = order
      PROVE  UNCHANGED ForceSum!vars
  BY <1>1, InteractingUnchanged DEF ForceSum!vars, Returned
<1>2. ASSUME NEW w \in Workers, EndAddF(w) \/ EndSubF(w)
      PROVE  ForceSum!Next
  <2> DEFINE p == IF pc[w] = "adding" THEN pair[w][1] ELSE pair[w][2]
             q == IF pc[w] = "adding" THEN pair[w][2] ELSE pair[w][1]
  <2>1. pc[w] \in {"adding", "subbing"}
    BY <1>2 DEF EndAddF, EndSubF
  <2>2. /\ p \in Particles /\ q \in Particles
        /\ pair[w] = <<p, q>> \/ pair[w] = <<q, p>>
        /\ pair[w] \in AllPairs
        /\ order \in 0 .. NumOrders - 1
    BY <2>1, HeldPair DEF IInv, Active
  <2>3. <<p, q>> \in Interacting
    BY <2>2, PairsCoverInteractions DEF IInv, TypeOK
  <2>4. ~Returned
    BY <2>2, NumOrdersPositive DEF Returned
  <2>5. f[p][q] = 0
    <3>1. CASE pc[w] = "adding"
      <4>1. pair[w] = <<p, q>> /\ InAddF(pair[w])
        BY <2>2, <3>1, HeldPair DEF IInv, Active, InAddF
      <4>2. AccountedFor(p, q) /\ <<p, q>> \in AllPairs /\ InAddF(<<p, q>>)
        BY <2>2, <4>1 DEF IInv, Accounted
      <4> QED
        BY <4>2 DEF AccountedFor
    <3>2. CASE pc[w] = "subbing"
      <4>1. pair[w] = <<q, p>> /\ InSubF(pair[w])
        BY <2>2, <3>2, HeldPair DEF IInv, Active, InSubF
      <4>2. AccountedFor(q, p) /\ <<q, p>> \in AllPairs /\ InSubF(<<q, p>>)
        BY <2>2, <4>1 DEF IInv, Accounted
      <4> QED
        BY <4>2 DEF AccountedFor
    <3> QED
      BY <2>1, <3>1, <3>2
  <2>6. reg[w] = f[p]
    BY <2>1, <2>2 DEF IInv, LoadedIsCurrent, Updating
  <2>7. f' = [f EXCEPT ![p] = Plus(reg[w], q)]
    BY <1>2 DEF EndAddF, EndSubF, Store
  <2>8. f \in [Particles -> Forces] /\ f[p] \in Forces
    BY <2>2 DEF IInv, TypeOK
  <2>9. cellOf' = cellOf /\ order' = order
    BY <1>2 DEF EndAddF, EndSubF, Store
  <2> HIDE DEF p, q
  <2>10. f' = [f EXCEPT ![p] = [f[p] EXCEPT ![q] = 1]]
    BY <2>2, <2>5, <2>6, <2>7, <2>8, PlusFromZero
  <2>11. ForceSum!Contribute(p)
    BY <2>2, <2>3, <2>4, <2>5, <2>8, <2>9, <2>10, StoreContributes
  <2> QED
    BY <2>2, <2>11 DEF ForceSum!Next
<1>3. ASSUME NEW w \in Workers, Step(w)
      PROVE  [ForceSum!Next]_(ForceSum!vars)
  <2>1. CASE EndAddF(w) \/ EndSubF(w)
    BY <1>2, <2>1
  <2>2. CASE ~(EndAddF(w) \/ EndSubF(w))
    <3>1. cellOf' = cellOf /\ f' = f /\ order' = order
      BY <1>3, <2>2 DEF Step, TakeCell, NextPair, BeginAddF, BeginSubF, FinishCell, Load
    <3> QED
      BY <1>1, <3>1
  <2> QED
    BY <2>1, <2>2
<1>4. CASE NextOrder
  <2>1. /\ Interacting' = Interacting /\ f' = f
        /\ Returned = FALSE /\ order \in Int
    BY <1>4, InteractingUnchanged, NumOrdersPositive DEF NextOrder, Returned, IInv, TypeOK
  <2>2. CASE order + 1 = NumOrders
    <3>1. \A p \in Particles : ForceSum!Missing(p) = {}
      BY <1>4, <2>2, NothingMissing
    <3>2. Returned' = TRUE
      BY <1>4, <2>2 DEF NextOrder, Returned
    <3> QED
      BY <2>1, <3>1, <3>2 DEF ForceSum!Next, ForceSum!Return
  <2>3. CASE order + 1 # NumOrders
    <3>1. Returned' = Returned
      BY <1>4, <2>1, <2>3 DEF NextOrder, Returned
    <3> QED
      BY <2>1, <3>1 DEF ForceSum!vars
  <2> QED
    BY <2>2, <2>3
<1>5. CASE UNCHANGED vars
  BY <1>1, <1>5 DEF vars
<1> QED
  BY <1>3, <1>4, <1>5 DEF Next, Terminated

\* The safety part of AccumulatesOnce: no contribution is lost or applied
\* twice, and applyPairwiseForces returns only when none is missing.
THEOREM ImplementsAccumulation == Spec => ForceSum!SafeSpec
<1>1. Init => ForceSum!Init
  BY InitRefines
<1>2. IInv /\ [Next]_vars => [ForceSum!Next]_(ForceSum!vars)
  BY NextRefines
<1> QED
  BY <1>1, <1>2, Invariance, PTL DEF Spec, ForceSum!SafeSpec

-----------------------------------------------------------------------------
(***************************************************************************)
(* Progress                                                                *)
(*                                                                         *)
(* That the loop ends needs fairness and stays with TLC.  Two facts below  *)
(* carry the argument for every size: each step of the loop strikes one    *)
(* entry off a finite list of work and adds none, and as long as there is  *)
(* work some thread, or the barrier, can go on.                            *)
(***************************************************************************)

\* The cells no thread has taken, in this order or in a later one, and those a
\* thread holds.
CellsLeft ==
    todo \cup {c \in Cells : \E g \in order + 1 .. NumOrders - 1 : c \in NonEmpty(g)}

CellsHeld == {cell[w] : w \in {v \in Workers : pc[v] # "idle"}}

\* The pairs no thread has begun, and those whose thread stands at `stages`.
PairsLeft == {pq \in AllPairs : Waiting(pq)}

PairsAt(stages) ==
    {pq \in AllPairs : \E w \in Workers : pair[w] = pq /\ pc[w] \in stages}

\* Every action of the loop, and what it still has to be taken for.
Actions ==
    {"NextOrder", "TakeCell", "FinishCell",
     "NextPair", "BeginAddF", "EndAddF", "BeginSubF", "EndSubF"}

LeftFor(action) ==
    CASE action = "NextOrder"  -> order .. NumOrders - 1
      [] action = "TakeCell"   -> CellsLeft
      [] action = "FinishCell" -> CellsLeft \cup CellsHeld
      [] action = "NextPair"   -> PairsLeft
      [] action = "BeginAddF"  -> PairsLeft \cup PairsAt({"addF"})
      [] action = "EndAddF"    -> PairsLeft \cup PairsAt({"addF", "adding"})
      [] action = "BeginSubF"  -> PairsLeft \cup PairsAt({"addF", "adding", "subF"})
      [] action = "EndSubF"    -> PairsLeft \cup PairsAt(Active)

WorkLeft == UNION {{action} \X LeftFor(action) : action \in Actions}

\* What a thread waits for: nothing, or the mutex of the particle it updates next.
WaitsFor(w) ==
    {p \in Particles :
        /\ PARALLEL_V2 /\ mutex_f[p] # NoWorker
        /\ \/ pc[w] = "addF" /\ p = pair[w][1]
           \/ pc[w] = "subF" /\ p = pair[w][2]}

\* The conditions of Step(w) and of NextOrder on the current state.
CanGoOn(w) == (pc[w] = "idle" => todo # {}) /\ WaitsFor(w) = {}

AtBarrier == order < NumOrders /\ todo = {} /\ \A w \in Workers : pc[w] = "idle"

LEMMA WorkByAction ==
    /\ LeftFor("NextOrder") = order .. NumOrders - 1
    /\ LeftFor("TakeCell") = CellsLeft
    /\ LeftFor("FinishCell") = CellsLeft \cup CellsHeld
    /\ LeftFor("NextPair") = PairsLeft
    /\ LeftFor("BeginAddF") = PairsLeft \cup PairsAt({"addF"})
    /\ LeftFor("EndAddF") = PairsLeft \cup PairsAt({"addF", "adding"})
    /\ LeftFor("BeginSubF") = PairsLeft \cup PairsAt({"addF", "adding", "subF"})
    /\ LeftFor("EndSubF") = PairsLeft \cup PairsAt(Active)
  BY DEF LeftFor

\* A step that shortens the list of one action by one entry, and no other list.
LEMMA StruckOff ==
    ASSUME NEW a \in Actions, NEW x \in LeftFor(a),
           LeftFor(a)' = LeftFor(a) \ {x},
           \A b \in Actions \ {a} : LeftFor(b)' = LeftFor(b)
    PROVE  \E e \in WorkLeft : WorkLeft' = WorkLeft \ {e}
<1> DEFINE e == <<a, x>>
<1>1. e \in WorkLeft
  BY DEF WorkLeft
<1>2. ASSUME NEW d
      PROVE  d \in WorkLeft' <=> d \in WorkLeft /\ d # e
  <2>1. d \in WorkLeft <=> \E b \in Actions : \E y \in LeftFor(b) : d = <<b, y>>
    BY DEF WorkLeft
  <2>2. d \in WorkLeft' <=> \E b \in Actions : \E y \in LeftFor(b)' : d = <<b, y>>
    BY DEF WorkLeft
  <2>3. \A b \in Actions : \A y : y \in LeftFor(b)' <=> y \in LeftFor(b) /\ <<b, y>> # e
    OBVIOUS
  <2> QED
    BY <2>1, <2>2, <2>3
<1>3. WorkLeft' = WorkLeft \ {e}
  BY <1>2
<1> QED
  BY <1>1, <1>3

\* Where the pair of a thread stands is all that counts for PairsAt.
LEMMA PairsAtUnchanged ==
    ASSUME cellOf' = cellOf, NEW stages,
           \A w \in Workers : pc'[w] \in stages => pc[w] \in stages /\ pair'[w] = pair[w],
           \A w \in Workers : pc[w] \in stages => pc'[w] \in stages /\ pair'[w] = pair[w]
    PROVE  PairsAt(stages)' = PairsAt(stages)
  BY PairsUnchanged DEF PairsAt

\* A waiting pair belongs to exactly one of the three.
LEMMA PairsLeftUnchanged ==
    ASSUME cellOf' = cellOf, \A pq \in AllPairs : Waiting(pq)' <=> Waiting(pq)
    PROVE  PairsLeft' = PairsLeft
  BY PairsUnchanged DEF PairsLeft

LEMMA CellsLeftUnchanged ==
    ASSUME cellOf' = cellOf, order' = order, todo' = todo
    PROVE  CellsLeft' = CellsLeft
  BY PairsUnchanged DEF CellsLeft

\* A cell of the current order that has been taken is in no list of cells left.
LEMMA TakenCell ==
    ASSUME TypeOK, NEW c \in NonEmpty(order), order < NumOrders
    PROVE  \A g \in order + 1 .. NumOrders - 1 : c \notin NonEmpty(g)
<1>1. order \in 0 .. NumOrders - 1 /\ c \in OrderCells(order)
  BY NumOrdersPositive DEF TypeOK, NonEmpty
<1> QED
  BY <1>1, NotLater DEF NonEmpty

LEMMA TakeCellStrikesOff ==
    ASSUME IInv, NEW w \in Workers, TakeCell(w)
    PROVE  \E e \in WorkLeft : WorkLeft' = WorkLeft \ {e}
<1> USE DEF IInv, TakeCell
<1>1. PICK c \in todo : /\ todo' = todo \ {c}
                        /\ cell' = [cell EXCEPT ![w] = c]
                        /\ work' = [work EXCEPT ![w] = Pairs(c)]
  OBVIOUS
<1>2. c \in Cells /\ c \in NonEmpty(order) /\ order < NumOrders
  BY DEF TypeOK, CellsHeldOnce
<1>3. \A g \in order + 1 .. NumOrders - 1 : c \notin NonEmpty(g)
  BY <1>2, TakenCell
<1>4. CellsLeft' = CellsLeft \ {c} /\ c \in CellsLeft
  BY <1>1, <1>3, PairsUnchanged DEF CellsLeft
<1>5. CellsHeld' = CellsHeld \cup {c}
  <2>1. cell'[w] = c /\ pc'[w] = "next" /\ pc[w] = "idle"
    BY <1>1 DEF TypeOK
  <2>2. \A v \in Workers : v # w => cell'[v] = cell[v] /\ pc'[v] = pc[v]
    BY <1>1 DEF TypeOK
  <2> QED
    BY <2>1, <2>2 DEF CellsHeld
<1>6. PairsLeft' = PairsLeft
  <2>1. \A v \in Workers : v # w => work'[v] = work[v]
    BY <1>1 DEF TypeOK
  <2>2. work'[w] = Pairs(c) /\ work[w] = {}
    BY <1>1 DEF TypeOK, CellsHeldOnce
  <2>3. ASSUME NEW pq \in AllPairs
        PROVE  Waiting(pq)' <=> Waiting(pq)
    <3>1. pq \in Pairs(c) <=> cellOf[pq[1]] = c
      BY <1>2, PairShape DEF AllPairs, TypeOK
    <3> QED
      BY <1>1, <2>1, <2>2, <3>1 DEF Waiting
  <2> QED
    BY <2>3, PairsLeftUnchanged
<1>7. \A stages \in {{"addF"}, {"addF", "adding"}, {"addF", "adding", "subF"}, Active} :
          PairsAt(stages)' = PairsAt(stages)
  <2> SUFFICES ASSUME NEW stages \in {{"addF"}, {"addF", "adding"}, {"addF", "adding", "subF"}, Active}
               PROVE  PairsAt(stages)' = PairsAt(stages)
    OBVIOUS
  <2>1. "idle" \notin stages /\ "next" \notin stages
    BY DEF Active
  <2>2. pc'[w] = "next" /\ pc[w] = "idle"
    BY DEF TypeOK
  <2>3. \A v \in Workers : v # w => pc'[v] = pc[v]
    BY DEF TypeOK
  <2> QED
    BY <2>1, <2>2, <2>3, PairsAtUnchanged
<1>8. LeftFor("TakeCell")' = LeftFor("TakeCell") \ {c} /\ c \in LeftFor("TakeCell")
  BY <1>4, WorkByAction DEF LeftFor
<1>9. \A b \in Actions \ {"TakeCell"} : LeftFor(b)' = LeftFor(b)
  BY <1>4, <1>5, <1>6, <1>7 DEF LeftFor, Actions
<1> QED
  BY <1>8, <1>9, StruckOff DEF Actions

LEMMA NextPairStrikesOff ==
    ASSUME IInv, NEW w \in Workers, NextPair(w)
    PROVE  \E e \in WorkLeft : WorkLeft' = WorkLeft \ {e}
<1> USE DEF IInv, NextPair
<1>1. PICK pq \in work[w] : /\ pair' = [pair EXCEPT ![w] = pq]
                            /\ work' = [work EXCEPT ![w] = @ \ {pq}]
  OBVIOUS
<1>2. /\ cell[w] \in NonEmpty(order) \ todo /\ order < NumOrders
      /\ pq \in Pairs(cell[w])
  BY DEF CellsHeldOnce
<1>3. cell[w] \in Cells
  BY <1>2 DEF NonEmpty, OrderCells
<1>4. cellOf[pq[1]] = cell[w] /\ pq \in AllPairs
  BY <1>2, <1>3, PairShape DEF TypeOK
<1>5. \A g \in order + 1 .. NumOrders - 1 : cell[w] \notin OrderCells(g)
  <2>1. order \in 0 .. NumOrders - 1 /\ cell[w] \in OrderCells(order)
    BY <1>2, NumOrdersPositive DEF TypeOK, NonEmpty
  <2> QED
    BY <2>1, NotLater
<1>6. \A v \in Workers : v # w => pq \notin work[v]
  <2> SUFFICES ASSUME NEW v \in Workers, v # w, pq \in work[v]
               PROVE  FALSE
    OBVIOUS
  <2>1. pc[v] # "idle" /\ cell[v] \in NonEmpty(order) /\ pq \in Pairs(cell[v])
    BY DEF CellsHeldOnce
  <2>2. cell[v] \in Cells
    BY <2>1 DEF NonEmpty, OrderCells
  <2>3. cellOf[pq[1]] = cell[v]
    BY <2>1, <2>2, PairShape DEF TypeOK
  <2> QED
    BY <1>4, <2>1, <2>3 DEF CellsHeldOnce
<1>7. PairsLeft' = PairsLeft \ {pq} /\ pq \in PairsLeft
  <2>1. Waiting(pq)
    BY <1>1 DEF Waiting
  <2>2. \A v \in Workers : pq \notin work'[v]
    BY <1>1, <1>6 DEF TypeOK
  <2>3. ~Waiting(pq)'
    BY <1>2, <1>4, <1>5, <2>2 DEF Waiting
  <2>4. \A r \in AllPairs : r # pq => (Waiting(r)' <=> Waiting(r))
    BY <1>1 DEF Waiting, TypeOK
  <2> QED
    BY <1>4, <2>1, <2>3, <2>4, PairsUnchanged DEF PairsLeft
<1>8. \A stages \in {{"addF"}, {"addF", "adding"}, {"addF", "adding", "subF"}, Active} :
          PairsAt(stages)' = PairsAt(stages) \cup {pq}
  <2> SUFFICES ASSUME NEW stages \in {{"addF"}, {"addF", "adding"}, {"addF", "adding", "subF"}, Active}
               PROVE  PairsAt(stages)' = PairsAt(stages) \cup {pq}
    OBVIOUS
  <2>1. "next" \notin stages /\ "addF" \in stages
    BY DEF Active
  <2>2. pc'[w] = "addF" /\ pc[w] = "next" /\ pair'[w] = pq
    BY <1>1 DEF TypeOK
  <2>3. \A v \in Workers : v # w => pc'[v] = pc[v] /\ pair'[v] = pair[v]
    BY <1>1 DEF TypeOK
  <2>4. AllPairs' = AllPairs
    BY PairsUnchanged
  <2> QED
    BY <1>4, <2>1, <2>2, <2>3, <2>4 DEF PairsAt
<1>9. CellsLeft' = CellsLeft /\ CellsHeld' = CellsHeld
  <2>1. CellsHeld' = CellsHeld
    BY DEF CellsHeld, TypeOK
  <2> QED
    BY <2>1, CellsLeftUnchanged
<1>10. LeftFor("NextPair")' = LeftFor("NextPair") \ {pq} /\ pq \in LeftFor("NextPair")
  BY <1>7, WorkByAction DEF LeftFor
<1>11. \A b \in Actions \ {"NextPair"} : LeftFor(b)' = LeftFor(b)
  BY <1>7, <1>8, <1>9 DEF LeftFor, Actions
<1> QED
  BY <1>10, <1>11, StruckOff DEF Actions

\* The four steps of a thread on its pair: it leaves the stage `from`, and its
\* pair is nowhere else.
LEMMA PairStepStrikesOff ==
    ASSUME IInv, NEW w \in Workers, pc[w] \in Active,
           pc' \in [Workers -> {"idle", "next", "addF", "adding", "subF", "subbing"}],
           \A v \in Workers : v # w => pc'[v] = pc[v],
           UNCHANGED <<cellOf, order, todo, cell, work, pair>>,
           <<pc[w], pc'[w]>> \in {<<"addF", "adding">>, <<"adding", "subF">>,
                                  <<"subF", "subbing">>, <<"subbing", "next">>}
    PROVE  \E e \in WorkLeft : WorkLeft' = WorkLeft \ {e}
<1> USE DEF IInv
<1>1. /\ pair[w] \in AllPairs
      /\ ~Waiting(pair[w])
      /\ \A v \in Workers : pc[v] \in Active /\ pair[v] = pair[w] => v = w
  BY HeldPair, PairState
<1>2. PairsLeft' = PairsLeft /\ pair[w] \notin PairsLeft
  <2>1. \A r \in AllPairs : Waiting(r)' <=> Waiting(r)
    BY DEF Waiting
  <2> QED
    BY <1>1, <2>1, PairsLeftUnchanged DEF PairsLeft
<1>3. CellsLeft' = CellsLeft /\ CellsHeld' = CellsHeld
  <2>1. \A v \in Workers : pc'[v] = "idle" <=> pc[v] = "idle"
    BY DEF Active
  <2>2. CellsHeld' = CellsHeld
    BY <2>1 DEF CellsHeld
  <2> QED
    BY <2>2, CellsLeftUnchanged
<1>4. ASSUME NEW stages \in SUBSET Active, pc[w] \in stages, pc'[w] \notin stages
      PROVE  /\ PairsAt(stages)' = PairsAt(stages) \ {pair[w]}
             /\ pair[w] \in PairsAt(stages)
  <2>1. AllPairs' = AllPairs
    BY PairsUnchanged
  <2>2. PairsAt(stages)' = {pq \in AllPairs : \E v \in Workers : pair[v] = pq /\ pc'[v] \in stages}
    BY <2>1 DEF PairsAt
  <2>3. \A v \in Workers : pc[v] \in stages /\ pair[v] = pair[w] => v = w
    BY <1>1
  <2> QED
    BY <1>1, <1>4, <2>2, <2>3 DEF PairsAt
<1>5. ASSUME NEW stages, pc[w] \in stages <=> pc'[w] \in stages
      PROVE  PairsAt(stages)' = PairsAt(stages)
  BY <1>5, PairsAtUnchanged
<1>6. ASSUME NEW a \in {"BeginAddF", "EndAddF", "BeginSubF", "EndSubF"}, NEW stages \in SUBSET Active,
             pc[w] \in stages, pc'[w] \notin stages,
             LeftFor(a) = PairsLeft \cup PairsAt(stages),
             LeftFor(a)' = PairsLeft' \cup PairsAt(stages)',
             \A b \in Actions \ {a} : LeftFor(b)' = LeftFor(b)
      PROVE  \E e \in WorkLeft : WorkLeft' = WorkLeft \ {e}
  <2>1. LeftFor(a)' = LeftFor(a) \ {pair[w]} /\ pair[w] \in LeftFor(a)
    BY <1>2, <1>4, <1>6
  <2> QED
    BY <1>6, <2>1, StruckOff DEF Actions
<1>7. CASE pc[w] = "addF" /\ pc'[w] = "adding"
  <2>1. /\ PairsAt({"addF", "adding"})' = PairsAt({"addF", "adding"})
        /\ PairsAt({"addF", "adding", "subF"})' = PairsAt({"addF", "adding", "subF"})
        /\ PairsAt(Active)' = PairsAt(Active)
    BY <1>5, <1>7 DEF Active
  <2>2. \A b \in Actions \ {"BeginAddF"} : LeftFor(b)' = LeftFor(b)
    BY <1>2, <1>3, <2>1 DEF LeftFor, Actions
  <2>3. /\ LeftFor("BeginAddF") = PairsLeft \cup PairsAt({"addF"})
        /\ LeftFor("BeginAddF")' = PairsLeft' \cup PairsAt({"addF"})'
    BY DEF LeftFor
  <2>4. {"addF"} \in SUBSET Active /\ pc[w] \in {"addF"} /\ pc'[w] \notin {"addF"}
    BY <1>7 DEF Active
  <2> QED
    BY <1>6, <2>2, <2>3, <2>4
<1>8. CASE pc[w] = "adding" /\ pc'[w] = "subF"
  <2>1. /\ PairsAt({"addF"})' = PairsAt({"addF"})
        /\ PairsAt({"addF", "adding", "subF"})' = PairsAt({"addF", "adding", "subF"})
        /\ PairsAt(Active)' = PairsAt(Active)
    BY <1>5, <1>8 DEF Active
  <2>2. \A b \in Actions \ {"EndAddF"} : LeftFor(b)' = LeftFor(b)
    BY <1>2, <1>3, <2>1 DEF LeftFor, Actions
  <2>3. /\ LeftFor("EndAddF") = PairsLeft \cup PairsAt({"addF", "adding"})
        /\ LeftFor("EndAddF")' = PairsLeft' \cup PairsAt({"addF", "adding"})'
    BY DEF LeftFor
  <2>4. /\ {"addF", "adding"} \in SUBSET Active
        /\ pc[w] \in {"addF", "adding"} /\ pc'[w] \notin {"addF", "adding"}
    BY <1>8 DEF Active
  <2> QED
    BY <1>6, <2>2, <2>3, <2>4
<1>9. CASE pc[w] = "subF" /\ pc'[w] = "subbing"
  <2>1. /\ PairsAt({"addF"})' = PairsAt({"addF"})
        /\ PairsAt({"addF", "adding"})' = PairsAt({"addF", "adding"})
        /\ PairsAt(Active)' = PairsAt(Active)
    BY <1>5, <1>9 DEF Active
  <2>2. \A b \in Actions \ {"BeginSubF"} : LeftFor(b)' = LeftFor(b)
    BY <1>2, <1>3, <2>1 DEF LeftFor, Actions
  <2>3. /\ LeftFor("BeginSubF") = PairsLeft \cup PairsAt({"addF", "adding", "subF"})
        /\ LeftFor("BeginSubF")' = PairsLeft' \cup PairsAt({"addF", "adding", "subF"})'
    BY DEF LeftFor
  <2>4. /\ {"addF", "adding", "subF"} \in SUBSET Active
        /\ pc[w] \in {"addF", "adding", "subF"} /\ pc'[w] \notin {"addF", "adding", "subF"}
    BY <1>9 DEF Active
  <2> QED
    BY <1>6, <2>2, <2>3, <2>4
<1>10. CASE pc[w] = "subbing" /\ pc'[w] = "next"
  <2>1. /\ PairsAt({"addF"})' = PairsAt({"addF"})
        /\ PairsAt({"addF", "adding"})' = PairsAt({"addF", "adding"})
        /\ PairsAt({"addF", "adding", "subF"})' = PairsAt({"addF", "adding", "subF"})
    BY <1>5, <1>10
  <2>2. \A b \in Actions \ {"EndSubF"} : LeftFor(b)' = LeftFor(b)
    BY <1>2, <1>3, <2>1 DEF LeftFor, Actions
  <2>3. /\ LeftFor("EndSubF") = PairsLeft \cup PairsAt(Active)
        /\ LeftFor("EndSubF")' = PairsLeft' \cup PairsAt(Active)'
    BY DEF LeftFor
  <2>4. Active \in SUBSET Active /\ pc[w] \in Active /\ pc'[w] \notin Active
    BY <1>10 DEF Active
  <2> QED
    BY <1>6, <2>2, <2>3, <2>4
<1> QED
  BY <1>7, <1>8, <1>9, <1>10

LEMMA FinishCellStrikesOff ==
    ASSUME IInv, NEW w \in Workers, FinishCell(w)
    PROVE  \E e \in WorkLeft : WorkLeft' = WorkLeft \ {e}
<1> USE DEF IInv, FinishCell
<1>1. cell[w] \in NonEmpty(order) \ todo /\ order < NumOrders
  BY DEF CellsHeldOnce
<1>2. CellsLeft' = CellsLeft /\ cell[w] \notin CellsLeft
  BY <1>1, TakenCell, CellsLeftUnchanged DEF CellsLeft
<1>3. CellsHeld' = CellsHeld \ {cell[w]} /\ cell[w] \in CellsHeld
  <2>1. \A v \in Workers : v # w => cell'[v] = cell[v] /\ pc'[v] = pc[v]
    BY DEF TypeOK
  <2>2. pc'[w] = "idle" /\ pc[w] = "next"
    BY DEF TypeOK
  <2>3. \A v \in Workers : v # w /\ pc[v] # "idle" => cell[v] # cell[w]
    BY DEF CellsHeldOnce
  <2> QED
    BY <2>1, <2>2, <2>3 DEF CellsHeld
<1>4. PairsLeft' = PairsLeft
  <2>1. \A r \in AllPairs : Waiting(r)' <=> Waiting(r)
    BY DEF Waiting
  <2> QED
    BY <2>1, PairsLeftUnchanged
<1>5. \A stages \in {{"addF"}, {"addF", "adding"}, {"addF", "adding", "subF"}, Active} :
          PairsAt(stages)' = PairsAt(stages)
  <2> SUFFICES ASSUME NEW stages \in {{"addF"}, {"addF", "adding"}, {"addF", "adding", "subF"}, Active}
               PROVE  PairsAt(stages)' = PairsAt(stages)
    OBVIOUS
  <2>1. "idle" \notin stages /\ "next" \notin stages
    BY DEF Active
  <2>2. pc'[w] = "idle" /\ pc[w] = "next"
    BY DEF TypeOK
  <2>3. \A v \in Workers : v # w => pc'[v] = pc[v]
    BY DEF TypeOK
  <2> QED
    BY <2>1, <2>2, <2>3, PairsAtUnchanged
<1>6. LeftFor("FinishCell")' = LeftFor("FinishCell") \ {cell[w]} /\ cell[w] \in LeftFor("FinishCell")
  BY <1>2, <1>3, WorkByAction DEF LeftFor
<1>7. \A b \in Actions \ {"FinishCell"} : LeftFor(b)' = LeftFor(b)
  BY <1>2, <1>4, <1>5 DEF LeftFor, Actions
<1> QED
  BY <1>6, <1>7, StruckOff DEF Actions

LEMMA NextOrderStrikesOff ==
    ASSUME IInv, NextOrder
    PROVE  \E e \in WorkLeft : WorkLeft' = WorkLeft \ {e}
<1> USE DEF IInv, NextOrder
<1>1. order \in Nat /\ order < NumOrders /\ NumOrders \in Nat
  BY NumOrdersPositive DEF TypeOK
<1>2. CellsLeft' = CellsLeft
  <2> DEFINE Later(o) == {c \in Cells : \E g \in o + 1 .. NumOrders - 1 : c \in NonEmpty(g)}
  <2>1. Later(order) = Later(order + 1) \cup
            IF order + 1 < NumOrders THEN NonEmpty(order + 1) ELSE {}
    BY <1>1 DEF NonEmpty, OrderCells
  <2>2. CellsLeft = Later(order)
    BY DEF CellsLeft
  <2>3. CellsLeft' = todo' \cup Later(order + 1)
    BY PairsUnchanged DEF CellsLeft
  <2> HIDE DEF Later
  <2> QED
    BY <2>1, <2>2, <2>3
<1>3. CellsHeld' = CellsHeld
  BY DEF CellsHeld
<1>4. PairsLeft' = PairsLeft
  <2>1. ASSUME NEW r \in AllPairs
        PROVE  Waiting(r)' <=> Waiting(r)
    <3> DEFINE c == cellOf[r[1]]
               Later(o) == \E g \in o + 1 .. NumOrders - 1 : c \in OrderCells(g)
    <3>1. r[1] \in References(c)
      BY DEF AllPairs, References
    <3>2. Later(order) <=>
            (order + 1 < NumOrders /\ c \in OrderCells(order + 1)) \/ Later(order + 1)
      BY <1>1
    <3>3. order + 1 < NumOrders =>
            (c \in NonEmpty(order + 1) <=> c \in OrderCells(order + 1))
      BY <3>1 DEF NonEmpty
    <3>4. c \in todo' <=> order + 1 < NumOrders /\ c \in OrderCells(order + 1)
      BY <3>3
    <3>5. Waiting(r) <=> Later(order) \/ \E w \in Workers : r \in work[w]
      BY DEF Waiting
    <3>6. Waiting(r)' <=> c \in todo' \/ Later(order + 1) \/ \E w \in Workers : r \in work[w]
      BY DEF Waiting
    <3> HIDE DEF c, Later
    <3> QED
      BY <3>2, <3>4, <3>5, <3>6
  <2> QED
    BY <2>1, PairsLeftUnchanged
<1>5. \A stages : PairsAt(stages)' = PairsAt(stages)
  BY PairsAtUnchanged
<1>6. /\ LeftFor("NextOrder")' = LeftFor("NextOrder") \ {order}
      /\ order \in LeftFor("NextOrder")
  <2>1. LeftFor("NextOrder")' = order + 1 .. NumOrders - 1
    BY DEF LeftFor, NumOrders
  <2>2. LeftFor("NextOrder") = order .. NumOrders - 1
    BY DEF LeftFor
  <2> QED
    BY <1>1, <2>1, <2>2
<1>7. \A b \in Actions \ {"NextOrder"} : LeftFor(b)' = LeftFor(b)
  BY <1>2, <1>3, <1>4, <1>5 DEF LeftFor, Actions
<1> QED
  BY <1>6, <1>7, StruckOff DEF Actions

\* Every step of the loop that changes anything is one entry of the list of
\* work, taken once and for good: no cell is taken or finished twice, no addF or
\* subF of a pair is entered or left twice, no order is started twice, and no
\* step makes new work.  So the loop cannot run on without coming closer to its
\* return.
THEOREM EveryStepIsWork == Spec => [][\E e \in WorkLeft : WorkLeft' = WorkLeft \ {e}]_vars
<1>1. ASSUME IInv, [Next]_vars
      PROVE  [\E e \in WorkLeft : WorkLeft' = WorkLeft \ {e}]_vars
  <2>1. ASSUME NEW w \in Workers, Step(w)
        PROVE  \E e \in WorkLeft : WorkLeft' = WorkLeft \ {e}
    <3>1. CASE BeginAddF(w)
      <4>1. pc'[w] = "adding" /\ UNCHANGED <<cellOf, order, todo, cell, work, pair>>
        BY <1>1, <3>1 DEF BeginAddF, Load, IInv, TypeOK
      <4>2. /\ \A v \in Workers : v # w => pc'[v] = pc[v]
            /\ pc' \in [Workers -> {"idle", "next", "addF", "adding", "subF", "subbing"}]
        BY <1>1, <3>1 DEF BeginAddF, IInv, TypeOK
      <4> QED
        BY <1>1, <3>1, <4>1, <4>2, PairStepStrikesOff DEF BeginAddF, Active
    <3>2. CASE EndAddF(w)
      <4>1. pc'[w] = "subF" /\ UNCHANGED <<cellOf, order, todo, cell, work, pair>>
        BY <1>1, <3>2 DEF EndAddF, Store, IInv, TypeOK
      <4>2. /\ \A v \in Workers : v # w => pc'[v] = pc[v]
            /\ pc' \in [Workers -> {"idle", "next", "addF", "adding", "subF", "subbing"}]
        BY <1>1, <3>2 DEF EndAddF, IInv, TypeOK
      <4> QED
        BY <1>1, <3>2, <4>1, <4>2, PairStepStrikesOff DEF EndAddF, Active
    <3>3. CASE BeginSubF(w)
      <4>1. pc'[w] = "subbing" /\ UNCHANGED <<cellOf, order, todo, cell, work, pair>>
        BY <1>1, <3>3 DEF BeginSubF, Load, IInv, TypeOK
      <4>2. /\ \A v \in Workers : v # w => pc'[v] = pc[v]
            /\ pc' \in [Workers -> {"idle", "next", "addF", "adding", "subF", "subbing"}]
        BY <1>1, <3>3 DEF BeginSubF, IInv, TypeOK
      <4> QED
        BY <1>1, <3>3, <4>1, <4>2, PairStepStrikesOff DEF BeginSubF, Active
    <3>4. CASE EndSubF(w)
      <4>1. pc'[w] = "next" /\ UNCHANGED <<cellOf, order, todo, cell, work, pair>>
        BY <1>1, <3>4 DEF EndSubF, Store, IInv, TypeOK
      <4>2. /\ \A v \in Workers : v # w => pc'[v] = pc[v]
            /\ pc' \in [Workers -> {"idle", "next", "addF", "adding", "subF", "subbing"}]
        BY <1>1, <3>4 DEF EndSubF, IInv, TypeOK
      <4> QED
        BY <1>1, <3>4, <4>1, <4>2, PairStepStrikesOff DEF EndSubF, Active
    <3> QED
      BY <1>1, <2>1, <3>1, <3>2, <3>3, <3>4, TakeCellStrikesOff, NextPairStrikesOff,
         FinishCellStrikesOff DEF Step
  <2>2. CASE NextOrder
    BY <1>1, <2>2, NextOrderStrikesOff
  <2> QED
    BY <1>1, <2>1, <2>2 DEF Next, Terminated
<1>2. IInv /\ [Next]_vars => [\E e \in WorkLeft : WorkLeft' = WorkLeft \ {e}]_vars
  BY <1>1
<1> QED
  BY <1>2, Invariance, PTL DEF Spec

\* The list at the start: every order, every cell that references a particle,
\* and the five steps of every pair.
THEOREM WorkAtStart ==
    Init => WorkLeft =
        ({"NextOrder"} \X (0 .. NumOrders - 1))
        \cup ({"TakeCell", "FinishCell"} \X {c \in Cells : References(c) # {}})
        \cup ({"NextPair", "BeginAddF", "EndAddF", "BeginSubF", "EndSubF"} \X AllPairs)
<1> SUFFICES ASSUME Init
             PROVE  WorkLeft =
                        ({"NextOrder"} \X (0 .. NumOrders - 1))
                        \cup ({"TakeCell", "FinishCell"} \X {c \in Cells : References(c) # {}})
                        \cup ({"NextPair", "BeginAddF", "EndAddF", "BeginSubF", "EndSubF"} \X AllPairs)
  OBVIOUS
<1>1. \A c \in Cells : \E g \in 0 .. NumOrders - 1 : c \in OrderCells(g)
  BY EveryCellInOneOrder, OrderOfInRange
<1> USE DEF Init
<1>2. NumOrders \in Nat \ {0}
  BY NumOrdersPositive
<1>3. CellsLeft = {c \in Cells : References(c) # {}}
  <2>1. \A g : NonEmpty(g) \subseteq {c \in Cells : References(c) # {}}
    BY DEF NonEmpty, OrderCells
  <2>2. ASSUME NEW c \in Cells, References(c) # {}
        PROVE  c \in CellsLeft
    <3>1. PICK g \in 0 .. NumOrders - 1 : c \in NonEmpty(g)
      BY <1>1, <2>2 DEF NonEmpty
    <3>2. g = 0 \/ g \in 0 + 1 .. NumOrders - 1
      BY <1>2
    <3> QED
      BY <3>1, <3>2 DEF CellsLeft
  <2> QED
    BY <2>1, <2>2 DEF CellsLeft
<1>4. CellsHeld = {}
  BY DEF CellsHeld
<1>5. PairsLeft = AllPairs
  <2>1. ASSUME NEW pq \in AllPairs
        PROVE  Waiting(pq)
    <3>1. cellOf[pq[1]] \in Cells /\ pq[1] \in References(cellOf[pq[1]])
      BY PlacementCells DEF AllPairs, References
    <3>2. PICK g \in 0 .. NumOrders - 1 : cellOf[pq[1]] \in OrderCells(g)
      BY <1>1, <3>1
    <3>3. g = 0 => cellOf[pq[1]] \in todo
      BY <3>1, <3>2 DEF NonEmpty
    <3>4. g # 0 => g \in order + 1 .. NumOrders - 1
      BY <1>2
    <3> QED
      BY <3>2, <3>3, <3>4 DEF Waiting
  <2> QED
    BY <2>1 DEF PairsLeft
<1>6. \A stages : PairsAt(stages) \subseteq AllPairs
  BY DEF PairsAt
<1>7. /\ LeftFor("NextOrder") = 0 .. NumOrders - 1
      /\ \A a \in {"TakeCell", "FinishCell"} : LeftFor(a) = {c \in Cells : References(c) # {}}
      /\ \A a \in {"NextPair", "BeginAddF", "EndAddF", "BeginSubF", "EndSubF"} : LeftFor(a) = AllPairs
  BY <1>3, <1>4, <1>5, <1>6 DEF LeftFor
<1> DEFINE big == {c \in Cells : References(c) # {}}
<1> HIDE DEF big, Init
<1>8. \A d : d \in WorkLeft <=> \E a \in Actions : \E x \in LeftFor(a) : d = <<a, x>>
  BY DEF WorkLeft
<1>9. \A a \in Actions :
         \/ a = "NextOrder" /\ LeftFor(a) = 0 .. NumOrders - 1
         \/ a \in {"TakeCell", "FinishCell"} /\ LeftFor(a) = big
         \/ /\ a \in {"NextPair", "BeginAddF", "EndAddF", "BeginSubF", "EndSubF"}
            /\ LeftFor(a) = AllPairs
  BY <1>7 DEF Actions, big
<1>10. WorkLeft = ({"NextOrder"} \X (0 .. NumOrders - 1))
        \cup ({"TakeCell", "FinishCell"} \X big)
        \cup ({"NextPair", "BeginAddF", "EndAddF", "BeginSubF", "EndSubF"} \X AllPairs)
  <2> DEFINE all == ({"NextOrder"} \X (0 .. NumOrders - 1))
        \cup ({"TakeCell", "FinishCell"} \X big)
        \cup ({"NextPair", "BeginAddF", "EndAddF", "BeginSubF", "EndSubF"} \X AllPairs)
  <2>1. ASSUME NEW d \in WorkLeft
        PROVE  d \in all
    <3>1. PICK a \in Actions : \E x \in LeftFor(a) : d = <<a, x>>
      BY <1>8
    <3>2. PICK x \in LeftFor(a) : d = <<a, x>>
      BY <3>1
    <3> QED
      BY <1>9, <3>1, <3>2
  <2>2. ASSUME NEW d \in all
        PROVE  d \in WorkLeft
    <3>1. d = <<d[1], d[2]>>
      OBVIOUS
    <3>2. d[1] \in Actions /\ d[2] \in LeftFor(d[1])
      BY <1>7 DEF Actions, big
    <3> QED
      BY <1>8, <3>1, <3>2
  <2> QED
    BY <2>1, <2>2
<1> QED
  BY <1>10 DEF big

LEMMA CellsFinite == IsFiniteSet(Cells)
<1> DEFINE X == -1 .. NX
           Y == -1 .. NY
           Z == -1 .. NZ
           pack == [c \in Cells |-> <<<<c[1], c[2]>>, c[3]>>]
<1>1. NX \in Int /\ NY \in Int /\ NZ \in Int
  BY DomainAssumption DEF DomainAssumption
<1>2. IsFiniteSet(X) /\ IsFiniteSet(Y) /\ IsFiniteSet(Z)
  BY <1>1, FS_Interval
<1>3. Cells = X \X Y \X Z
  BY DEF Cells
<1> HIDE DEF X, Y, Z
<1>4. IsFiniteSet(X \X Y)
  BY <1>2, FS_Product
<1>5. IsFiniteSet((X \X Y) \X Z)
  BY <1>2, <1>4, FS_Product
<1>6. pack \in [Cells -> (X \X Y) \X Z]
  BY <1>3
<1>7. \A c, d \in Cells : pack[c] = pack[d] => c = d
  BY <1>3
<1>8. pack \in Injection(Cells, (X \X Y) \X Z)
  BY <1>6, <1>7 DEF Injection, IsInjective
<1> QED
  BY <1>5, <1>8, FS_Injection

LEMMA WorkFinite == IInv => IsFiniteSet(WorkLeft)
<1> SUFFICES ASSUME IInv
             PROVE  IsFiniteSet(WorkLeft)
  OBVIOUS
<1> DEFINE Orders == order .. NumOrders - 1
           Pairings == Particles \X Particles
<1>1. IsFiniteSet(Pairings)
  <2>1. IsFiniteSet(Particles)
    BY PairwiseAssumption, FS_Interval DEF PairwiseAssumption, Particles
  <2> QED
    BY <2>1, FS_Product
<1>2. IsFiniteSet(Orders)
  BY NumOrdersPositive, FS_Interval DEF IInv, TypeOK
<1>3. IsFiniteSet(Actions)
  <2>1. \A s : IsFiniteSet({s})
    BY FS_Singleton
  <2>2. \A s, t, u : IsFiniteSet(({s} \cup {t}) \cup {u})
    BY <2>1, FS_Union
  <2>3. Actions = (({"NextOrder"} \cup {"TakeCell"}) \cup {"FinishCell"})
                    \cup (({"NextPair"} \cup {"BeginAddF"}) \cup {"EndAddF"})
                    \cup (({"BeginSubF"} \cup {"EndSubF"}) \cup {"EndSubF"})
    BY DEF Actions
  <2> QED
    BY <2>2, <2>3, FS_Union
<1>4. CellsLeft \subseteq Cells /\ CellsHeld \subseteq Cells
  <2>1. CellsLeft \subseteq Cells
    BY DEF CellsLeft, IInv, TypeOK
  <2>2. \A w \in Workers : pc[w] # "idle" => cell[w] \in Cells
    BY DEF IInv, CellsHeldOnce, NonEmpty, OrderCells
  <2> QED
    BY <2>1, <2>2 DEF CellsHeld
<1>5. PairsLeft \subseteq Pairings /\ \A stages : PairsAt(stages) \subseteq Pairings
  BY DEF PairsLeft, PairsAt, AllPairs
<1>6. \A a \in Actions : LeftFor(a) \subseteq (Orders \cup Cells) \cup Pairings
  BY <1>4, <1>5 DEF LeftFor, Actions
<1> HIDE DEF Orders, Pairings
<1>7. IsFiniteSet(Orders \cup Cells)
  BY <1>2, CellsFinite, FS_Union
<1>8. IsFiniteSet((Orders \cup Cells) \cup Pairings)
  BY <1>1, <1>7, FS_Union
<1>9. IsFiniteSet(Actions \X ((Orders \cup Cells) \cup Pairings))
  BY <1>3, <1>8, FS_Product
<1>10. WorkLeft \subseteq Actions \X ((Orders \cup Cells) \cup Pairings)
  BY <1>6 DEF WorkLeft
<1> QED
  BY <1>9, <1>10, FS_Subset

\* The loop returns exactly when the list is used up.
LEMMA ReturnedWhenDone == IInv => (Returned <=> WorkLeft = {})
<1> SUFFICES ASSUME IInv
             PROVE  Returned <=> WorkLeft = {}
  OBVIOUS
<1>1. order \in 0 .. NumOrders /\ NumOrders \in Nat
  BY NumOrdersPositive DEF IInv, TypeOK
<1>2. ASSUME ~Returned
      PROVE  WorkLeft # {}
  <2>1. order \in LeftFor("NextOrder")
    BY <1>1, <1>2 DEF LeftFor, Returned
  <2>2. "NextOrder" \in Actions
    BY DEF Actions
  <2>3. <<"NextOrder", order>> \in WorkLeft
    BY <2>1, <2>2 DEF WorkLeft
  <2> QED
    BY <2>3
<1>3. ASSUME Returned
      PROVE  WorkLeft = {}
  <2>1. todo = {} /\ \A w \in Workers : pc[w] = "idle" /\ work[w] = {}
    BY <1>1, <1>3 DEF IInv, CellsHeldOnce, Returned
  <2>2. order .. NumOrders - 1 = {} /\ order + 1 .. NumOrders - 1 = {}
    BY <1>1, <1>3 DEF Returned
  <2>3. CellsLeft = {} /\ CellsHeld = {} /\ PairsLeft = {}
    BY <2>1, <2>2 DEF CellsLeft, CellsHeld, PairsLeft, Waiting
  <2>4. /\ PairsAt({"addF"}) = {} /\ PairsAt({"addF", "adding"}) = {}
        /\ PairsAt({"addF", "adding", "subF"}) = {} /\ PairsAt(Active) = {}
    BY <2>1 DEF PairsAt, Active
  <2>5. \A a \in Actions : LeftFor(a) = {}
    BY <2>2, <2>3, <2>4 DEF LeftFor, Actions
  <2> QED
    BY <2>5 DEF WorkLeft
<1> QED
  BY <1>2, <1>3

\* The number of steps the loop still has to take.
StepsLeft == Cardinality(WorkLeft)

\* The loop has a variant: a natural number that every step lowers by one and
\* that is 0 exactly when the loop has returned.  So every run of the loop
\* returns after exactly as many steps as its list of work has entries at the
\* start, whatever the threads do, or it stops in between.
THEOREM StepsLeftCountDown ==
    Spec => /\ [](StepsLeft \in Nat /\ (Returned <=> StepsLeft = 0))
            /\ [][StepsLeft' = StepsLeft - 1]_vars
<1>1. IInv => StepsLeft \in Nat /\ (Returned <=> StepsLeft = 0)
  BY WorkFinite, ReturnedWhenDone, FS_CardinalityType, FS_EmptySet DEF StepsLeft
<1>2. IInv /\ [\E e \in WorkLeft : WorkLeft' = WorkLeft \ {e}]_vars
        => [StepsLeft' = StepsLeft - 1]_vars
  <2> SUFFICES ASSUME IInv, NEW e \in WorkLeft, WorkLeft' = WorkLeft \ {e}
               PROVE  StepsLeft' = StepsLeft - 1
    OBVIOUS
  <2>1. StepsLeft' = Cardinality(WorkLeft \ {e})
    BY DEF StepsLeft
  <2> QED
    BY <2>1, WorkFinite, FS_RemoveElement DEF StepsLeft
<1> QED
  BY <1>1, <1>2, Invariance, EveryStepIsWork, PTL

\* A thread that waits for a mutex waits for a thread that is between the load
\* and the store of that particle, and that one waits for nobody: there is no
\* cycle of threads that wait for each other, and no chain longer than one.
THEOREM HoldersDoNotWait ==
    Spec => [](\A w \in Workers : \A p \in WaitsFor(w) :
                 \E v \in Workers : /\ v # w
                                    /\ mutex_f[p] = v
                                    /\ p \in Updating(v)
                                    /\ WaitsFor(v) = {})
<1>1. IInv => \A w \in Workers : \A p \in WaitsFor(w) :
                 \E v \in Workers : /\ v # w
                                    /\ mutex_f[p] = v
                                    /\ p \in Updating(v)
                                    /\ WaitsFor(v) = {}
  <2> SUFFICES ASSUME IInv, NEW w \in Workers, NEW p \in WaitsFor(w)
               PROVE  \E v \in Workers : /\ v # w
                                         /\ mutex_f[p] = v
                                         /\ p \in Updating(v)
                                         /\ WaitsFor(v) = {}
    OBVIOUS
  <2>1. PARALLEL_V2 /\ p \in Particles /\ mutex_f[p] # NoWorker /\ pc[w] \in {"addF", "subF"}
    BY DEF WaitsFor
  <2>2. mutex_f[p] \in Workers
    BY <2>1 DEF IInv, TypeOK
  <2>3. p \in Updating(mutex_f[p])
    BY <2>1, <2>2 DEF IInv, MutexHeldInUpdate
  <2>4. pc[mutex_f[p]] \in {"adding", "subbing"}
    BY <2>3 DEF Updating
  <2>5. WaitsFor(mutex_f[p]) = {}
    BY <2>4 DEF WaitsFor
  <2>6. mutex_f[p] # w
    BY <2>1, <2>4
  <2> QED
    BY <2>2, <2>3, <2>5, <2>6
<1> QED
  BY <1>1, Invariance, PTL

\* Until it has returned the loop is never stuck: the team has met at the
\* barrier, or some thread has its next step before it and waits for no mutex.
THEOREM NeverStuck ==
    Spec => [](Returned \/ AtBarrier \/ \E w \in Workers : CanGoOn(w))
<1>1. IInv => Returned \/ AtBarrier \/ \E w \in Workers : CanGoOn(w)
  <2> SUFFICES ASSUME IInv, ~Returned, ~AtBarrier
               PROVE  \E w \in Workers : CanGoOn(w)
    OBVIOUS
  <2>1. order < NumOrders
    BY NumOrdersPositive DEF IInv, TypeOK, Returned
  <2>2. CASE \A w \in Workers : pc[w] = "idle"
    <3>1. todo # {}
      BY <2>1, <2>2 DEF AtBarrier
    <3>2. PICK w \in Workers : TRUE
      BY PairwiseAssumption DEF PairwiseAssumption
    <3>3. WaitsFor(w) = {}
      BY <2>2 DEF WaitsFor
    <3> QED
      BY <3>1, <3>3 DEF CanGoOn
  <2>3. CASE \E w \in Workers : pc[w] # "idle"
    <3>1. PICK w \in Workers : pc[w] # "idle"
      BY <2>3
    <3>2. CASE WaitsFor(w) = {}
      BY <3>1, <3>2 DEF CanGoOn
    <3>3. CASE WaitsFor(w) # {}
      <4>1. PICK p \in WaitsFor(w) : TRUE
        BY <3>3
      <4>2. mutex_f[p] \in Workers /\ p \in Updating(mutex_f[p])
        BY <4>1 DEF WaitsFor, IInv, TypeOK, MutexHeldInUpdate
      <4>3. pc[mutex_f[p]] \in {"adding", "subbing"}
        BY <4>2 DEF Updating
      <4>4. CanGoOn(mutex_f[p])
        BY <4>3 DEF CanGoOn, WaitsFor
      <4> QED
        BY <4>2, <4>4
    <3> QED
      BY <3>2, <3>3
  <2> QED
    BY <2>2, <2>3
<1> QED
  BY <1>1, Invariance, PTL

=============================================================================
