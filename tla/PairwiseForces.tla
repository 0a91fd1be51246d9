--------------------------- MODULE PairwiseForces ---------------------------
(***************************************************************************)
(* The parallel loop of LinkedCellsContainer::applyPairwiseForces, between *)
(* the creation of the periodic ghosts and their removal.                  *)
(*                                                                         *)
(* The iteration orders are executed one after the other.  Inside one      *)
(* order the threads of `omp parallel for schedule(dynamic)` take the      *)
(* cells, and a barrier ends the order.  A thread that holds a cell        *)
(* updates both particles of every pair of the cell by `addF` and `subF`.  *)
(* Each of those is a load of the force, an addition and a store: two      *)
(* threads inside an update of one particle may lose a contribution.  With *)
(* PARALLEL_V2 each update holds the mutex of its particle.                *)
(*                                                                         *)
(* A thread takes its pairs in any order.  The code takes them in the      *)
(* order of the cell's references, one of the orders allowed here.         *)
(***************************************************************************)
EXTENDS CellGrid, FiniteSets

CONSTANTS
    NumParticles,  \* size of the vector `particles`, ghosts included
    Workers,       \* the OpenMP threads
    Placements,    \* the assignments of particles to cells to start from
    Locked,        \* the particles whose lock state is LOCKED
    Far            \* pairs {p, q} further apart than the cutoff radius

Particles == 1 .. NumParticles

NoCell == <<>>
NoWorker == "none"

ASSUME PairwiseAssumption ==
    /\ NumParticles \in Nat
    /\ Placements \subseteq [Particles -> Cells]
    /\ NoWorker \notin Workers
    /\ Workers # {}

VARIABLES
    cellOf,  \* the cell that references a particle
    order,   \* index of the current iteration order
    todo,    \* cells of the current order no thread has taken
    pc,      \* what a thread does next
    cell,    \* the cell a thread holds
    work,    \* the pairs of that cell it has not begun
    pair,    \* the pair whose force it is applying
    reg,     \* the force it has loaded
    f,       \* f[p][q]: contributions of q in the force of p
    mutex_f  \* owner of the mutex of a particle

vars == <<cellOf, order, todo, pc, cell, work, pair, reg, f, mutex_f>>

-----------------------------------------------------------------------------
(***************************************************************************)
(* The pairs of a cell                                                     *)
(***************************************************************************)

References(c) == {p \in Particles : cellOf[p] = c}

BothLocked(p, q) == p \in Locked /\ q \in Locked

\* Mutant: both (p, q) and (q, p) are pairs of a cell.
UnorderedInnerPairs(c) ==
    {pq \in References(c) \X References(c) :
        pq[1] # pq[2] /\ ~BothLocked(pq[1], pq[2])}

\* Two particles of one cell interact whatever their distance.
InnerPairs(c) ==
    {pq \in References(c) \X References(c) :
        pq[1] < pq[2] /\ ~BothLocked(pq[1], pq[2])}

NeighbourPairs(c) ==
    {pq \in References(c) \X Particles :
        /\ cellOf[pq[2]] \in Neighbours(c)
        /\ ~Before(c, cellOf[pq[2]])
        /\ ~BothLocked(pq[1], pq[2])
        /\ {pq[1], pq[2]} \notin Far}

Pairs(c) == InnerPairs(c) \cup NeighbourPairs(c)

\* Cells without particles are skipped as soon as they are taken.
NonEmpty(g) == {c \in OrderCells(g) : References(c) # {}}

NoForce == [q \in Particles |-> 0]
Plus(force, q) == [force EXCEPT ![q] = @ + 1]

-----------------------------------------------------------------------------
Init ==
    /\ cellOf \in Placements
    /\ order = 0
    /\ todo = NonEmpty(0)
    /\ pc = [w \in Workers |-> "idle"]
    /\ cell = [w \in Workers |-> NoCell]
    /\ work = [w \in Workers |-> {}]
    /\ pair = [w \in Workers |-> <<>>]
    /\ reg = [w \in Workers |-> NoForce]
    /\ f = [p \in Particles |-> NoForce]
    /\ mutex_f = [p \in Particles |-> NoWorker]

\* A free thread takes a cell of the current order.
TakeCell(w) ==
    /\ pc[w] = "idle"
    /\ \E c \in todo :
         /\ todo' = todo \ {c}
         /\ cell' = [cell EXCEPT ![w] = c]
         /\ work' = [work EXCEPT ![w] = Pairs(c)]
    /\ pc' = [pc EXCEPT ![w] = "next"]
    /\ UNCHANGED <<cellOf, order, pair, reg, f, mutex_f>>

\* It computes the force of one more pair.
NextPair(w) ==
    /\ pc[w] = "next"
    /\ \E pq \in work[w] :
         /\ pair' = [pair EXCEPT ![w] = pq]
         /\ work' = [work EXCEPT ![w] = @ \ {pq}]
    /\ pc' = [pc EXCEPT ![w] = "addF"]
    /\ UNCHANGED <<cellOf, order, todo, cell, reg, f, mutex_f>>

\* Mutant: addF and subF take no lock.
NoLock(w, p) == UNCHANGED mutex_f

\* lock_guard, with PARALLEL_V2 only.
Acquire(w, p) ==
    IF PARALLEL_V2
    THEN mutex_f[p] = NoWorker /\ mutex_f' = [mutex_f EXCEPT ![p] = w]
    ELSE UNCHANGED mutex_f

Release(w, p) ==
    IF PARALLEL_V2
    THEN mutex_f' = [mutex_f EXCEPT ![p] = NoWorker]
    ELSE UNCHANGED mutex_f

Load(w, p) ==
    /\ Acquire(w, p)
    /\ reg' = [reg EXCEPT ![w] = f[p]]
    /\ UNCHANGED <<cellOf, order, todo, cell, work, pair, f>>

Store(w, p, q) ==
    /\ f' = [f EXCEPT ![p] = Plus(reg[w], q)]
    /\ Release(w, p)
    /\ UNCHANGED <<cellOf, order, todo, cell, work, pair, reg>>

\* p->addF(total_force)
BeginAddF(w) ==
    /\ pc[w] = "addF"
    /\ Load(w, pair[w][1])
    /\ pc' = [pc EXCEPT ![w] = "adding"]

EndAddF(w) ==
    /\ pc[w] = "adding"
    /\ Store(w, pair[w][1], pair[w][2])
    /\ pc' = [pc EXCEPT ![w] = "subF"]

\* q->subF(total_force): q receives the opposite force, that of p on q.
BeginSubF(w) ==
    /\ pc[w] = "subF"
    /\ Load(w, pair[w][2])
    /\ pc' = [pc EXCEPT ![w] = "subbing"]

EndSubF(w) ==
    /\ pc[w] = "subbing"
    /\ Store(w, pair[w][2], pair[w][1])
    /\ pc' = [pc EXCEPT ![w] = "next"]

\* All pairs of the cell are done.
FinishCell(w) ==
    /\ pc[w] = "next"
    /\ work[w] = {}
    /\ cell' = [cell EXCEPT ![w] = NoCell]
    /\ pc' = [pc EXCEPT ![w] = "idle"]
    /\ UNCHANGED <<cellOf, order, todo, work, pair, reg, f, mutex_f>>

\* Mutant: the next order starts without the barrier (nowait).
NextOrderNoWait ==
    /\ order < NumOrders
    /\ todo = {}
    /\ order' = order + 1
    /\ todo' = IF order + 1 < NumOrders THEN NonEmpty(order + 1) ELSE {}
    /\ UNCHANGED <<cellOf, pc, cell, work, pair, reg, f, mutex_f>>

\* The implicit barrier of the parallel loop, and the next iteration order.
NextOrder ==
    /\ order < NumOrders
    /\ todo = {}
    /\ \A w \in Workers : pc[w] = "idle"
    /\ order' = order + 1
    /\ todo' = IF order + 1 < NumOrders THEN NonEmpty(order + 1) ELSE {}
    /\ UNCHANGED <<cellOf, pc, cell, work, pair, reg, f, mutex_f>>

Returned == order = NumOrders

\* The loop has ended.
Terminated == Returned /\ UNCHANGED vars

Step(w) ==
    \/ TakeCell(w)
    \/ NextPair(w)
    \/ BeginAddF(w)
    \/ EndAddF(w)
    \/ BeginSubF(w)
    \/ EndSubF(w)
    \/ FinishCell(w)

Next == (\E w \in Workers : Step(w)) \/ NextOrder \/ Terminated

Spec == Init /\ [][Next]_vars

\* Every thread of the team keeps running, and the loop over the orders goes
\* on once the team has met at the barrier.  A std::mutex is not fair, so a step
\* that waits for one has to be taken only if it stays possible.
Fairness == WF_vars(NextOrder) /\ \A w \in Workers : WF_vars(Step(w))

FairSpec == Spec /\ Fairness

-----------------------------------------------------------------------------
(***************************************************************************)
(* Properties                                                              *)
(***************************************************************************)

Forces == [Particles -> 0 .. 1]

\* The type invariant; the counters stay in 0 .. 1 because a pair is never
\* applied twice.
TypeOK ==
    /\ cellOf \in Placements
    /\ order \in 0 .. NumOrders
    /\ todo \subseteq Cells
    /\ pc \in [Workers -> {"idle", "next", "addF", "adding", "subF", "subbing"}]
    /\ cell \in [Workers -> Cells \cup {NoCell}]
    /\ work \in [Workers -> SUBSET (Particles \X Particles)]
    /\ pair \in [Workers -> (Particles \X Particles) \cup {<<>>}]
    /\ reg \in [Workers -> Forces]
    /\ f \in [Particles -> Forces]
    /\ mutex_f \in [Particles -> Workers \cup {NoWorker}]

\* The particle a thread is in the middle of updating, as a set.
Updating(w) ==
    {p \in Particles :
        \/ pc[w] = "adding" /\ p = pair[w][1]
        \/ pc[w] = "subbing" /\ p = pair[w][2]}

\* No two threads are ever inside an update of the force of one particle,
\* which addF and subF (Particle.h) need because they are not atomic.
NoDataRace ==
    \A v, w \in Workers : v # w => Updating(v) \cap Updating(w) = {}

\* "no two threads access the same particles at the same time"
\* (docs/Parallelization.md): without locks, the cells two threads hold, with
\* the neighbours they write to, have no cell in common.
DisjointFootprints ==
    ~PARALLEL_V2 =>
        \A v, w \in Workers :
            v # w /\ cell[v] # NoCell /\ cell[w] # NoCell
                => Footprint(cell[v]) \cap Footprint(cell[w]) = {}

\* The pairs that have to interact, without reference to how the loop finds
\* them: two particles of one cell, or of adjacent cells within the cutoff.
Adjacent(c, d) == \A a \in Axes : c[a] - d[a] \in -1 .. 1

Interacting ==
    {pq \in Particles \X Particles :
        /\ pq[1] # pq[2]
        /\ ~BothLocked(pq[1], pq[2])
        /\ Adjacent(cellOf[pq[1]], cellOf[pq[2]])
        /\ cellOf[pq[1]] = cellOf[pq[2]] \/ {pq[1], pq[2]} \notin Far}

\* The loop implements the abstract accumulation: every contribution arrives
\* exactly once, none is lost, and the loop ends with all of them there.
ForceSum == INSTANCE ForceAccumulation WITH
    interacting <- Interacting, f <- f, returned <- Returned

AccumulatesOnce == ForceSum!Spec

-----------------------------------------------------------------------------
(***************************************************************************)
(* The inductive invariant                                                 *)
(***************************************************************************)

\* The cells a thread may hold now have not been handed out to another one.
CellsHeldOnce ==
    /\ todo \subseteq IF order < NumOrders THEN NonEmpty(order) ELSE {}
    /\ \A w \in Workers :
         /\ pc[w] = "idle" => cell[w] = NoCell /\ work[w] = {}
         /\ pc[w] # "idle" =>
              /\ order < NumOrders
              /\ cell[w] \in NonEmpty(order) \ todo
              /\ work[w] \subseteq Pairs(cell[w])
         /\ pc[w] \notin {"idle", "next"} => pair[w] \in Pairs(cell[w]) \ work[w]
    /\ \A v, w \in Workers : v # w /\ pc[v] # "idle" /\ pc[w] # "idle" => cell[v] # cell[w]

\* A mutex is held exactly by the thread inside an update of its particle.
MutexHeldInUpdate ==
    PARALLEL_V2 =>
        \A w \in Workers, p \in Particles : mutex_f[p] = w <=> p \in Updating(w)

\* The force a thread has loaded is still the force of the particle.
LoadedIsCurrent ==
    \A w \in Workers : \A p \in Updating(w) : reg[w] = f[p]

\* The pairs of all cells; <<p, q>> belongs to the cell of p.
AllPairs == {pq \in Particles \X Particles : pq \in Pairs(cellOf[pq[1]])}

\* Its cell has not been taken, or the thread has not begun the pair.
Waiting(pq) ==
    \/ cellOf[pq[1]] \in todo
    \/ \E g \in order + 1 .. NumOrders - 1 : cellOf[pq[1]] \in OrderCells(g)
    \/ \E w \in Workers : pq \in work[w]

InAddF(pq) == \E w \in Workers : pair[w] = pq /\ pc[w] \in {"addF", "adding"}
InSubF(pq) == \E w \in Workers : pair[w] = pq /\ pc[w] \in {"subF", "subbing"}

\* What has been accumulated is what the positions of the threads say: nothing
\* for a waiting pair, both directions for a finished one, and nothing at all
\* between particles that do not form a pair.
AccountedFor(p, q) ==
    /\ <<p, q>> \in AllPairs =>
         /\ f[p][q] = IF Waiting(<<p, q>>) \/ InAddF(<<p, q>>) THEN 0 ELSE 1
         /\ f[q][p] = IF Waiting(<<p, q>>) \/ InAddF(<<p, q>>) \/ InSubF(<<p, q>>)
                      THEN 0 ELSE 1
    /\ <<p, q>> \notin AllPairs /\ <<q, p>> \notin AllPairs => f[p][q] = 0

Accounted == \A p, q \in Particles : AccountedFor(p, q)

IInv == TypeOK /\ CellsHeldOnce /\ MutexHeldInUpdate /\ LoadedIsCurrent /\ Accounted

=============================================================================
