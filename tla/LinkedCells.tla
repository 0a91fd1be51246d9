----------------------------- MODULE LinkedCells -----------------------------
(***************************************************************************)
(* The particles of a LinkedCellsContainer and the references its cells    *)
(* keep into them, through the setup and the steps of VerletFunctor.       *)
(*                                                                         *)
(* A reference is a pointer into the buffer of the vector `particles`.     *)
(* Here it names the slot, and the capacity the vector had when it was     *)
(* taken: every reallocation changes the capacity, so a reference is       *)
(* dangling exactly when its buffer is not the current capacity.  A        *)
(* reference into the live buffer may still mean the wrong particle:       *)
(* `erase` moves the particles behind the erased one down by one slot.     *)
(*                                                                         *)
(* Positions are integers, velocities and forces are abstracted: in a step *)
(* each unlocked particle moves by any of Moves.  The pairwise force loop  *)
(* itself is the subject of PairwiseForces.                                *)
(***************************************************************************)
EXTENDS CellGrid, SequencesExt, FiniteSets

CONSTANTS
    DomainSize,        \* domain_size
    Cutoff,            \* cutoff_radius
    BoundaryChoices,   \* the boundary_types to start from: a condition per side
    Reach,             \* the largest distance with 2 * distance < 2^(1/6) * sigma
    StartPositions,    \* where particles may be added
    StartLocked,       \* the ids of the particles added as LOCKED
    Reserved,          \* the number of particles space is reserved for
    MaxParticles,      \* how many particles are added
    Moves              \* displacements of a particle in one step

BoundaryConditions == {"OUTFLOW", "REFLECTIVE", "PERIODIC"}

\* The number of cells on an axis.  floor(domain_size / cutoff_radius) is at
\* least 1 unless the domain is thinner than the cutoff radius.
domain_num_cells(a) ==
    LET fitting == DomainSize[a] \div Cutoff
    IN  IF fitting > 1 THEN fitting ELSE 1

ASSUME LinkedCellsAssumption ==
    /\ \A a \in Axes : DomainSize[a] \in Nat \ {0} /\ N[a] = domain_num_cells(a)
    /\ Cutoff \in Nat \ {0}
    /\ BoundaryChoices \subseteq [Sides -> BoundaryConditions]
    /\ Reach \in Nat
    /\ StartPositions \subseteq [Axes -> Int] /\ Moves \subseteq [Axes -> Int]
    /\ Reserved \in Nat /\ MaxParticles \in Nat

VARIABLES
    pc,         \* "setup", "moved", "prepared", "forces", "idle", or ended by an
                \* exception, "thrown", or by undefined behaviour
    particles,  \* the vector: [id, x, locked] per particle
    capacity,   \* its capacity
    refs,       \* the references of all cells, in the order they were added
    original,   \* original_particle_length while there are ghosts
    pushes,     \* the forces of reflective walls in the forces of the particles
    boundary_types

vars == <<pc, particles, capacity, refs, original, pushes, boundary_types>>

-----------------------------------------------------------------------------
(***************************************************************************)
(* Cells and references                                                    *)
(***************************************************************************)

NoCell == <<>>

\* floor(x / cell_size) with cell_size = domain_size / domain_num_cells.  A
\* position outside of the halo has no cell, and the code throws.
particlePosToCell(x) ==
    LET c == [a \in Axes |-> (x[a] * N[a]) \div DomainSize[a]]
    IN  IF cellCoordToCellIndex(c) = -1 THEN NoCell ELSE c

Fits(ps) == \A i \in DOMAIN ps : particlePosToCell(ps[i].x) # NoCell

Reference(cell, cap, i) == [cell |-> cell, buffer |-> cap, slot |-> i]

\* The references updateCellsParticleReferences builds for ps.
ReferencesTo(ps, cap) ==
    [i \in DOMAIN ps |-> Reference(particlePosToCell(ps[i].x), cap, i)]

\* left, right, bottom, top, back, front
SideOrder == << <<1, "low">>, <<1, "high">>, <<2, "low">>, <<2, "high">>,
                <<3, "low">>, <<3, "high">> >>

\* The references of a list of cells are visited cell by cell.
VisitedBefore(r, t) == Before(r.cell, t.cell) \/ (r.cell = t.cell /\ r.slot < t.slot)

\* The references rs[i] with i \in found, in the order of the visits.
Visits(rs, found) ==
    CHOOSE order \in Bijection(1 .. Cardinality(found), found) :
        \A k, l \in DOMAIN order : k < l => VisitedBefore(rs[order[k]], rs[order[l]])

\* The visits to the references found at each side with condition bc, in the
\* order of the sides.
VisitsAtSides(bc, rs, found) ==
    FlattenSeq([k \in DOMAIN SideOrder |->
        LET side == SideOrder[k]
            visits == IF boundary_types[side] = bc THEN Visits(rs, found[side]) ELSE <<>>
        IN  [m \in DOMAIN visits |-> [side |-> side, slot |-> rs[visits[m]].slot]]])

\* The visits to references in halo cells of the sides with condition bc, in
\* the order of the code.  A reference in an edge or a corner of the halo is
\* visited once for each of its sides.
Escaped(rs, bc) ==
    VisitsAtSides(bc, rs, [s \in Sides |-> {i \in DOMAIN rs : rs[i].cell \in HaloOf(s)}])

Shifted(x, offset) == [a \in Axes |-> x[a] + offset[a]]

-----------------------------------------------------------------------------
(***************************************************************************)
(* OutflowBoundaryType::pre and PeriodicBoundaryType::pre                  *)
(***************************************************************************)

\* particles.erase(begin + i).  For i behind the last particle the behaviour is
\* undefined; the libstdc++ build without assertions drops the last particle.
Erase(ps, i) == IF i <= Len(ps) THEN RemoveAt(ps, i) ELSE Front(ps)

\* Mutant: the particles behind PERIODIC sides are erased.
OutflowPrePeriodic(ps, rs) ==
    FoldLeft(LAMBDA acc, e : Erase(acc, e.slot), ps, Escaped(rs, "PERIODIC"))

OutflowPre(ps, rs) ==
    FoldLeft(LAMBDA acc, e : Erase(acc, e.slot), ps, Escaped(rs, "OUTFLOW"))

\* Some erase has an iterator that points to no particle.
ErasesPastEnd(ps, rs) ==
    LET escaped == Escaped(rs, "OUTFLOW")
    IN  \E k \in DOMAIN escaped : escaped[k].slot > Len(ps) - (k - 1)

\* Some erase is applied to the empty vector, which no build survives.
ErasesEmpty(ps, rs) == Len(Escaped(rs, "OUTFLOW")) > Len(ps)

\* Mutant: the particle moves one unit less than the domain size.
TeleportShort(s) == [a \in Axes |-> IF a # s[1] THEN 0
                                    ELSE IF s[2] = "low" THEN DomainSize[a] - 1
                                    ELSE 1 - DomainSize[a]]

Teleport(s) == [a \in Axes |-> IF a # s[1] THEN 0
                               ELSE IF s[2] = "low" THEN DomainSize[a] ELSE -DomainSize[a]]

\* A write through a reference to a slot behind the end changes no particle.
MoveSlot(ps, i, offset) ==
    IF i <= Len(ps) THEN [ps EXCEPT ![i].x = Shifted(@, offset)] ELSE ps

PeriodicPre(ps, rs) ==
    FoldLeft(LAMBDA acc, e : MoveSlot(acc, e.slot, Teleport(e.side)),
             ps, Escaped(rs, "PERIODIC"))

-----------------------------------------------------------------------------
(***************************************************************************)
(* PeriodicBoundaryType::applyBoundaryConditions                           *)
(***************************************************************************)

\* The offsets of the ghosts in units of the domain size: sides, edges with a
\* free z, y, x axis, corners.
GhostDirections ==
    << <<1, 0, 0>>, <<-1, 0, 0>>, <<0, 1, 0>>, <<0, -1, 0>>, <<0, 0, 1>>, <<0, 0, -1>>,
       <<1, 1, 0>>, <<1, -1, 0>>, <<-1, 1, 0>>, <<-1, -1, 0>>,
       <<1, 0, 1>>, <<1, 0, -1>>, <<-1, 0, 1>>, <<-1, 0, -1>>,
       <<0, 1, 1>>, <<0, 1, -1>>, <<0, -1, 1>>, <<0, -1, -1>>,
       <<1, 1, 1>>, <<1, 1, -1>>, <<1, -1, 1>>, <<1, -1, -1>>,
       <<-1, 1, 1>>, <<-1, 1, -1>>, <<-1, -1, 1>>, <<-1, -1, -1>> >>

\* Mutant: the ghosts of an edge or a corner need one PERIODIC side only.
IsPartlyPeriodic(d) ==
    \E a \in Axes : d[a] # 0 /\
        boundary_types[<<a, IF d[a] = 1 THEN "low" ELSE "high">>] = "PERIODIC"

\* The copies with offset +domain_size are those of the low side.
SideOf(a, sign) == <<a, IF sign = 1 THEN "low" ELSE "high">>

IsPeriodic(d) ==
    \A a \in Axes : d[a] # 0 => boundary_types[SideOf(a, d[a])] = "PERIODIC"

\* The domain cells whose particles are copied in direction d.
GhostSources ==
    [d \in Range(GhostDirections) |->
        {c \in Cells \ Halo :
            \A a \in Axes : /\ d[a] = 1 => c[a] = 0
                            /\ d[a] = -1 => c[a] = N[a] - 1}]

Offset(d) == [a \in Axes |-> d[a] * DomainSize[a]]

\* The locked copy of p in direction d.
Ghost(p, d) == [p EXCEPT !.x = Shifted(@, Offset(d)), !.locked = TRUE]

\* Mutant: the references are not rebuilt after a reallocation.
AddWithoutRebuild(st, p) ==
    LET grown == IF Len(st.particles) < st.capacity THEN st.capacity
                 ELSE IF st.capacity = 0 THEN 1 ELSE 2 * st.capacity
        longer == Append(st.particles, p)
    IN  [particles |-> longer,
         capacity  |-> grown,
         refs      |-> Append(st.refs,
                              Reference(particlePosToCell(p.x), grown, Len(longer)))]

\* addParticle on a container st, by value of its fields.  push_back doubles
\* the capacity of a full vector, and then all references are rebuilt.
Add(st, p) ==
    LET cell == particlePosToCell(p.x)
        grown == IF Len(st.particles) < st.capacity THEN st.capacity
                 ELSE IF st.capacity = 0 THEN 1 ELSE 2 * st.capacity
        longer == Append(st.particles, p)
    IN  [particles |-> longer,
         capacity  |-> grown,
         refs      |-> IF grown # st.capacity
                       THEN ReferencesTo(longer, grown)
                       ELSE Append(st.refs, Reference(cell, grown, Len(longer)))]

\* One locked copy per reference of the visited cells.  A reallocation rebuilds
\* the list that is being iterated over: it is refilled in place with the same
\* slots, none of which is a ghost's, and the iteration goes on unharmed.
AddGhosts(st, d) ==
    FoldLeft(LAMBDA acc, i : Add(acc, Ghost(acc.particles[st.refs[i].slot], d)), st,
             Visits(st.refs, {i \in DOMAIN st.refs : st.refs[i].cell \in GhostSources[d]}))

WithGhosts(st) ==
    FoldLeft(LAMBDA acc, d : IF IsPeriodic(d) THEN AddGhosts(acc, d) ELSE acc,
             st, GhostDirections)

-----------------------------------------------------------------------------
(***************************************************************************)
(* ReflectiveBoundaryType::applyBoundaryConditions                         *)
(***************************************************************************)

\* `distance` of a particle at x to the wall of side s.
WallDistance(x, s) == IF s[2] = "low" THEN x[s[1]] ELSE DomainSize[s[1]] - x[s[1]]

\* Mutant: the walls look for particles in the halo.
HaloCells(s) == HaloOf(s)

\* The cells whose particles a wall may push.
CellsAtWall(s) == BoundaryOf(s)

\* The forces that are added, wall by wall, to unlocked particles: that of a
\* ghost mirrored at the wall, if it is repulsive.
ReflectivePushes ==
    VisitsAtSides("REFLECTIVE", refs,
        [s \in Sides |-> {i \in DOMAIN refs :
            LET p == particles[refs[i].slot] IN
                refs[i].cell \in CellsAtWall(s) /\ ~p.locked /\ WallDistance(p.x, s) <= Reach}])

Container == [particles |-> particles, capacity |-> capacity, refs |-> refs]

Becomes(st) ==
    /\ particles' = st.particles
    /\ capacity' = st.capacity
    /\ refs' = st.refs

-----------------------------------------------------------------------------
(***************************************************************************)
(* Actions                                                                 *)
(***************************************************************************)

Init ==
    /\ pc = "setup"
    /\ particles = <<>>
    /\ capacity = 0
    /\ refs = <<>>
    /\ original = 0
    /\ pushes = <<>>
    /\ boundary_types \in BoundaryChoices

\* addParticle, called with the particles of the input; its new id is its rank.
AddParticle ==
    /\ pc = "setup"
    /\ Len(particles) < MaxParticles
    /\ \E x \in StartPositions :
         LET id == Len(particles) + 1
             p == [id |-> id, x |-> x, locked |-> id \in StartLocked]
         IN  IF particlePosToCell(x) = NoCell
             THEN pc' = "thrown" /\ UNCHANGED <<particles, capacity, refs>>
             ELSE Becomes(Add(Container, p)) /\ UNCHANGED pc
    /\ UNCHANGED <<original, pushes, boundary_types>>

\* reserve
Reserve ==
    /\ pc = "setup"
    /\ capacity < Reserved
    /\ capacity' = Reserved
    /\ refs' = ReferencesTo(particles, Reserved)
    /\ UNCHANGED <<pc, particles, original, pushes, boundary_types>>

\* The simulation starts with a force calculation, without a move before it.
StartSimulation ==
    /\ pc = "setup"
    /\ Len(particles) = MaxParticles
    /\ pc' = "moved"
    /\ UNCHANGED <<particles, capacity, refs, original, pushes, boundary_types>>

\* The position update of VerletFunctor::step.
UpdatePositions ==
    /\ pc = "idle"
    /\ \E move \in [DOMAIN particles -> Moves] :
         particles' = [i \in DOMAIN particles |->
             IF particles[i].locked THEN particles[i]
             ELSE [particles[i] EXCEPT !.x = Shifted(@, move[i])]]
    /\ pc' = "moved"
    /\ pushes' = <<>>
    /\ UNCHANGED <<capacity, refs, original, boundary_types>>

\* prepareForceCalculation: references, outflow, periodic, references.  The
\* second half uses references that no erase has updated.
PrepareForceCalculation ==
    /\ pc = "moved"
    /\ LET fresh == ReferencesTo(particles, capacity)
           prepared == PeriodicPre(OutflowPre(particles, fresh), fresh)
       IN  \/ /\ ~Fits(particles)
              /\ pc' = "thrown"
              /\ UNCHANGED <<particles, refs>>
           \/ /\ Fits(particles) /\ ErasesPastEnd(particles, fresh)
              /\ pc' = "undefined"
              /\ UNCHANGED <<particles, refs>>
           \/ /\ Fits(particles) /\ ~ErasesEmpty(particles, fresh)
              /\ particles' = prepared
              /\ pc' = IF Fits(prepared) THEN "prepared" ELSE "thrown"
              /\ refs' = IF Fits(prepared) THEN ReferencesTo(prepared, capacity) ELSE fresh
    /\ UNCHANGED <<capacity, original, pushes, boundary_types>>

\* applyPairwiseForces up to the loop: the walls push, the ghosts are added.
ApplyBoundaryConditions ==
    /\ pc = "prepared"
    /\ pushes' = ReflectivePushes
    /\ original' = Len(particles)
    /\ Becomes(WithGhosts(Container))
    /\ pc' = "forces"
    /\ UNCHANGED boundary_types

\* Mutant: one ghost is left.
RemoveGhostsButOne ==
    /\ pc = "forces"
    /\ particles' = SubSeq(particles, 1,
           IF Len(particles) > original THEN original + 1 ELSE original)
    /\ refs' = ReferencesTo(particles', capacity)
    /\ pc' = "idle"
    /\ original' = 0
    /\ UNCHANGED <<capacity, pushes, boundary_types>>

\* applyPairwiseForces after the loop: the ghosts are erased.
RemoveGhosts ==
    /\ pc = "forces"
    /\ particles' = SubSeq(particles, 1, original)
    /\ refs' = ReferencesTo(particles', capacity)
    /\ pc' = "idle"
    /\ original' = 0
    /\ UNCHANGED <<capacity, pushes, boundary_types>>

\* The exception is not caught, the process is gone.
Stopped == pc \in {"thrown", "undefined"} /\ UNCHANGED vars

Next ==
    \/ AddParticle
    \/ Reserve
    \/ StartSimulation
    \/ UpdatePositions
    \/ PrepareForceCalculation
    \/ ApplyBoundaryConditions
    \/ RemoveGhosts
    \/ Stopped

Spec == Init /\ [][Next]_vars

-----------------------------------------------------------------------------
(***************************************************************************)
(* Properties                                                              *)
(***************************************************************************)

\* Whenever forces may be computed or particles added, every cell references
\* the particles inside of it, each once, and no reference is dangling: not
\* after a push_back that reallocates while ghosts are added, and not after
\* the ghosts have been erased.
ReferencesExact ==
    pc \in {"setup", "prepared", "forces", "idle"} => refs = ReferencesTo(particles, capacity)

Ids == {particles[i].id : i \in DOMAIN particles}

\* Ghosts exist during the pairwise force loop only, and the LOCKED state of a
\* ghost never leaks to a particle of the simulation.
GhostsAreTemporary ==
    pc # "forces" =>
        /\ Cardinality(Ids) = Len(particles)
        /\ \A i \in DOMAIN particles :
             particles[i].locked <=> particles[i].id \in StartLocked

\* Without an OUTFLOW side no step of the simulation loses or gains a particle.
ClosedDomainConserves ==
    [][(pc # "setup" /\ \A s \in Sides : boundary_types[s] # "OUTFLOW") => Ids' = Ids]_vars

\* The sides of the domain a particle has left through.
ExitsOf(p) ==
    {s \in Sides : IF s[2] = "low" THEN p.x[s[1]] < 0 ELSE p.x[s[1]] >= DomainSize[s[1]]}

\* No particle is further out than the width of one cell.
NoneBehindHalo(ps) ==
    \A i \in DOMAIN ps, a \in Axes :
        N[a] * ps[i].x[a] \in -DomainSize[a] .. (N[a] + 1) * DomainSize[a] - 1

\* How often the particles have left through sides with condition bc.
Crossings(ps, bc) ==
    Cardinality({e \in (DOMAIN ps) \X Sides :
                    e[2] \in ExitsOf(ps[e[1]]) /\ boundary_types[e[2]] = bc})

LeftThrough(p, bc) == \E s \in ExitsOf(p) : boundary_types[s] = bc

\* The opposite side of the container, on every axis p has left through a
\* PERIODIC side of.
Opposite(p) ==
    [a \in Axes |->
        CASE <<a, "low">> \in ExitsOf(p) /\ boundary_types[<<a, "low">>] = "PERIODIC"
                -> p.x[a] + DomainSize[a]
          [] <<a, "high">> \in ExitsOf(p) /\ boundary_types[<<a, "high">>] = "PERIODIC"
                -> p.x[a] - DomainSize[a]
          [] OTHER -> p.x[a]]

\* The particles that have not left through an OUTFLOW side.
Staying(ps) ==
    FoldLeft(LAMBDA acc, p : IF LeftThrough(p, "OUTFLOW") THEN acc ELSE Append(acc, p),
             <<>>, ps)

\* The particles prepareForceCalculation should leave behind.
Prepared(ps) ==
    LET kept == Staying(ps)
    IN  [i \in DOMAIN kept |-> [kept[i] EXCEPT !.x = Opposite(kept[i])]]

\* As long as no erase invalidates a reference that is used later, preparing
\* removes what has left through an OUTFLOW side, moves what has left through
\* a PERIODIC side to the other end, on both axes in a corner, leaves the rest
\* alone, and throws only if a particle has jumped over the halo.
NoStaleReferenceUsed ==
    \/ Crossings(particles, "OUTFLOW") = 0
    \/ Crossings(particles, "OUTFLOW") = 1 /\ Crossings(particles, "PERIODIC") = 0

PreparesExactly ==
    [][(pc = "moved" /\ pc' # "moved") =>
        IF ~NoneBehindHalo(particles) THEN pc' = "thrown"
        ELSE NoStaleReferenceUsed => pc' = "prepared" /\ particles' = Prepared(particles)]_vars

\* The particles that act on particle i in the loop of applyPairwiseForces.
Distance2(x, y) == LET d(a) == x[a] - y[a] IN d(1) * d(1) + d(2) * d(2) + d(3) * d(3)

Partners(i) ==
    {j \in DOMAIN particles \ {i} :
        /\ ~(particles[i].locked /\ particles[j].locked)
        /\ \/ refs[j].cell = refs[i].cell
           \/ /\ refs[j].cell \in Neighbours(refs[i].cell)
              /\ Distance2(particles[i].x, particles[j].x) <= Cutoff * Cutoff}

\* The periodic images of a domain.  Two domain sizes away an image can be
\* within the cutoff radius only if the domain is thinner than the radius.
Images ==
    {d \in (-2 .. 2) \X (-2 .. 2) \X (-2 .. 2) :
        \A a \in Axes : d[a] # 0 =>
            boundary_types[<<a, IF d[a] > 0 THEN "low" ELSE "high">>] = "PERIODIC"}

\* The reference: q acts on p from its own place and from those of its images
\* that are within the cutoff radius (or in the cell of p, where the code does
\* not ask for the distance).
ImagesActingOn(i) ==
    LET real == 1 .. original
        p == particles[i]
        image(q, d) == Shifted(q.x, Offset(d))
        acts(q, d) == \/ Distance2(p.x, image(q, d)) <= Cutoff * Cutoff
                      \/ particlePosToCell(p.x) = particlePosToCell(image(q, d))
    IN  {<<particles[jd[1]].id, image(particles[jd[1]], jd[2])>> :
            jd \in {e \in real \X Images :
                       /\ e # <<i, <<0, 0, 0>>>>
                       /\ acts(particles[e[1]], e[2])}}

\* The particles whose distance to the wall is not more than the width of a cell.
InLayer(x, s) ==
    LET a == s[1]
    IN  IF s[2] = "low" THEN x[a] * N[a] < DomainSize[a]
        ELSE x[a] * N[a] >= (N[a] - 1) * DomainSize[a]

\* A wall pushes every unlocked particle within its reach, once, and nothing
\* else; in a corner both walls do, also if the particle has just come in through
\* a PERIODIC side.  The reach ends with the cells at the wall.  What is in the
\* halo is not pushed back, although ReflectiveBoundaryType.h says that the force
\* is added "to all particles that are in halo cells".
WallsPushOnce ==
    pc = "forces" =>
        /\ IsInjective(pushes)
        /\ Range(pushes) =
             {e \in [slot : 1 .. original, side : Sides] :
                LET p == particles[e.slot] IN
                    /\ boundary_types[e.side] = "REFLECTIVE"
                    /\ ~p.locked /\ ExitsOf(p) = {}
                    /\ InLayer(p.x, e.side) /\ WallDistance(p.x, e.side) <= Reach}

AllInside == \A i \in 1 .. original : ExitsOf(particles[i]) = {}

\* Every unlocked particle of the simulation feels every image within the
\* cutoff radius exactly once, across sides, edges and corners, although the
\* code only looks at adjacent cells and at copies of boundary cells.
ImagesActOnce ==
    (pc = "forces" /\ AllInside) =>
        \A i \in {j \in 1 .. original : ~particles[j].locked} :
            LET felt == [j \in Partners(i) |-> <<particles[j].id, particles[j].x>>]
            IN  IsInjective(felt) /\ Range(felt) = ImagesActingOn(i)

\* OutflowBoundaryType.h: "This method removes all particles from the container
\* that are in halo cells with the outflow boundary condition", and no others.
OutflowRemovesEscaped ==
    [][(pc = "moved" /\ pc' = "prepared") =>
        Ids' = {particles[i].id : i \in {j \in DOMAIN particles :
                                           ~LeftThrough(particles[j], "OUTFLOW")}}]_vars

=============================================================================
