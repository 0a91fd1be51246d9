------------------------------ MODULE DirectSum ------------------------------
(***************************************************************************)
(* A simulation with a DirectSumContainer: the loop of runSimulation, the  *)
(* steps of VerletFunctor, and the three kinds of forces.                  *)
(*                                                                         *)
(* applyPairwiseForces of this container keeps the promise of              *)
(* ForceAccumulation without Newton's third law: `omp parallel for         *)
(* schedule(static)` gives every thread a chunk of the particles.  A       *)
(* thread sums up the forces of all partners of its next particle on its   *)
(* own and then adds the sum by `setF(getF() + total_force)`, a load and a *)
(* store without a lock.                                                   *)
(*                                                                         *)
(* A force and a velocity are the contributions in them, by source.  The   *)
(* unit of time is delta_t, and a velocity counts halves of a force.       *)
(***************************************************************************)
EXTENDS Integers, FiniteSets, Sequences

CONSTANTS
    NumParticles,      \* size of the vector `particles`
    NumWorkers,        \* number of OpenMP threads
    Locked,            \* the particles whose lock state is LOCKED
    Targets,           \* target_indices of the one targetted force
    WindowStart, WindowEnd, \* its start_time and end_time
    EndTime            \* end_time of the simulation

Particles == 1 .. NumParticles
Workers == 1 .. NumWorkers

\* A particle is the source of its pairwise forces; the simple force and the
\* targetted force are a source each.
Simple == 0
Targetted == NumParticles + 1
Sources == 0 .. NumParticles + 1

ASSUME DirectSumAssumption ==
    /\ NumParticles \in Nat
    /\ NumWorkers \in Nat \ {0}
    /\ Targets \in Seq(Particles)
    /\ WindowStart \in Int /\ WindowEnd \in Int /\ EndTime \in Nat

VARIABLES
    phase,      \* the next call of runSimulation or step
    iteration,  \* completed steps; simulated_time
    started,    \* the initial forces are there
    chunk,      \* the particles of a thread it has not processed
    pc,         \* what a thread does next
    it1,        \* the particle it processes
    total,      \* total_force, as the contributions in it
    reg,        \* the force getF has returned
    f, old_f,   \* f[p][s]: contributions of s in the force of p
    v           \* v[p][s]: halves of contributions in the velocity

threads == <<chunk, pc, it1, total, reg>>
vars == <<phase, iteration, started, threads, f, old_f, v>>

NoForce == [s \in Sources |-> 0]
Plus(force, other) == [s \in Sources |-> force[s] + other[s]]

\* A static schedule splits the range into consecutive parts, one per thread
\* and in the order of the threads.
Chunks ==
    {share \in [Workers -> SUBSET Particles] :
        /\ UNION {share[w] : w \in Workers} = Particles
        /\ \A a, b \in Workers : a < b => \A p \in share[a], q \in share[b] : p < q}

\* The simulation starts from scratch.
Init ==
    /\ phase = "simple"
    /\ iteration = 0
    /\ started = FALSE
    /\ chunk = [w \in Workers |-> {}]
    /\ pc = [w \in Workers |-> "done"]
    /\ it1 = [w \in Workers |-> 0]
    /\ total = [w \in Workers |-> NoForce]
    /\ reg = [w \in Workers |-> NoForce]
    /\ f = [p \in Particles |-> NoForce]
    /\ old_f = [p \in Particles |-> NoForce]
    /\ v = [p \in Particles |-> NoForce]

-----------------------------------------------------------------------------
(***************************************************************************)
(* applyPairwiseForces                                                     *)
(***************************************************************************)

\* Mutant: the particle is its own partner.
PartnersAndSelf(p) == {q \in Particles : ~(p \in Locked /\ q \in Locked)}

\* The partners of p: all others, unless both are locked.
Partners(p) == {q \in Particles \ {p} : ~(p \in Locked /\ q \in Locked)}

\* The outer loop goes on to the next particle of the chunk, and the inner loop
\* sums up its forces.  It reads positions, which nobody writes to meanwhile.
NextParticle(w) ==
    /\ pc[w] = "loop"
    /\ \E p \in chunk[w] :
         /\ \A q \in chunk[w] : p <= q
         /\ it1' = [it1 EXCEPT ![w] = p]
         /\ chunk' = [chunk EXCEPT ![w] = @ \ {p}]
         /\ total' = [total EXCEPT ![w] = [s \in Sources |-> IF s \in Partners(p) THEN 1 ELSE 0]]
    /\ pc' = [pc EXCEPT ![w] = "get"]
    /\ UNCHANGED <<phase, iteration, started, reg, f, old_f, v>>

GetF(w) ==
    /\ pc[w] = "get"
    /\ reg' = [reg EXCEPT ![w] = f[it1[w]]]
    /\ pc' = [pc EXCEPT ![w] = "set"]
    /\ UNCHANGED <<phase, iteration, started, chunk, it1, total, f, old_f, v>>

SetF(w) ==
    /\ pc[w] = "set"
    /\ f' = [f EXCEPT ![it1[w]] = Plus(reg[w], total[w])]
    /\ pc' = [pc EXCEPT ![w] = "loop"]
    /\ UNCHANGED <<phase, iteration, started, chunk, it1, total, reg, old_f, v>>

\* The barrier at the end of the parallel loop.
Barrier(w) ==
    /\ pc[w] = "loop"
    /\ chunk[w] = {}
    /\ pc' = [pc EXCEPT ![w] = "done"]
    /\ UNCHANGED <<phase, iteration, started, chunk, it1, total, reg, f, old_f, v>>

Step(w) == NextParticle(w) \/ GetF(w) \/ SetF(w) \/ Barrier(w)

-----------------------------------------------------------------------------
(***************************************************************************)
(* runSimulation and VerletFunctor::step                                   *)
(***************************************************************************)

\* A simple force does not act on locked particles.  The threads are started.
ApplySimpleForces ==
    /\ phase = "simple"
    /\ f' = [p \in Particles |-> IF p \in Locked THEN f[p] ELSE [f[p] EXCEPT ![Simple] = @ + 1]]
    /\ phase' = "pairwise"
    /\ chunk' \in Chunks
    /\ pc' = [w \in Workers |-> "loop"]
    /\ UNCHANGED <<iteration, started, it1, total, reg, old_f, v>>

InWindow(time) == WindowStart <= time /\ time <= WindowEnd

TimesTargetted(p) == Cardinality({k \in DOMAIN Targets : Targets[k] = p})

\* A targetted force acts on locked particles, too, and once for every time its
\* indices name one.  In step, the time is the one the step began with.
ApplyTargettedForces ==
    /\ phase = "pairwise"
    /\ \A w \in Workers : pc[w] = "done"
    /\ f' = IF InWindow(iteration)
            THEN [p \in Particles |-> [f[p] EXCEPT ![Targetted] = @ + TimesTargetted(p)]]
            ELSE f
    /\ phase' = IF started THEN "velocities" ELSE "loop"
    /\ started' = TRUE
    /\ UNCHANGED <<iteration, threads, old_f, v>>

\* Mutant: the forces are not reset.
MoveParticlesOnly ==
    /\ phase = "loop"
    /\ iteration < EndTime
    /\ old_f' = f
    /\ phase' = "simple"
    /\ UNCHANGED <<iteration, started, threads, f, v>>

\* Mutant: another step at the end time.
MoveParticlesAgain ==
    /\ phase = "loop"
    /\ iteration <= EndTime
    /\ old_f' = f
    /\ f' = [p \in Particles |-> NoForce]
    /\ phase' = "simple"
    /\ UNCHANGED <<iteration, started, threads, v>>

\* The first loop of step.  The positions it writes to are left out.
MoveParticles ==
    /\ phase = "loop"
    /\ iteration < EndTime
    /\ old_f' = f
    /\ f' = [p \in Particles |-> NoForce]
    /\ phase' = "simple"
    /\ UNCHANGED <<iteration, started, threads, v>>

\* The second loop of step, and the end of the loop of runSimulation.
UpdateVelocities ==
    /\ phase = "velocities"
    /\ v' = [p \in Particles |->
               IF p \in Locked THEN NoForce ELSE Plus(v[p], Plus(f[p], old_f[p]))]
    /\ iteration' = iteration + 1
    /\ phase' = "loop"
    /\ UNCHANGED <<started, threads, f, old_f>>

Main == ApplySimpleForces \/ ApplyTargettedForces \/ MoveParticles \/ UpdateVelocities

Terminated == phase = "loop" /\ iteration = EndTime /\ UNCHANGED vars

Next == (\E w \in Workers : Step(w)) \/ Main \/ Terminated

Spec == Init /\ [][Next]_vars

\* The threads of the team keep running; none waits for another one.
FairSpec == Spec /\ WF_vars(Main) /\ \A w \in Workers : WF_vars(Step(w))

-----------------------------------------------------------------------------
(***************************************************************************)
(* Properties                                                              *)
(***************************************************************************)

ForceTypes == [Particles -> [Sources -> Nat]]

TypeOK ==
    /\ phase \in {"simple", "pairwise", "velocities", "loop"}
    /\ iteration \in 0 .. EndTime
    /\ started \in BOOLEAN
    /\ chunk \in [Workers -> SUBSET Particles]
    /\ pc \in [Workers -> {"loop", "get", "set", "done"}]
    /\ it1 \in [Workers -> Particles \cup {0}]
    /\ total \in [Workers -> [Sources -> 0 .. 1]]
    /\ reg \in [Workers -> [Sources -> Nat]]
    /\ f \in ForceTypes /\ old_f \in ForceTypes /\ v \in ForceTypes

\* Who acts on whom, whatever the distance: this container has no cutoff.
Interacting ==
    {pq \in Particles \X Particles :
        pq[1] # pq[2] /\ ~(pq[1] \in Locked /\ pq[2] \in Locked)}

\* The static loop implements the same abstract accumulation as the linked
\* cells: every contribution once, none lost, and it returns with all of them.
ForceSum == INSTANCE ForceAccumulation WITH
    interacting <- Interacting,
    f <- [p \in Particles |-> [q \in Particles |-> f[p][q]]],
    returned <- phase \in {"velocities", "loop"}

AccumulatesOnce == ForceSum!Spec

\* What f holds of a source when `time` was passed to the targetted forces.
ForceAt(p, s, time) ==
    CASE s = Simple -> 1
      [] s = Targetted -> IF InWindow(time) THEN TimesTargetted(p) ELSE 0
      [] s \in Particles -> IF s \in Partners(p) THEN 1 ELSE 0

\* The forces at the times of the iterations so far: the initial ones, and those
\* of the steps, which the targetted force sees one step late.
ForceOf(p, s, n) == ForceAt(p, s, IF n = 0 THEN 0 ELSE n - 1)

HalvesUpTo(p, s) ==
    LET halves[n \in 0 .. EndTime] ==
          IF n = 0 THEN 0 ELSE halves[n - 1] + ForceOf(p, s, n - 1) + ForceOf(p, s, n)
    IN  halves

\* Between two steps a velocity holds half the force at the beginning and at the
\* end of every step so far, of every source, once; a locked particle has none,
\* though forces act on it.
VelocitiesSumUp ==
    phase = "loop" =>
        \A p \in Particles, s \in Sources :
            v[p][s] = IF p \in Locked THEN 0 ELSE HalvesUpTo(p, s)[iteration]

=============================================================================
