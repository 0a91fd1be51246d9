--------------------------- MODULE DirectSumProofs ----------------------------
(***************************************************************************)
(* Proofs about DirectSum, for every number of particles, threads and      *)
(* steps: the types, that the parallel loop implements ForceAccumulation   *)
(* in every step of the simulation, and what the velocities sum up to.     *)
(*                                                                         *)
(* The first argument: no two threads ever have a particle in common,      *)
(* neither in their chunks nor at hand.  So what a thread has loaded is    *)
(* still there when it stores, and a particle has no pairwise force before *)
(* its turn and all of them afterwards.                                    *)
(*                                                                         *)
(* The second one says what the forces hold of every source in every phase *)
(* of a step, where the loop's part of it is the first argument, and       *)
(* follows the halves of them into the velocities.                         *)
(***************************************************************************)
EXTENDS DirectSum, FiniteSetTheorems, WellFoundedInduction, TLAPS

USE DirectSumAssumption

\* The particle a thread is at, as a set.
AtHand(w) == IF pc[w] \in {"get", "set"} THEN {it1[w]} ELSE {}
Holds(w) == chunk[w] \cup AtHand(w)

\* The particles that have no pairwise force yet.
Pending == UNION {Holds(w) : w \in Workers}

Full(p, q) == IF q \in Partners(p) THEN 1 ELSE 0

HeldOnce ==
    /\ \A w \in Workers : AtHand(w) \subseteq Particles /\ AtHand(w) \cap chunk[w] = {}
    /\ \A a, b \in Workers : a # b => Holds(a) \cap Holds(b) = {}
    /\ \A w \in Workers : pc[w] = "done" => chunk[w] = {}
    /\ phase # "pairwise" => \A w \in Workers : pc[w] = "done"

LoadedIsCurrent ==
    \A w \in Workers :
        /\ pc[w] \in {"get", "set"} =>
             total[w] = [s \in Sources |-> IF s \in Partners(it1[w]) THEN 1 ELSE 0]
        /\ pc[w] = "set" => reg[w] = f[it1[w]]

AllOrNothing ==
    \A p, q \in Particles :
        f[p][q] = IF phase = "simple" \/ (phase = "pairwise" /\ p \in Pending)
                  THEN 0 ELSE Full(p, q)

\* A step is only begun before the end time.
StepInTime ==
    /\ phase = "velocities" => started
    /\ started /\ phase # "loop" => iteration < EndTime

IInv == TypeOK /\ HeldOnce /\ LoadedIsCurrent /\ AllOrNothing /\ StepInTime

-----------------------------------------------------------------------------
(***************************************************************************)
(* Types                                                                   *)
(***************************************************************************)

LEMMA SourceKinds ==
    /\ Particles \subseteq Sources
    /\ Simple \in Sources \ Particles
    /\ Targetted \in Sources \ Particles
  BY DEF Particles, Sources, Simple, Targetted

LEMMA TimesTargettedType ==
    ASSUME NEW p
    PROVE  TimesTargetted(p) \in Nat
<1>1. Targets \in Seq(Particles) /\ Len(Targets) \in Nat /\ DOMAIN Targets = 1 .. Len(Targets)
  OBVIOUS
<1>2. IsFiniteSet(1 .. Len(Targets))
  BY <1>1, FS_Interval
<1>3. {k \in DOMAIN Targets : Targets[k] = p} \subseteq 1 .. Len(Targets)
  BY <1>1
<1> QED
  BY <1>2, <1>3, FS_Subset, FS_CardinalityType DEF TimesTargetted

LEMMA PlusType ==
    ASSUME NEW a \in [Sources -> Nat], NEW b \in [Sources -> Nat]
    PROVE  Plus(a, b) \in [Sources -> Nat]
  BY DEF Plus

LEMMA NoForceType == NoForce \in [Sources -> Nat]
  BY DEF NoForce

LEMMA InitInv == Init => IInv
<1> SUFFICES ASSUME Init
             PROVE  IInv
  OBVIOUS
<1>1. TypeOK
  <2>1. NoForce \in [Sources -> 0 .. 1]
    BY DEF NoForce
  <2>2. 0 \in 0 .. EndTime
    OBVIOUS
  <2>3. total \in [Workers -> [Sources -> 0 .. 1]] /\ reg \in [Workers -> [Sources -> Nat]]
    BY <2>1, NoForceType DEF Init
  <2>4. f \in ForceTypes /\ old_f \in ForceTypes /\ v \in ForceTypes
    BY NoForceType DEF Init, ForceTypes
  <2>5. /\ chunk \in [Workers -> SUBSET Particles]
        /\ pc \in [Workers -> {"loop", "get", "set", "done"}]
        /\ it1 \in [Workers -> Particles \cup {0}]
    BY DEF Init
  <2> QED
    BY <2>2, <2>3, <2>4, <2>5 DEF Init, TypeOK
<1>2. HeldOnce
  BY DEF Init, HeldOnce, Holds, AtHand
<1>3. LoadedIsCurrent
  BY DEF Init, LoadedIsCurrent
<1>4. AllOrNothing
  BY SourceKinds DEF Init, AllOrNothing, NoForce
<1>5. StepInTime
  BY DEF Init, StepInTime
<1> QED
  BY <1>1, <1>2, <1>3, <1>4, <1>5 DEF IInv

-----------------------------------------------------------------------------
(***************************************************************************)
(* The steps of the threads                                                *)
(***************************************************************************)

\* A thread that is not done works in the parallel loop.
LEMMA ThreadsInLoop ==
    ASSUME IInv, NEW w \in Workers, pc[w] # "done"
    PROVE  phase = "pairwise"
  BY DEF IInv, HeldOnce

\* A step of a thread that takes no other particle disturbs no other thread.
LEMMA HeldOnceStep ==
    ASSUME HeldOnce, NEW w \in Workers, phase' = "pairwise",
           \A u \in Workers \ {w} :
              /\ Holds(u)' = Holds(u) /\ AtHand(u)' = AtHand(u)
              /\ chunk'[u] = chunk[u] /\ pc'[u] = pc[u],
           Holds(w)' \subseteq Holds(w),
           AtHand(w)' \subseteq Particles, AtHand(w)' \cap chunk'[w] = {},
           pc'[w] = "done" => chunk'[w] = {}
    PROVE  HeldOnce'
<1>1. \A u \in Workers : AtHand(u)' \subseteq Particles /\ AtHand(u)' \cap chunk'[u] = {}
  BY DEF HeldOnce
<1>2. \A u \in Workers : Holds(u)' \subseteq Holds(u)
  OBVIOUS
<1>3. \A a, b \in Workers : a # b => Holds(a)' \cap Holds(b)' = {}
  BY <1>2 DEF HeldOnce
<1>4. \A u \in Workers : pc'[u] = "done" => chunk'[u] = {}
  BY DEF HeldOnce
<1> QED
  BY <1>1, <1>3, <1>4 DEF HeldOnce

LEMMA NextParticleInv ==
    ASSUME IInv, NEW w \in Workers, NextParticle(w)
    PROVE  IInv'
<1> USE DEF IInv
<1> PICK p \in chunk[w] :
        /\ it1' = [it1 EXCEPT ![w] = p]
        /\ chunk' = [chunk EXCEPT ![w] = @ \ {p}]
        /\ total' = [total EXCEPT ![w] = [s \in Sources |-> IF s \in Partners(p) THEN 1 ELSE 0]]
  BY DEF NextParticle
<1>1. /\ pc[w] = "loop" /\ pc' = [pc EXCEPT ![w] = "get"]
      /\ UNCHANGED <<phase, iteration, started, reg, f, old_f, v>>
      /\ p \in Particles /\ phase = "pairwise"
  BY ThreadsInLoop DEF NextParticle, TypeOK
<1>2. [s \in Sources |-> IF s \in Partners(p) THEN 1 ELSE 0] \in [Sources -> 0 .. 1]
  OBVIOUS
<1>3. TypeOK'
  BY <1>1, <1>2 DEF TypeOK
<1>4. /\ Holds(w)' = Holds(w) /\ AtHand(w)' = {p} /\ chunk'[w] = chunk[w] \ {p}
      /\ \A u \in Workers \ {w} :
            /\ Holds(u)' = Holds(u) /\ AtHand(u)' = AtHand(u)
            /\ chunk'[u] = chunk[u] /\ pc'[u] = pc[u]
  BY <1>1 DEF Holds, AtHand, TypeOK
<1>5. HeldOnce'
  BY <1>1, <1>4, HeldOnceStep DEF TypeOK
<1>6. LoadedIsCurrent'
  BY <1>1 DEF LoadedIsCurrent, TypeOK
<1>7. Pending' = Pending
  BY <1>4 DEF Pending
<1>8. AllOrNothing'
  BY <1>1, <1>7 DEF AllOrNothing, Full
<1>9. StepInTime'
  BY <1>1 DEF StepInTime
<1> QED
  BY <1>3, <1>5, <1>6, <1>8, <1>9

LEMMA GetFInv ==
    ASSUME IInv, NEW w \in Workers, GetF(w)
    PROVE  IInv'
<1> USE DEF IInv
<1>1. /\ pc[w] = "get" /\ pc' = [pc EXCEPT ![w] = "set"]
      /\ reg' = [reg EXCEPT ![w] = f[it1[w]]]
      /\ UNCHANGED <<phase, iteration, started, chunk, it1, total, f, old_f, v>>
  BY DEF GetF
<1>2. it1[w] \in Particles
  BY <1>1 DEF HeldOnce, AtHand
<1>3. f[it1[w]] \in [Sources -> Nat]
  BY <1>2 DEF TypeOK, ForceTypes
<1>4. TypeOK'
  BY <1>1, <1>3 DEF TypeOK
<1>5. \A u \in Workers : Holds(u)' = Holds(u) /\ AtHand(u)' = AtHand(u) /\ chunk'[u] = chunk[u]
  BY <1>1 DEF Holds, AtHand, TypeOK
<1>6. HeldOnce'
  BY <1>1, <1>5, ThreadsInLoop DEF HeldOnce, TypeOK
<1>7. LoadedIsCurrent'
  BY <1>1 DEF LoadedIsCurrent, TypeOK
<1>8. Pending' = Pending
  BY <1>5 DEF Pending
<1>9. AllOrNothing'
  BY <1>1, <1>8 DEF AllOrNothing, Full
<1>10. StepInTime'
  BY <1>1 DEF StepInTime
<1> QED
  BY <1>4, <1>6, <1>7, <1>9, <1>10

\* A store turns a particle that has no pairwise force into one that has all.
LEMMA StoreCompletes ==
    ASSUME IInv, NEW w \in Workers, SetF(w)
    PROVE  /\ phase = "pairwise" /\ it1[w] \in Particles /\ it1[w] \in Pending
           /\ f' = [f EXCEPT ![it1[w]] = Plus(f[it1[w]], total[w])]
           /\ Plus(f[it1[w]], total[w]) \in [Sources -> Nat]
           /\ \A q \in Particles : Plus(f[it1[w]], total[w])[q] = Full(it1[w], q)
           /\ Pending' = Pending \ {it1[w]}
<1> USE DEF IInv
<1> DEFINE p == it1[w]
<1>1. pc[w] = "set" /\ f' = [f EXCEPT ![p] = Plus(reg[w], total[w])]
  BY DEF SetF
<1>2. phase = "pairwise"
  BY <1>1, ThreadsInLoop
<1>3. p \in Particles /\ AtHand(w) = {p} /\ p \in Pending
  BY <1>1 DEF HeldOnce, AtHand, Pending, Holds
<1>4. reg[w] = f[p] /\ total[w] = [s \in Sources |-> IF s \in Partners(p) THEN 1 ELSE 0]
  BY <1>1 DEF LoadedIsCurrent
<1>5. f[p] \in [Sources -> Nat] /\ total[w] \in [Sources -> Nat]
  BY <1>3, <1>4 DEF TypeOK, ForceTypes
<1>6. \A q \in Particles : f[p][q] = 0
  BY <1>2, <1>3 DEF AllOrNothing
<1>7. \A q \in Particles : Plus(f[p], total[w])[q] = Full(p, q)
  BY <1>4, <1>6, SourceKinds DEF Plus, Full
<1>8. /\ Holds(w)' = Holds(w) \ {p}
      /\ \A u \in Workers \ {w} : Holds(u)' = Holds(u)
  BY <1>1, <1>3 DEF SetF, Holds, AtHand, TypeOK, HeldOnce
<1>9. \A u \in Workers \ {w} : p \notin Holds(u)
  BY <1>3 DEF HeldOnce, Holds
<1>10. Pending' = Pending \ {p}
  BY <1>8, <1>9 DEF Pending
<1> QED
  BY <1>1, <1>2, <1>3, <1>4, <1>5, <1>7, <1>10, PlusType

LEMMA SetFInv ==
    ASSUME IInv, NEW w \in Workers, SetF(w)
    PROVE  IInv'
<1> USE DEF IInv
<1> DEFINE p == it1[w]
           sum == Plus(f[p], total[w])
<1>1. /\ pc[w] = "set" /\ pc' = [pc EXCEPT ![w] = "loop"]
      /\ UNCHANGED <<phase, iteration, started, chunk, it1, total, reg, old_f, v>>
  BY DEF SetF
<1>2. /\ phase = "pairwise" /\ p \in Particles
      /\ f' = [f EXCEPT ![p] = sum] /\ sum \in [Sources -> Nat]
      /\ \A q \in Particles : sum[q] = Full(p, q)
      /\ Pending' = Pending \ {p}
  BY StoreCompletes
<1> HIDE DEF sum
<1>3. TypeOK'
  BY <1>1, <1>2 DEF TypeOK, ForceTypes
<1>4. /\ AtHand(w)' = {} /\ Holds(w)' \subseteq Holds(w)
      /\ \A u \in Workers \ {w} :
            /\ Holds(u)' = Holds(u) /\ AtHand(u)' = AtHand(u)
            /\ chunk'[u] = chunk[u] /\ pc'[u] = pc[u]
  BY <1>1 DEF Holds, AtHand, TypeOK
<1>5. HeldOnce'
  BY <1>1, <1>2, <1>4, HeldOnceStep DEF TypeOK
<1>6. \A u \in Workers \ {w} : pc[u] = "set" => it1[u] # p
  BY <1>1 DEF HeldOnce, Holds, AtHand
<1>7. LoadedIsCurrent'
  BY <1>1, <1>2, <1>6 DEF LoadedIsCurrent, TypeOK, ForceTypes
<1>8. AllOrNothing'
  <2> SUFFICES ASSUME NEW r \in Particles, NEW q \in Particles
               PROVE  f'[r][q] = IF r \in Pending' THEN 0 ELSE Full(r, q)
    BY <1>1, <1>2 DEF AllOrNothing, Full
  <2>1. CASE r = p
    BY <1>2, <2>1 DEF TypeOK, ForceTypes
  <2>2. CASE r # p
    <3>1. f'[r] = f[r] /\ (r \in Pending' <=> r \in Pending)
      BY <1>2, <2>2 DEF TypeOK, ForceTypes
    <3> QED
      BY <1>2, <3>1 DEF AllOrNothing
  <2> QED
    BY <2>1, <2>2
<1>9. StepInTime'
  BY <1>1 DEF StepInTime
<1> QED
  BY <1>3, <1>5, <1>7, <1>8, <1>9

LEMMA BarrierInv ==
    ASSUME IInv, NEW w \in Workers, Barrier(w)
    PROVE  IInv'
<1> USE DEF IInv
<1>1. /\ pc[w] = "loop" /\ chunk[w] = {} /\ pc' = [pc EXCEPT ![w] = "done"]
      /\ UNCHANGED <<phase, iteration, started, chunk, it1, total, reg, f, old_f, v>>
  BY DEF Barrier
<1>2. TypeOK'
  BY <1>1 DEF TypeOK
<1>3. \A u \in Workers : Holds(u)' = Holds(u) /\ AtHand(u)' = AtHand(u) /\ chunk'[u] = chunk[u]
  BY <1>1 DEF Holds, AtHand, TypeOK
<1>4. HeldOnce'
  BY <1>1, <1>3, ThreadsInLoop DEF HeldOnce, TypeOK
<1>5. LoadedIsCurrent'
  BY <1>1 DEF LoadedIsCurrent, TypeOK
<1>6. Pending' = Pending
  BY <1>3 DEF Pending
<1>7. AllOrNothing'
  BY <1>1, <1>6 DEF AllOrNothing, Full
<1>8. StepInTime'
  BY <1>1 DEF StepInTime
<1> QED
  BY <1>2, <1>4, <1>5, <1>7, <1>8

-----------------------------------------------------------------------------
(***************************************************************************)
(* The steps of the main thread                                            *)
(***************************************************************************)

\* A static schedule gives a particle to one thread.
LEMMA ChunksDisjoint ==
    ASSUME NEW share \in Chunks, NEW a \in Workers, NEW b \in Workers, a # b
    PROVE  share[a] \cap share[b] = {}
<1>1. a < b \/ b < a
  BY DEF Workers
<1>2. \A p \in Particles : ~(p < p)
  BY DEF Particles
<1> QED
  BY <1>1, <1>2 DEF Chunks

LEMMA ApplySimpleForcesInv == IInv /\ ApplySimpleForces => IInv'
<1> SUFFICES ASSUME IInv, ApplySimpleForces
             PROVE  IInv'
  OBVIOUS
<1> USE DEF IInv
<1>1. /\ phase = "simple" /\ phase' = "pairwise"
      /\ chunk' \in Chunks /\ pc' = [w \in Workers |-> "loop"]
      /\ UNCHANGED <<iteration, started, it1, total, reg, old_f, v>>
  BY DEF ApplySimpleForces
<1>2. f' = [p \in Particles |->
              IF p \in Locked THEN f[p] ELSE [f[p] EXCEPT ![Simple] = @ + 1]]
  BY DEF ApplySimpleForces
<1>3. f' \in ForceTypes /\ \A p, q \in Particles : f'[p][q] = f[p][q]
  <2> SUFFICES ASSUME NEW p \in Particles
               PROVE  f'[p] \in [Sources -> Nat] /\ \A q \in Particles : f'[p][q] = f[p][q]
    BY <1>2 DEF ForceTypes
  <2>1. f[p] \in [Sources -> Nat]
    BY DEF TypeOK, ForceTypes
  <2>2. [f[p] EXCEPT ![Simple] = @ + 1] \in [Sources -> Nat]
    BY <2>1, SourceKinds
  <2>3. \A q \in Particles : [f[p] EXCEPT ![Simple] = @ + 1][q] = f[p][q]
    BY <2>1, SourceKinds
  <2> QED
    BY <1>2, <2>1, <2>2, <2>3
<1>4. TypeOK'
  BY <1>1, <1>3 DEF TypeOK, Chunks
<1>5. \A w \in Workers : AtHand(w)' = {} /\ Holds(w)' = chunk'[w]
  BY <1>1 DEF AtHand, Holds
<1>6. HeldOnce'
  BY <1>1, <1>5, ChunksDisjoint DEF HeldOnce
<1>7. LoadedIsCurrent'
  BY <1>1 DEF LoadedIsCurrent
<1>8. Particles \subseteq Pending'
  BY <1>1, <1>5 DEF Pending, Chunks
<1>9. AllOrNothing'
  BY <1>1, <1>3, <1>8 DEF AllOrNothing
<1>10. StepInTime'
  BY <1>1 DEF StepInTime
<1> QED
  BY <1>4, <1>6, <1>7, <1>9, <1>10

\* When all threads are done, nothing is pending.
LEMMA NothingPending ==
    ASSUME IInv, \A w \in Workers : pc[w] = "done"
    PROVE  Pending = {}
  BY DEF IInv, HeldOnce, Pending, Holds, AtHand

LEMMA ApplyTargettedForcesInv == IInv /\ ApplyTargettedForces => IInv'
<1> SUFFICES ASSUME IInv, ApplyTargettedForces
             PROVE  IInv'
  OBVIOUS
<1> USE DEF IInv
<1>1. /\ phase = "pairwise" /\ phase' \in {"velocities", "loop"} /\ started' = TRUE
      /\ phase' # "loop" => started
      /\ \A w \in Workers : pc[w] = "done"
      /\ UNCHANGED <<iteration, chunk, pc, it1, total, reg, old_f, v>>
  BY DEF ApplyTargettedForces, threads
<1>2. f' = IF InWindow(iteration)
           THEN [p \in Particles |-> [f[p] EXCEPT ![Targetted] = @ + TimesTargetted(p)]]
           ELSE f
  BY DEF ApplyTargettedForces
<1>3. f' \in ForceTypes /\ \A p, q \in Particles : f'[p][q] = f[p][q]
  <2>1. CASE ~InWindow(iteration)
    BY <1>2, <2>1 DEF TypeOK
  <2>2. CASE InWindow(iteration)
    <3> SUFFICES ASSUME NEW p \in Particles
                 PROVE  f'[p] \in [Sources -> Nat] /\ \A q \in Particles : f'[p][q] = f[p][q]
      BY <1>2, <2>2 DEF ForceTypes
    <3>1. f[p] \in [Sources -> Nat]
      BY DEF TypeOK, ForceTypes
    <3>2. f'[p] = [f[p] EXCEPT ![Targetted] = f[p][Targetted] + TimesTargetted(p)]
      BY <1>2, <2>2
    <3> QED
      BY <3>1, <3>2, TimesTargettedType, SourceKinds
  <2> QED
    BY <2>1, <2>2
<1>4. TypeOK'
  BY <1>1, <1>3 DEF TypeOK
<1>5. HeldOnce'
  BY <1>1 DEF HeldOnce, Holds, AtHand
<1>6. LoadedIsCurrent'
  BY <1>1 DEF LoadedIsCurrent
<1>7. AllOrNothing'
  BY <1>1, <1>3, NothingPending DEF AllOrNothing, Full
<1>8. StepInTime'
  BY <1>1 DEF StepInTime
<1> QED
  BY <1>4, <1>5, <1>6, <1>7, <1>8

LEMMA MoveParticlesInv == IInv /\ MoveParticles => IInv'
<1> SUFFICES ASSUME IInv, MoveParticles
             PROVE  IInv'
  OBVIOUS
<1> USE DEF IInv
<1>1. /\ phase = "loop" /\ phase' = "simple" /\ iteration < EndTime
      /\ old_f' = f /\ f' = [p \in Particles |-> NoForce]
      /\ UNCHANGED <<iteration, started, chunk, pc, it1, total, reg, v>>
  BY DEF MoveParticles, threads
<1>2. TypeOK'
  BY <1>1, NoForceType DEF TypeOK, ForceTypes
<1>3. HeldOnce'
  BY <1>1 DEF HeldOnce, Holds, AtHand
<1>4. LoadedIsCurrent'
  BY <1>1 DEF LoadedIsCurrent, HeldOnce
<1>5. AllOrNothing'
  BY <1>1, SourceKinds DEF AllOrNothing, NoForce
<1>6. StepInTime'
  BY <1>1 DEF StepInTime
<1> QED
  BY <1>2, <1>3, <1>4, <1>5, <1>6

LEMMA UpdateVelocitiesInv == IInv /\ UpdateVelocities => IInv'
<1> SUFFICES ASSUME IInv, UpdateVelocities
             PROVE  IInv'
  OBVIOUS
<1> USE DEF IInv
<1>1. /\ phase = "velocities" /\ phase' = "loop" /\ iteration' = iteration + 1
      /\ UNCHANGED <<started, chunk, pc, it1, total, reg, f, old_f>>
  BY DEF UpdateVelocities, threads
<1>2. v' = [p \in Particles |->
              IF p \in Locked THEN NoForce ELSE Plus(v[p], Plus(f[p], old_f[p]))]
  BY DEF UpdateVelocities
<1>3. v' \in ForceTypes
  <2> SUFFICES ASSUME NEW p \in Particles
               PROVE  v'[p] \in [Sources -> Nat]
    BY <1>2 DEF ForceTypes
  <2>1. v[p] \in [Sources -> Nat] /\ f[p] \in [Sources -> Nat] /\ old_f[p] \in [Sources -> Nat]
    BY DEF TypeOK, ForceTypes
  <2>2. Plus(v[p], Plus(f[p], old_f[p])) \in [Sources -> Nat]
    BY <2>1, PlusType
  <2> QED
    BY <1>2, <2>2, NoForceType
<1>4. iteration \in 0 .. EndTime /\ iteration < EndTime
  BY <1>1 DEF TypeOK, StepInTime
<1>5. iteration' \in 0 .. EndTime
  BY <1>1, <1>4
<1>6. TypeOK'
  BY <1>1, <1>3, <1>5 DEF TypeOK
<1>7. HeldOnce' /\ LoadedIsCurrent'
  BY <1>1 DEF HeldOnce, LoadedIsCurrent, Holds, AtHand
<1>8. AllOrNothing' /\ StepInTime'
  BY <1>1 DEF AllOrNothing, StepInTime, Full
<1> QED
  BY <1>6, <1>7, <1>8

LEMMA NextInv == IInv /\ [Next]_vars => IInv'
<1> SUFFICES ASSUME IInv, [Next]_vars
             PROVE  IInv'
  OBVIOUS
<1>1. CASE \E w \in Workers : Step(w)
  BY <1>1, NextParticleInv, GetFInv, SetFInv, BarrierInv DEF Step
<1>2. CASE Main
  BY <1>2, ApplySimpleForcesInv, ApplyTargettedForcesInv, MoveParticlesInv,
     UpdateVelocitiesInv DEF Main
<1>3. CASE UNCHANGED vars
  BY <1>3 DEF vars, threads, IInv, TypeOK, HeldOnce, LoadedIsCurrent, AllOrNothing,
     StepInTime, Holds, AtHand, Pending, Full
<1> QED
  BY <1>1, <1>2, <1>3 DEF Next, Terminated

\* The inductive invariant: threads share no particle, and a particle has all of
\* its pairwise forces or none.
THEOREM Invariance == Spec => []IInv
  BY InitInv, NextInv, PTL DEF Spec

\* Types of the simulation; a step is never begun after the end time.
THEOREM TypeCorrect == Spec => []TypeOK
<1>1. IInv => TypeOK
  BY DEF IInv
<1> QED
  BY <1>1, Invariance, PTL

-----------------------------------------------------------------------------
(***************************************************************************)
(* The simulation implements ForceAccumulation                             *)
(***************************************************************************)

PairForces == [p \in Particles |-> [q \in Particles |-> f[p][q]]]

LEMMA InitRefines == Init => ForceSum!Init
<1> SUFFICES ASSUME Init
             PROVE  ForceSum!Init
  OBVIOUS
<1>1. Interacting \subseteq {pq \in Particles \X Particles : pq[1] # pq[2]}
  BY DEF Interacting
<1>2. PairForces = [p \in Particles |-> [q \in Particles |-> 0]]
  BY SourceKinds DEF PairForces, Init, NoForce
<1> QED
  BY <1>1, <1>2 DEF ForceSum!Init, ForceSum!NoForces, PairForces, Init

LEMMA NextRefines == IInv /\ IInv' /\ [Next]_vars => [ForceSum!Next]_(ForceSum!vars)
<1> SUFFICES ASSUME IInv, IInv', [Next]_vars
             PROVE  [ForceSum!Next]_(ForceSum!vars)
  OBVIOUS
<1> DEFINE Idle == phase \in {"velocities", "loop"}
<1>1. Interacting' = Interacting
  BY DEF Interacting
<1>2. ASSUME f' = f, Idle' = Idle
      PROVE  UNCHANGED ForceSum!vars
  BY <1>1, <1>2 DEF ForceSum!vars
<1>3. ASSUME NEW w \in Workers, Step(w)
      PROVE  [ForceSum!Next]_(ForceSum!vars)
  <2>1. CASE SetF(w)
    <3>0. PICK p \in Particles : p = it1[w]
      BY <2>1, StoreCompletes
    <3> DEFINE sum == Plus(f[p], total[w])
    <3>1. /\ phase = "pairwise" /\ p \in Particles /\ p \in Pending
          /\ f' = [f EXCEPT ![p] = sum]
          /\ \A q \in Particles : sum[q] = Full(p, q)
      BY <2>1, <3>0, StoreCompletes
    <3>2. phase' = phase
      BY <2>1 DEF SetF
    <3> HIDE DEF sum
    <3>3. \A q \in Particles : f[p][q] = 0
      BY <3>1 DEF IInv, AllOrNothing
    <3>4. f \in [Particles -> [Sources -> Nat]]
      BY DEF IInv, TypeOK, ForceTypes
    <3> DEFINE S == {q \in Particles : q \in Partners(p)}
    <3>5. S \in SUBSET ForceSum!Missing(p)
      BY <3>1, <3>3 DEF ForceSum!Missing, Interacting, Partners
    <3> DEFINE row == [q \in Particles |-> IF q \in S THEN 1 ELSE PairForces[p][q]]
    <3>6. PairForces' = [PairForces EXCEPT ![p] = row]
      <4>1. \A q \in Particles : f'[p][q] = row[q]
        <5> SUFFICES ASSUME NEW q \in Particles
                     PROVE  f'[p][q] = row[q]
          OBVIOUS
        <5>1. f'[p][q] = Full(p, q)
          BY <3>1, <3>4
        <5>2. PairForces[p][q] = 0
          BY <3>1, <3>3 DEF PairForces
        <5> QED
          BY <5>1, <5>2 DEF Full
      <4>2. \A a \in Particles : a # p => f'[a] = f[a]
        BY <3>1, <3>4
      <4> HIDE DEF row
      <4>3. \A a \in Particles : PairForces'[a] = IF a = p THEN row ELSE PairForces[a]
        <5>1. row = [q \in Particles |-> row[q]]
          BY DEF row
        <5>2. PairForces'[p] = [q \in Particles |-> f'[p][q]]
          BY <3>1 DEF PairForces
        <5>3. PairForces'[p] = row
          BY <4>1, <5>1, <5>2, Zenon
        <5> QED
          BY <4>2, <5>3 DEF PairForces
      <4> QED
        BY <3>1, <4>3 DEF PairForces
    <3>7. ForceSum!Contribute(p)
      BY <1>1, <3>1, <3>2, <3>5, <3>6 DEF ForceSum!Contribute, PairForces
    <3>8. \E a \in Particles : ForceSum!Contribute(a)
      BY <3>7
    <3> QED
      BY <3>8 DEF ForceSum!Next
  <2>2. CASE ~SetF(w)
    BY <1>2, <1>3, <2>2 DEF Step, NextParticle, GetF, Barrier
  <2> QED
    BY <2>1, <2>2
<1>4. CASE ApplySimpleForces
  <2>1. \A p, q \in Particles : f[p][q] = 0 /\ f'[p][q] = 0
    <3>1. phase = "simple" /\ phase' = "pairwise"
      BY <1>4 DEF ApplySimpleForces
    <3>2. \A p, q \in Particles : f[p][q] = 0
      BY <3>1 DEF IInv, AllOrNothing
    <3>3. \A p, q \in Particles : f'[p][q] = f[p][q]
      BY <1>4, SourceKinds DEF ApplySimpleForces, IInv, TypeOK, ForceTypes
    <3> QED
      BY <3>2, <3>3
  <2>2. PairForces' = PairForces
    BY <2>1 DEF PairForces
  <2> QED
    BY <1>1, <1>4, <2>2 DEF ApplySimpleForces, ForceSum!vars, PairForces
<1>5. CASE ApplyTargettedForces
  <2>1. phase = "pairwise" /\ phase' \in {"velocities", "loop"} /\ Pending = {}
    BY <1>5, NothingPending DEF ApplyTargettedForces
  <2>2. \A p, q \in Particles : f[p][q] = Full(p, q) /\ f'[p][q] = Full(p, q)
    BY <2>1 DEF IInv, AllOrNothing, Full
  <2>3. PairForces' = PairForces
    BY <2>2 DEF PairForces
  <2>4. \A p \in Particles : ForceSum!Missing(p) = {}
    BY <2>2 DEF ForceSum!Missing, Interacting, Full, Partners
  <2> QED
    BY <1>1, <2>1, <2>3, <2>4 DEF ForceSum!Next, ForceSum!Return, PairForces
<1>6. CASE MoveParticles
  <2>1. PairForces' = [p \in Particles |-> [q \in Particles |-> 0]]
    BY <1>6, SourceKinds DEF MoveParticles, PairForces, NoForce
  <2>2. Interacting \subseteq {pq \in Particles \X Particles : pq[1] # pq[2]}
    BY DEF Interacting
  <2> QED
    BY <1>1, <1>6, <2>1, <2>2
       DEF MoveParticles, ForceSum!Next, ForceSum!Call, ForceSum!NoForces, PairForces
<1>7. CASE UpdateVelocities
  BY <1>2, <1>7 DEF UpdateVelocities
<1>8. CASE UNCHANGED vars
  BY <1>2, <1>8 DEF vars
<1> QED
  BY <1>3, <1>4, <1>5, <1>6, <1>7, <1>8 DEF Next, Main, Terminated

\* The safety part of AccumulatesOnce: in every step of the simulation no pairwise
\* contribution is lost or applied twice, and the call returns with all of them.
THEOREM ImplementsAccumulation == Spec => ForceSum!SafeSpec
  BY InitRefines, NextRefines, Invariance, PTL DEF Spec, ForceSum!SafeSpec

-----------------------------------------------------------------------------
(***************************************************************************)
(* Velocities                                                              *)
(***************************************************************************)

\* What the forces hold of every source in every phase of a step, for the
\* particles that are moved.
ForcesNow ==
    \A p \in Particles \ Locked : \A s \in Sources :
        /\ phase = "simple" => f[p][s] = 0
        /\ phase = "pairwise" /\ s \notin Particles => f[p][s] = IF s = Simple THEN 1 ELSE 0
        /\ phase = "velocities" => f[p][s] = ForceAt(p, s, iteration)
        /\ phase = "loop" => f[p][s] = ForceOf(p, s, iteration)
        /\ phase # "loop" /\ started => old_f[p][s] = ForceOf(p, s, iteration)

VelocitiesNow ==
    \A p \in Particles : \A s \in Sources :
        v[p][s] = IF p \in Locked THEN 0 ELSE HalvesUpTo(p, s)[iteration]

Integrated ==
    /\ ForcesNow /\ VelocitiesNow
    /\ ~started => iteration = 0

\* Induction, for a set of numbers.
LEMMA NatSet ==
  ASSUME NEW S, 0 \in S, \A m \in Nat : m \in S => m + 1 \in S
  PROVE  \A m \in Nat : m \in S
<1> DEFINE Less == OpToRel(<, Nat)
            Bad == {m \in Nat : m \notin S}
<1>1. IsWellFoundedOn(Less, Nat)
  BY NatLessThanWellFounded
<1>2. \A m, n \in Nat : <<m, n>> \in Less <=> m < n
  BY DEF OpToRel
<1> HIDE DEF Less
<1>3. SUFFICES ASSUME Bad # {} PROVE FALSE
  OBVIOUS
<1>4. PICK n \in Bad : \A m \in Bad : <<m, n>> \notin Less
  <2>1. Bad \subseteq Nat
    OBVIOUS
  <2> HIDE DEF Bad
  <2> QED BY <1>1, <1>3, <2>1, WFMin
<1>5. n \in Nat /\ n \notin S /\ n # 0
  OBVIOUS
<1>6. n - 1 \in Nat /\ (n - 1) + 1 = n
  BY <1>5
<1>7. n - 1 \notin S
  BY <1>5, <1>6
<1>8. n - 1 \in Bad
  BY <1>6, <1>7
<1>9. <<n - 1, n>> \in Less
  BY <1>2, <1>5, <1>6
<1> QED BY <1>4, <1>8, <1>9, Zenon

\* h sums up the halves of the forces F, up to the time m.
Halves(h, F, m) ==
    /\ h \in [0 .. m -> Nat]
    /\ h[0] = 0
    /\ \A n \in 1 .. m : h[n] = h[n - 1] + F[n - 1] + F[n]

LEMMA HalvesExist ==
  ASSUME NEW E \in Nat, NEW F \in [0 .. E -> Nat]
  PROVE  \E h : Halves(h, F, E)
<1> DEFINE Good == {m \in Nat : m <= E => \E h : Halves(h, F, m)}
<1>1. 0 \in Good
  <2> DEFINE h == [n \in 0 .. 0 |-> 0]
  <2>1. h \in [0 .. 0 -> Nat] /\ h[0] = 0
    OBVIOUS
  <2> HIDE DEF h
  <2>2. Halves(h, F, 0)
    BY <2>1 DEF Halves
  <2> QED BY <2>2
<1>2. ASSUME NEW m \in Nat, m \in Good
      PROVE  m + 1 \in Good
  <2> SUFFICES ASSUME m + 1 <= E PROVE \E h : Halves(h, F, m + 1)
    OBVIOUS
  <2>1. PICK h : Halves(h, F, m)
    BY <1>2
  <2>2. h \in [0 .. m -> Nat] /\ h[m] \in Nat /\ F[m] \in Nat /\ F[m + 1] \in Nat
    BY <2>1 DEF Halves
  <2> DEFINE next == [n \in 0 .. m + 1 |-> IF n = m + 1 THEN h[m] + F[m] + F[m + 1] ELSE h[n]]
  <2>3. next \in [0 .. m + 1 -> Nat] /\ next[0] = h[0]
    BY <2>2
  <2>4. ASSUME NEW n \in 1 .. m + 1
        PROVE  next[n] = next[n - 1] + F[n - 1] + F[n]
    <3>1. CASE n = m + 1
      <4>1. next[n] = h[m] + F[m] + F[m + 1] /\ next[n - 1] = h[m] /\ n - 1 = m
        BY <3>1
      <4> HIDE DEF next
      <4> QED BY <3>1, <4>1
    <3>2. CASE n # m + 1
      <4>1. n \in 1 .. m /\ n - 1 \in 0 .. m /\ n \in 0 .. m + 1 /\ n - 1 \in 0 .. m + 1
            /\ n - 1 # m + 1
        BY <3>2
      <4>2. next[n] = h[n] /\ next[n - 1] = h[n - 1]
        BY <3>2, <4>1
      <4>3. h[n] = h[n - 1] + F[n - 1] + F[n]
        BY <2>1, <4>1 DEF Halves
      <4> HIDE DEF next
      <4> QED BY <4>2, <4>3
    <3> QED BY <3>1, <3>2
  <2> HIDE DEF next
  <2>5. Halves(next, F, m + 1)
    BY <2>1, <2>3, <2>4 DEF Halves
  <2> QED BY <2>5
<1> HIDE DEF Good
<1>3. E \in Good
  BY <1>1, <1>2, NatSet
<1> QED BY <1>3 DEF Good

\* The equation that defines the function in HalvesUpTo.
Unfolds(h, p, s) ==
    h = [n \in 0 .. EndTime |->
           IF n = 0 THEN 0 ELSE h[n - 1] + ForceOf(p, s, n - 1) + ForceOf(p, s, n)]

LEMMA ForceType ==
  ASSUME NEW p, NEW s \in Sources, NEW n
  PROVE  ForceAt(p, s, n) \in Nat /\ ForceOf(p, s, n) \in Nat
<1>1. \A time : ForceAt(p, s, time) \in Nat
  <2> SUFFICES ASSUME NEW time PROVE ForceAt(p, s, time) \in Nat
    OBVIOUS
  <2>1. s = Simple \/ s = Targetted \/ s \in Particles
    BY DEF Sources, Simple, Targetted, Particles
  <2>2. Simple # Targetted
    BY DEF Simple, Targetted
  <2>3. CASE s = Simple
    BY <2>2, <2>3, SourceKinds DEF ForceAt
  <2>4. CASE s = Targetted
    BY <2>2, <2>4, SourceKinds, TimesTargettedType DEF ForceAt
  <2>5. CASE s \in Particles
    BY <2>5, SourceKinds DEF ForceAt
  <2> QED BY <2>1, <2>3, <2>4, <2>5
<1> QED BY <1>1 DEF ForceOf

LEMMA HalvesUnfold ==
  ASSUME NEW p, NEW s \in Sources
  PROVE  Unfolds(HalvesUpTo(p, s), p, s)
<1> DEFINE F == [n \in 0 .. EndTime |-> ForceOf(p, s, n)]
<1>1. F \in [0 .. EndTime -> Nat] /\ \A n \in 0 .. EndTime : F[n] = ForceOf(p, s, n)
  BY ForceType
<1> HIDE DEF F
<1>2. PICK h : Halves(h, F, EndTime)
  BY <1>1, HalvesExist
<1>3. /\ h \in [0 .. EndTime -> Nat] /\ h[0] = 0
      /\ \A n \in 1 .. EndTime : h[n] = h[n - 1] + ForceOf(p, s, n - 1) + ForceOf(p, s, n)
  <2>1. \A n \in 1 .. EndTime : F[n - 1] = ForceOf(p, s, n - 1) /\ F[n] = ForceOf(p, s, n)
    BY <1>1
  <2> QED BY <1>2, <2>1 DEF Halves
<1>4. h = [n \in 0 .. EndTime |-> h[n]]
  BY <1>3
<1>5. \A n \in 0 .. EndTime :
        h[n] = IF n = 0 THEN 0 ELSE h[n - 1] + ForceOf(p, s, n - 1) + ForceOf(p, s, n)
  <2> SUFFICES ASSUME NEW n \in 0 .. EndTime
                PROVE  h[n] = IF n = 0 THEN 0
                              ELSE h[n - 1] + ForceOf(p, s, n - 1) + ForceOf(p, s, n)
    OBVIOUS
  <2>1. CASE n = 0
    BY <1>3, <2>1
  <2>2. CASE n # 0
    <3>1. n \in 1 .. EndTime
      BY <2>2
    <3> QED BY <1>3, <2>2, <3>1, Zenon
  <2> QED BY <2>1, <2>2
<1>6. h = [n \in 0 .. EndTime |->
             IF n = 0 THEN 0 ELSE h[n - 1] + ForceOf(p, s, n - 1) + ForceOf(p, s, n)]
  BY <1>4, <1>5, Zenon
<1>7. Unfolds(h, p, s)
  BY <1>6 DEF Unfolds
<1>8. HalvesUpTo(p, s) = CHOOSE g : Unfolds(g, p, s)
  BY DEF HalvesUpTo, Unfolds
<1> QED BY <1>7, <1>8, Zenon

\* What is used of HalvesUpTo.
LEMMA HalvesGrow ==
  ASSUME NEW p, NEW s \in Sources
  PROVE  /\ HalvesUpTo(p, s)[0] = 0
         /\ \A n \in 0 .. EndTime - 1 :
              HalvesUpTo(p, s)[n + 1]
                = HalvesUpTo(p, s)[n] + ForceOf(p, s, n) + ForceOf(p, s, n + 1)
<1>1. PICK h : h = HalvesUpTo(p, s)
  OBVIOUS
<1>2. h = [n \in 0 .. EndTime |->
             IF n = 0 THEN 0 ELSE h[n - 1] + ForceOf(p, s, n - 1) + ForceOf(p, s, n)]
  BY <1>1, HalvesUnfold DEF Unfolds
<1>3. \A n \in 0 .. EndTime :
        h[n] = IF n = 0 THEN 0 ELSE h[n - 1] + ForceOf(p, s, n - 1) + ForceOf(p, s, n)
  BY <1>2, Zenon
<1>4. h[0] = 0
  <2>1. 0 \in 0 .. EndTime
    OBVIOUS
  <2> QED BY <1>3, <2>1, Zenon
<1>5. ASSUME NEW n \in 0 .. EndTime - 1
      PROVE  h[n + 1] = h[n] + ForceOf(p, s, n) + ForceOf(p, s, n + 1)
  <2>1. n + 1 \in 0 .. EndTime /\ n + 1 # 0 /\ (n + 1) - 1 = n
    OBVIOUS
  <2>2. PICK m : m = n + 1
    OBVIOUS
  <2>3. h[m] = h[m - 1] + ForceOf(p, s, m - 1) + ForceOf(p, s, m)
    BY <1>3, <2>1, <2>2, Zenon
  <2>4. m - 1 = n
    BY <2>1, <2>2
  <2> QED BY <2>2, <2>3, <2>4, Zenon
<1> QED BY <1>1, <1>4, <1>5

LEMMA InitIntegrated == Init => Integrated
<1> SUFFICES ASSUME Init
             PROVE  Integrated
  OBVIOUS
<1>1. /\ phase = "simple" /\ iteration = 0 /\ started = FALSE
      /\ f = [p \in Particles |-> NoForce] /\ v = [p \in Particles |-> NoForce]
  BY DEF Init
<1>2. ForcesNow
  BY <1>1 DEF ForcesNow, NoForce
<1>3. VelocitiesNow
  BY <1>1, HalvesGrow DEF VelocitiesNow, NoForce
<1> QED
  BY <1>1, <1>2, <1>3 DEF Integrated

\* A store adds pairwise forces only.
LEMMA SetFIntegrated ==
    ASSUME IInv, Integrated, NEW w \in Workers, SetF(w)
    PROVE  Integrated'
<1> DEFINE p == it1[w]
           sum == Plus(f[p], total[w])
<1>1. /\ pc[w] = "set"
      /\ UNCHANGED <<phase, iteration, started, old_f, v>>
  BY DEF SetF
<1>2. /\ phase = "pairwise" /\ p \in Particles /\ f' = [f EXCEPT ![p] = sum]
  BY StoreCompletes
<1>3. total[w] = [s \in Sources |-> IF s \in Partners(p) THEN 1 ELSE 0]
  BY <1>1 DEF IInv, LoadedIsCurrent
<1>4. f \in [Particles -> [Sources -> Nat]]
  BY DEF IInv, TypeOK, ForceTypes
<1>5. ASSUME NEW s \in Sources, s \notin Particles
      PROVE  sum[s] = f[p][s]
  <2>1. s \notin Partners(p)
    BY <1>5 DEF Partners
  <2>2. total[w][s] = 0
    BY <1>3, <2>1
  <2>3. f[p][s] \in Nat
    BY <1>2, <1>4
  <2> QED
    BY <2>2, <2>3 DEF Plus
<1> HIDE DEF sum
<1>6. \A q \in Particles : \A s \in Sources : s \notin Particles => f'[q][s] = f[q][s]
  <2> SUFFICES ASSUME NEW q \in Particles, NEW s \in Sources, s \notin Particles
               PROVE  f'[q][s] = f[q][s]
    OBVIOUS
  <2>1. CASE q = p
    BY <1>2, <1>4, <1>5, <2>1
  <2>2. CASE q # p
    BY <1>2, <1>4, <2>2
  <2> QED
    BY <2>1, <2>2
<1>7. ForcesNow'
  BY <1>1, <1>2, <1>6 DEF Integrated, ForcesNow
<1>8. VelocitiesNow' /\ (~started' => iteration' = 0)
  BY <1>1 DEF Integrated, VelocitiesNow, HalvesUpTo, ForceOf, ForceAt
<1> QED
  BY <1>7, <1>8 DEF Integrated

\* The other steps of a thread, and those that change nothing.
LEMMA SameIntegrated ==
    ASSUME Integrated, UNCHANGED <<phase, iteration, started, f, old_f, v>>
    PROVE  Integrated'
<1>1. ForcesNow'
  BY DEF Integrated, ForcesNow
<1>2. VelocitiesNow'
  BY DEF Integrated, VelocitiesNow, HalvesUpTo, ForceOf, ForceAt
<1> QED
  BY <1>1, <1>2 DEF Integrated

\* The velocities stay until the next UpdateVelocities.
LEMMA SameVelocities ==
    ASSUME Integrated, UNCHANGED <<iteration, v>>
    PROVE  VelocitiesNow'
  BY DEF Integrated, VelocitiesNow, HalvesUpTo, ForceOf, ForceAt

LEMMA SimpleIntegrated ==
    ASSUME IInv, Integrated, ApplySimpleForces
    PROVE  Integrated'
<1>1. /\ phase = "simple" /\ phase' = "pairwise"
      /\ f' = [p \in Particles |-> IF p \in Locked THEN f[p] ELSE [f[p] EXCEPT ![Simple] = @ + 1]]
      /\ UNCHANGED <<iteration, started, old_f, v>>
  BY DEF ApplySimpleForces
<1>2. f \in [Particles -> [Sources -> Nat]]
  BY DEF IInv, TypeOK, ForceTypes
<1>3. ASSUME NEW p \in Particles \ Locked, NEW s \in Sources
      PROVE  f'[p][s] = IF s = Simple THEN 1 ELSE 0
  <2>1. f[p] \in [Sources -> Nat] /\ \A r \in Sources : f[p][r] = 0
    BY <1>1, <1>2 DEF Integrated, ForcesNow
  <2>2. f'[p] = [f[p] EXCEPT ![Simple] = f[p][Simple] + 1]
    BY <1>1
  <2> QED
    BY <2>1, <2>2, SourceKinds
<1>4. ForcesNow'
  BY <1>1, <1>3 DEF Integrated, ForcesNow
<1> QED
  BY <1>1, <1>4, SameVelocities DEF Integrated

LEMMA TargettedIntegrated ==
    ASSUME IInv, Integrated, ApplyTargettedForces
    PROVE  Integrated'
<1>1. /\ phase = "pairwise" /\ phase' = (IF started THEN "velocities" ELSE "loop")
      /\ started' = TRUE /\ \A w \in Workers : pc[w] = "done"
      /\ UNCHANGED <<iteration, old_f, v>>
  BY DEF ApplyTargettedForces
<1>2. f' = IF InWindow(iteration)
           THEN [p \in Particles |-> [f[p] EXCEPT ![Targetted] = @ + TimesTargetted(p)]]
           ELSE f
  BY DEF ApplyTargettedForces
<1>3. f \in [Particles -> [Sources -> Nat]]
  BY DEF IInv, TypeOK, ForceTypes
<1>4. ASSUME NEW p \in Particles \ Locked, NEW s \in Sources
      PROVE  f'[p][s] = ForceAt(p, s, iteration)
  <2>1. s = Simple \/ s = Targetted \/ s \in Particles
    BY DEF Sources, Simple, Targetted, Particles
  <2>2. Simple # Targetted
    BY DEF Simple, Targetted
  <2>3. f[p] \in [Sources -> Nat]
    BY <1>3
  <2>4. ASSUME InWindow(iteration)
        PROVE  f'[p] = [f[p] EXCEPT ![Targetted] = f[p][Targetted] + TimesTargetted(p)]
    BY <1>2, <2>4
  <2>5. s # Targetted => f'[p][s] = f[p][s]
    BY <1>2, <2>3, <2>4
  <2>6. CASE s = Simple
    <3>1. f[p][s] = 1
      BY <1>1, <2>6, SourceKinds DEF Integrated, ForcesNow
    <3> QED
      BY <2>2, <2>5, <2>6, <3>1, SourceKinds DEF ForceAt
  <2>7. CASE s \in Particles
    <3>1. f[p][s] = Full(p, s)
      BY <1>1, <2>7, NothingPending DEF IInv, AllOrNothing
    <3> QED
      BY <2>5, <2>7, <3>1, SourceKinds DEF ForceAt, Full
  <2>8. CASE s = Targetted
    <3>1. f[p][s] = 0
      BY <1>1, <2>2, <2>8, SourceKinds DEF Integrated, ForcesNow
    <3>2. CASE InWindow(iteration)
      <4>1. f'[p][s] = 0 + TimesTargetted(p)
        BY <2>3, <2>4, <2>8, <3>1, <3>2
      <4> QED
        BY <2>2, <2>8, <3>2, <4>1, TimesTargettedType, SourceKinds DEF ForceAt
    <3>3. CASE ~InWindow(iteration)
      BY <1>2, <2>2, <2>8, <3>1, <3>3, SourceKinds DEF ForceAt
    <3> QED
      BY <3>2, <3>3
  <2> QED
    BY <2>1, <2>6, <2>7, <2>8
<1>5. ForcesNow'
  <2> SUFFICES ASSUME NEW p \in Particles \ Locked, NEW s \in Sources
               PROVE  /\ phase' = "velocities" => f'[p][s] = ForceAt(p, s, iteration)
                      /\ phase' = "loop" => f'[p][s] = ForceOf(p, s, iteration)
                      /\ phase' # "loop" => old_f'[p][s] = ForceOf(p, s, iteration)
    BY <1>1 DEF ForcesNow
  <2>1. CASE started
    <3>1. phase' = "velocities" /\ old_f'[p][s] = ForceOf(p, s, iteration)
      BY <1>1, <2>1 DEF Integrated, ForcesNow
    <3> QED
      BY <1>4, <3>1
  <2>2. CASE ~started
    <3>1. phase' = "loop" /\ iteration = 0
      BY <1>1, <2>2 DEF Integrated
    <3>2. ForceOf(p, s, iteration) = ForceAt(p, s, iteration)
      BY <3>1 DEF ForceOf
    <3> QED
      BY <1>4, <3>1, <3>2
  <2> QED
    BY <2>1, <2>2
<1> QED
  BY <1>1, <1>5, SameVelocities DEF Integrated

LEMMA MoveIntegrated ==
    ASSUME IInv, Integrated, MoveParticles
    PROVE  Integrated'
<1>1. /\ phase = "loop" /\ phase' = "simple"
      /\ old_f' = f /\ f' = [p \in Particles |-> NoForce]
      /\ UNCHANGED <<iteration, started, v>>
  BY DEF MoveParticles
<1>2. ForcesNow'
  <2> SUFFICES ASSUME NEW p \in Particles \ Locked, NEW s \in Sources
               PROVE  f'[p][s] = 0 /\ old_f'[p][s] = ForceOf(p, s, iteration)
    BY <1>1 DEF ForcesNow
  <2>1. f'[p][s] = 0
    BY <1>1 DEF NoForce
  <2>2. f[p][s] = ForceOf(p, s, iteration)
    BY <1>1 DEF Integrated, ForcesNow
  <2> QED
    BY <1>1, <2>1, <2>2
<1> QED
  BY <1>1, <1>2, SameVelocities DEF Integrated

LEMMA UpdateIntegrated ==
    ASSUME IInv, Integrated, UpdateVelocities
    PROVE  Integrated'
<1>1. /\ phase = "velocities" /\ phase' = "loop" /\ iteration' = iteration + 1
      /\ UNCHANGED <<started, f, old_f>>
  BY DEF UpdateVelocities
<1>2. v' = [p \in Particles |->
              IF p \in Locked THEN NoForce ELSE Plus(v[p], Plus(f[p], old_f[p]))]
  BY DEF UpdateVelocities
<1>3. started /\ iteration \in 0 .. EndTime - 1
  BY <1>1 DEF IInv, TypeOK, StepInTime
<1>4. PICK n \in Nat : n = iteration /\ n + 1 # 0 /\ (n + 1) - 1 = n
  BY <1>3
<1>5. ASSUME NEW p, NEW s
      PROVE  ForceOf(p, s, n + 1) = ForceAt(p, s, n)
  BY <1>4 DEF ForceOf
<1>6. ASSUME NEW p \in Particles \ Locked, NEW s \in Sources
      PROVE  f[p][s] = ForceOf(p, s, n + 1) /\ old_f[p][s] = ForceOf(p, s, n)
  BY <1>1, <1>3, <1>4, <1>5 DEF Integrated, ForcesNow
<1>7. iteration' = n + 1
  BY <1>1, <1>4
<1>8. ForcesNow'
  <2>1. ASSUME NEW p \in Particles \ Locked, NEW s \in Sources
        PROVE  f'[p][s] = ForceOf(p, s, iteration')
    BY <1>1, <1>6, <1>7
  <2> QED
    BY <1>1, <2>1 DEF ForcesNow
<1>9. ASSUME NEW p \in Particles, NEW s \in Sources
      PROVE  v'[p][s] = IF p \in Locked THEN 0 ELSE HalvesUpTo(p, s)[n + 1]
  <2>1. CASE p \in Locked
    BY <1>2, <2>1 DEF NoForce
  <2>2. CASE p \notin Locked
    <3>1. PICK h : h = HalvesUpTo(p, s)
      OBVIOUS
    <3>2. v[p][s] = h[n]
      BY <1>4, <2>2, <3>1 DEF Integrated, VelocitiesNow
    <3>3. h[n + 1] = h[n] + ForceOf(p, s, n) + ForceOf(p, s, n + 1)
      BY <1>3, <1>4, <3>1, HalvesGrow
    <3>4. /\ v[p][s] \in Nat /\ f[p][s] \in Nat /\ old_f[p][s] \in Nat
      BY DEF IInv, TypeOK, ForceTypes
    <3>5. v'[p][s] = v[p][s] + (f[p][s] + old_f[p][s])
      BY <1>2, <2>2 DEF Plus
    <3>6. f[p][s] = ForceOf(p, s, n + 1) /\ old_f[p][s] = ForceOf(p, s, n)
      BY <1>6, <2>2
    <3> QED
      BY <2>2, <3>1, <3>2, <3>3, <3>4, <3>5, <3>6
  <2> QED
    BY <2>1, <2>2
<1>10. VelocitiesNow'
  <2>1. ASSUME NEW p \in Particles, NEW s \in Sources
        PROVE  v'[p][s] = IF p \in Locked THEN 0 ELSE HalvesUpTo(p, s)[iteration']
    BY <1>7, <1>9
  <2> QED
    BY <2>1 DEF VelocitiesNow, HalvesUpTo, ForceOf, ForceAt
<1> QED
  BY <1>1, <1>3, <1>8, <1>10 DEF Integrated

\* In every phase a velocity holds what the steps so far have given it.
THEOREM IntegratedAlways == Spec => []Integrated
<1>1. IInv /\ Integrated /\ [Next]_vars => Integrated'
  <2> SUFFICES ASSUME IInv, Integrated, [Next]_vars
               PROVE  Integrated'
    OBVIOUS
  <2>1. ASSUME NEW w \in Workers, Step(w)
        PROVE  Integrated'
    <3>1. CASE SetF(w)
      BY <3>1, SetFIntegrated
    <3>2. CASE NextParticle(w) \/ GetF(w) \/ Barrier(w)
      <4>1. UNCHANGED <<phase, iteration, started, f, old_f, v>>
        BY <3>2 DEF NextParticle, GetF, Barrier
      <4> QED
        BY <4>1, SameIntegrated
    <3> QED
      BY <2>1, <3>1, <3>2 DEF Step
  <2>2. CASE Main
    BY <2>2, SimpleIntegrated, TargettedIntegrated, MoveIntegrated, UpdateIntegrated DEF Main
  <2>3. CASE UNCHANGED vars
    BY <2>3, SameIntegrated DEF vars
  <2> QED
    BY <2>1, <2>2, <2>3 DEF Next, Terminated
<1> QED
  BY <1>1, InitIntegrated, Invariance, PTL DEF Spec

\* Between two steps, a velocity holds half the force at the beginning and at the
\* end of every step so far, of every source, once.
THEOREM VelocitiesExact == Spec => []VelocitiesSumUp
<1>1. IInv /\ Integrated => VelocitiesSumUp
  BY DEF Integrated, VelocitiesNow, VelocitiesSumUp
<1> QED
  BY <1>1, Invariance, IntegratedAlways, PTL

-----------------------------------------------------------------------------
(***************************************************************************)
(* Progress                                                                *)
(*                                                                         *)
(* That a simulation ends needs fairness and stays with TLC.  Here, for    *)
(* every size: the forces are computed in EndTime + 1 rounds, a round has  *)
(* a fixed list of steps, and each step of the program is one entry of it, *)
(* taken once.                                                             *)
(***************************************************************************)

\* The round of force computations the program is in, or the last one it has
\* completed; round 0 gives the initial forces.
Round == IF started /\ phase # "loop" THEN iteration + 1 ELSE iteration

Actions ==
    {"MoveParticles", "ApplySimpleForces", "NextParticle", "GetF", "SetF", "Barrier",
     "ApplyTargettedForces", "UpdateVelocities"}

\* What an action is taken for in a whole round: each particle, each thread, or
\* just once.
WholeRound(action) ==
    CASE action \in {"NextParticle", "GetF", "SetF"} -> Particles
      [] action = "Barrier" -> Workers
      [] action \in {"MoveParticles", "ApplySimpleForces", "ApplyTargettedForces",
                     "UpdateVelocities"} -> {0}

\* The particles whose thread stands at `stages`.
ParticlesAt(stages) == {it1[w] : w \in {u \in Workers : pc[u] \in stages}}

Untaken == UNION {chunk[w] : w \in Workers}

\* What it still has to be taken for in the current round.
InRound(action) ==
    CASE action = "MoveParticles" \/ phase = "loop" -> {}
      [] action = "UpdateVelocities" /\ phase # "loop" -> IF started THEN {0} ELSE {}
      [] action \notin {"MoveParticles", "UpdateVelocities"} /\ phase = "simple" -> WholeRound(action)
      [] action \notin {"MoveParticles", "UpdateVelocities"} /\ phase = "velocities" -> {}
      [] action = "ApplySimpleForces" /\ phase = "pairwise" -> {}
      [] action = "NextParticle" /\ phase = "pairwise" -> Untaken
      [] action = "GetF" /\ phase = "pairwise" -> Untaken \cup ParticlesAt({"get"})
      [] action = "SetF" /\ phase = "pairwise" -> Untaken \cup ParticlesAt({"get", "set"})
      [] action = "Barrier" /\ phase = "pairwise" -> {w \in Workers : pc[w] # "done"}
      [] action = "ApplyTargettedForces" /\ phase = "pairwise" -> {0}

LeftFor(r, action) ==
    IF r > Round THEN WholeRound(action) ELSE IF r = Round THEN InRound(action) ELSE {}

Entries == (0 .. EndTime) \X Actions

WorkLeft == UNION {{e} \X LeftFor(e[1], e[2]) : e \in Entries}

Finished == phase = "loop" /\ iteration = EndTime

\* The conditions of Step(w) and of Main on the current state: an outer loop that
\* is not at its end has a next particle, and there is a static schedule.
ThreadCanGoOn(w) ==
    \/ pc[w] \in {"get", "set"}
    \/ pc[w] = "loop" /\ (chunk[w] = {} \/ \E p \in chunk[w] : \A q \in chunk[w] : p <= q)

MainCanGoOn ==
    \/ phase = "simple" /\ Chunks # {}
    \/ phase = "pairwise" /\ \A w \in Workers : pc[w] = "done"
    \/ phase = "velocities"
    \/ phase = "loop" /\ iteration < EndTime

\* The initial forces come first.
InitialFirst ==
    /\ phase = "loop" => started
    /\ ~started => iteration = 0

LEMMA InitialFirstAlways == Spec => []InitialFirst
<1>1. Init => InitialFirst
  BY DEF Init, InitialFirst
<1>2. IInv /\ InitialFirst /\ [Next]_vars => InitialFirst'
  <2> SUFFICES ASSUME IInv, InitialFirst, [Next]_vars
               PROVE  InitialFirst'
    OBVIOUS
  <2>1. CASE \E w \in Workers : Step(w)
    BY <2>1 DEF InitialFirst, Step, NextParticle, GetF, SetF, Barrier
  <2>2. CASE Main
    BY <2>2 DEF InitialFirst, Main, ApplySimpleForces, ApplyTargettedForces, MoveParticles,
       UpdateVelocities, IInv, StepInTime
  <2>3. CASE UNCHANGED vars
    BY <2>3 DEF InitialFirst, vars
  <2> QED
    BY <2>1, <2>2, <2>3 DEF Next, Terminated
<1> QED
  BY <1>1, <1>2, Invariance, PTL DEF Spec

LEMMA RoundInRange ==
    ASSUME IInv
    PROVE  Round \in 0 .. EndTime /\ iteration \in 0 .. EndTime
  BY DEF IInv, TypeOK, StepInTime, Round

\* What is left in a round, phase by phase.
LEMMA LeftInLoop ==
    ASSUME phase = "loop", NEW a \in Actions
    PROVE  InRound(a) = {}
  BY DEF InRound, Actions

LEMMA LeftInSimple ==
    ASSUME phase = "simple"
    PROVE  /\ InRound("MoveParticles") = {}
           /\ InRound("ApplySimpleForces") = {0}
           /\ InRound("NextParticle") = Particles
           /\ InRound("GetF") = Particles
           /\ InRound("SetF") = Particles
           /\ InRound("Barrier") = Workers
           /\ InRound("ApplyTargettedForces") = {0}
           /\ InRound("UpdateVelocities") = IF started THEN {0} ELSE {}
  BY DEF InRound, WholeRound

LEMMA LeftInPairwise ==
    ASSUME phase = "pairwise"
    PROVE  /\ InRound("MoveParticles") = {}
           /\ InRound("ApplySimpleForces") = {}
           /\ InRound("NextParticle") = Untaken
           /\ InRound("GetF") = Untaken \cup ParticlesAt({"get"})
           /\ InRound("SetF") = Untaken \cup ParticlesAt({"get", "set"})
           /\ InRound("Barrier") = {w \in Workers : pc[w] # "done"}
           /\ InRound("ApplyTargettedForces") = {0}
           /\ InRound("UpdateVelocities") = IF started THEN {0} ELSE {}
  BY DEF InRound

LEMMA LeftInVelocities ==
    ASSUME phase = "velocities", NEW a \in Actions
    PROVE  InRound(a) = IF a = "UpdateVelocities" /\ started THEN {0} ELSE {}
  BY DEF InRound, Actions

LEMMA StruckOff ==
    ASSUME NEW e \in Entries, NEW x \in LeftFor(e[1], e[2]),
           LeftFor(e[1], e[2])' = LeftFor(e[1], e[2]) \ {x},
           \A d \in Entries \ {e} : LeftFor(d[1], d[2])' = LeftFor(d[1], d[2])
    PROVE  \E y \in WorkLeft : WorkLeft' = WorkLeft \ {y}
<1> DEFINE y == <<e, x>>
<1>1. y \in WorkLeft
  BY DEF WorkLeft
<1>2. ASSUME NEW z
      PROVE  z \in WorkLeft' <=> z \in WorkLeft /\ z # y
  <2>1. z \in WorkLeft <=> \E d \in Entries : \E t \in LeftFor(d[1], d[2]) : z = <<d, t>>
    BY DEF WorkLeft
  <2>2. z \in WorkLeft' <=> \E d \in Entries : \E t \in LeftFor(d[1], d[2])' : z = <<d, t>>
    BY DEF WorkLeft, Entries, Actions
  <2>3. \A d \in Entries : \A t :
           t \in LeftFor(d[1], d[2])' <=> t \in LeftFor(d[1], d[2]) /\ <<d, t>> # y
    OBVIOUS
  <2> QED
    BY <2>1, <2>2, <2>3
<1>3. WorkLeft' = WorkLeft \ {y}
  BY <1>2
<1> QED
  BY <1>1, <1>3

\* A step inside a round.
LEMMA StruckOffInRound ==
    ASSUME Round \in 0 .. EndTime, Round' = Round,
           NEW a \in Actions, NEW x \in InRound(a),
           InRound(a)' = InRound(a) \ {x},
           \A b \in Actions \ {a} : InRound(b)' = InRound(b)
    PROVE  \E y \in WorkLeft : WorkLeft' = WorkLeft \ {y}
<1>1. PICK e \in Entries : e[1] = Round /\ e[2] = a
  <2>1. <<Round, a>> \in Entries /\ <<Round, a>>[1] = Round /\ <<Round, a>>[2] = a
    BY DEF Entries
  <2> QED
    BY <2>1
<1>2. \A r \in 0 .. EndTime : \A b :
         /\ r # Round => LeftFor(r, b)' = LeftFor(r, b)
         /\ r = Round => LeftFor(r, b)' = InRound(b)' /\ LeftFor(r, b) = InRound(b)
  BY DEF LeftFor
<1>3. x \in LeftFor(e[1], e[2]) /\ LeftFor(e[1], e[2])' = LeftFor(e[1], e[2]) \ {x}
  BY <1>1, <1>2
<1>4. \A d \in Entries \ {e} : LeftFor(d[1], d[2])' = LeftFor(d[1], d[2])
  <2> SUFFICES ASSUME NEW d \in Entries \ {e}
               PROVE  LeftFor(d[1], d[2])' = LeftFor(d[1], d[2])
    OBVIOUS
  <2>1. d[1] \in 0 .. EndTime /\ d[2] \in Actions /\ d = <<d[1], d[2]>>
    BY DEF Entries
  <2>2. d[1] # Round \/ d[2] # a
    <3>1. e = <<e[1], e[2]>>
      BY DEF Entries
    <3> QED
      BY <1>1, <2>1, <3>1
  <2> QED
    BY <1>2, <2>1, <2>2
<1> QED
  BY <1>1, <1>3, <1>4, StruckOff

LEMMA NextParticleStrikesOff ==
    ASSUME IInv, NEW w \in Workers, NextParticle(w)
    PROVE  \E y \in WorkLeft : WorkLeft' = WorkLeft \ {y}
<1> USE DEF IInv
<1>1. PICK p \in chunk[w] : /\ it1' = [it1 EXCEPT ![w] = p]
                            /\ chunk' = [chunk EXCEPT ![w] = @ \ {p}]
  BY DEF NextParticle
<1>2. /\ pc[w] = "loop" /\ pc' = [pc EXCEPT ![w] = "get"]
      /\ UNCHANGED <<phase, iteration, started>>
      /\ phase = "pairwise"
  BY ThreadsInLoop DEF NextParticle
<1>3. \A u \in Workers \ {w} : p \notin chunk[u] /\ chunk'[u] = chunk[u]
                                /\ it1'[u] = it1[u] /\ pc'[u] = pc[u]
  BY <1>1, <1>2 DEF HeldOnce, Holds, TypeOK
<1>4. chunk'[w] = chunk[w] \ {p} /\ it1'[w] = p /\ pc'[w] = "get"
  BY <1>1, <1>2 DEF TypeOK
<1>5. Untaken' = Untaken \ {p} /\ p \in Untaken
  BY <1>1, <1>3, <1>4 DEF Untaken
<1>6. /\ ParticlesAt({"get"})' = ParticlesAt({"get"}) \cup {p}
      /\ ParticlesAt({"get", "set"})' = ParticlesAt({"get", "set"}) \cup {p}
  BY <1>2, <1>3, <1>4 DEF ParticlesAt
<1>7. {u \in Workers : pc'[u] # "done"} = {u \in Workers : pc[u] # "done"}
  BY <1>2, <1>3, <1>4
<1>8. Round' = Round
  BY <1>2 DEF Round
<1>9. \A b \in Actions \ {"NextParticle"} : InRound(b)' = InRound(b)
  BY <1>2, <1>5, <1>6, <1>7 DEF InRound, Actions
<1>10. InRound("NextParticle")' = InRound("NextParticle") \ {p} /\ p \in InRound("NextParticle")
  BY <1>2, <1>5 DEF InRound
<1> QED
  BY <1>8, <1>9, <1>10, RoundInRange, StruckOffInRound DEF Actions

LEMMA GetFStrikesOff ==
    ASSUME IInv, NEW w \in Workers, GetF(w)
    PROVE  \E y \in WorkLeft : WorkLeft' = WorkLeft \ {y}
<1> USE DEF IInv
<1>1. /\ pc[w] = "get" /\ pc' = [pc EXCEPT ![w] = "set"]
      /\ UNCHANGED <<phase, iteration, started, chunk, it1>>
      /\ phase = "pairwise"
  BY ThreadsInLoop DEF GetF
<1>2. /\ \A u \in Workers \ {w} : pc[u] \in {"get", "set"} => it1[u] # it1[w]
      /\ \A u \in Workers : it1[w] \notin chunk[u]
  BY <1>1 DEF HeldOnce, Holds, AtHand
<1>3. pc'[w] = "set" /\ \A u \in Workers \ {w} : pc'[u] = pc[u]
  BY <1>1 DEF TypeOK
<1>4. Untaken' = Untaken /\ it1[w] \notin Untaken
  BY <1>1, <1>2 DEF Untaken
<1>5. /\ ParticlesAt({"get"})' = ParticlesAt({"get"}) \ {it1[w]}
      /\ it1[w] \in ParticlesAt({"get"})
      /\ ParticlesAt({"get", "set"})' = ParticlesAt({"get", "set"})
  BY <1>1, <1>2, <1>3 DEF ParticlesAt
<1>6. {u \in Workers : pc'[u] # "done"} = {u \in Workers : pc[u] # "done"}
  BY <1>1, <1>3
<1>7. Round' = Round
  BY <1>1 DEF Round
<1>8. \A b \in Actions \ {"GetF"} : InRound(b)' = InRound(b)
  BY <1>1, <1>4, <1>5, <1>6 DEF InRound, Actions
<1>9. InRound("GetF")' = InRound("GetF") \ {it1[w]} /\ it1[w] \in InRound("GetF")
  BY <1>1, <1>4, <1>5 DEF InRound
<1> QED
  BY <1>7, <1>8, <1>9, RoundInRange, StruckOffInRound DEF Actions

LEMMA SetFStrikesOff ==
    ASSUME IInv, NEW w \in Workers, SetF(w)
    PROVE  \E y \in WorkLeft : WorkLeft' = WorkLeft \ {y}
<1> USE DEF IInv
<1>1. /\ pc[w] = "set" /\ pc' = [pc EXCEPT ![w] = "loop"]
      /\ UNCHANGED <<phase, iteration, started, chunk, it1>>
      /\ phase = "pairwise"
  BY ThreadsInLoop DEF SetF
<1>2. /\ \A u \in Workers \ {w} : pc[u] \in {"get", "set"} => it1[u] # it1[w]
      /\ \A u \in Workers : it1[w] \notin chunk[u]
  BY <1>1 DEF HeldOnce, Holds, AtHand
<1>3. pc'[w] = "loop" /\ \A u \in Workers \ {w} : pc'[u] = pc[u]
  BY <1>1 DEF TypeOK
<1>4. Untaken' = Untaken /\ it1[w] \notin Untaken
  BY <1>1, <1>2 DEF Untaken
<1>5. /\ ParticlesAt({"get", "set"})' = ParticlesAt({"get", "set"}) \ {it1[w]}
      /\ it1[w] \in ParticlesAt({"get", "set"})
      /\ ParticlesAt({"get"})' = ParticlesAt({"get"})
  BY <1>1, <1>2, <1>3 DEF ParticlesAt
<1>6. {u \in Workers : pc'[u] # "done"} = {u \in Workers : pc[u] # "done"}
  BY <1>1, <1>3
<1>7. Round' = Round
  BY <1>1 DEF Round
<1>8. \A b \in Actions \ {"SetF"} : InRound(b)' = InRound(b)
  BY <1>1, <1>4, <1>5, <1>6 DEF InRound, Actions
<1>9. InRound("SetF")' = InRound("SetF") \ {it1[w]} /\ it1[w] \in InRound("SetF")
  BY <1>1, <1>4, <1>5 DEF InRound
<1> QED
  BY <1>7, <1>8, <1>9, RoundInRange, StruckOffInRound DEF Actions

LEMMA BarrierStrikesOff ==
    ASSUME IInv, NEW w \in Workers, Barrier(w)
    PROVE  \E y \in WorkLeft : WorkLeft' = WorkLeft \ {y}
<1> USE DEF IInv
<1>1. /\ pc[w] = "loop" /\ pc' = [pc EXCEPT ![w] = "done"]
      /\ UNCHANGED <<phase, iteration, started, chunk, it1>>
      /\ phase = "pairwise"
  BY ThreadsInLoop DEF Barrier
<1>2. pc'[w] = "done" /\ \A u \in Workers \ {w} : pc'[u] = pc[u]
  BY <1>1 DEF TypeOK
<1>3. Untaken' = Untaken
  BY <1>1 DEF Untaken
<1>4. /\ ParticlesAt({"get", "set"})' = ParticlesAt({"get", "set"})
      /\ ParticlesAt({"get"})' = ParticlesAt({"get"})
  BY <1>1, <1>2 DEF ParticlesAt
<1>5. /\ {u \in Workers : pc'[u] # "done"} = {u \in Workers : pc[u] # "done"} \ {w}
      /\ w \in {u \in Workers : pc[u] # "done"}
  BY <1>1, <1>2
<1>6. Round' = Round
  BY <1>1 DEF Round
<1>7. \A b \in Actions \ {"Barrier"} : InRound(b)' = InRound(b)
  BY <1>1, <1>3, <1>4 DEF InRound, Actions
<1>8. InRound("Barrier")' = InRound("Barrier") \ {w} /\ w \in InRound("Barrier")
  BY <1>1, <1>5 DEF InRound
<1> QED
  BY <1>6, <1>7, <1>8, RoundInRange, StruckOffInRound DEF Actions

LEMMA SimpleStrikesOff ==
    ASSUME IInv, ApplySimpleForces
    PROVE  \E y \in WorkLeft : WorkLeft' = WorkLeft \ {y}
<1> USE DEF IInv
<1>1. /\ phase = "simple" /\ phase' = "pairwise"
      /\ chunk' \in Chunks /\ pc' = [w \in Workers |-> "loop"]
      /\ UNCHANGED <<iteration, started>>
  BY DEF ApplySimpleForces
<1>2. Untaken' = Particles
  BY <1>1 DEF Untaken, Chunks
<1>3. ParticlesAt({"get", "set"})' = {} /\ ParticlesAt({"get"})' = {}
  BY <1>1 DEF ParticlesAt
<1>4. {u \in Workers : pc'[u] # "done"} = Workers
  BY <1>1
<1>5. Round' = Round
  BY <1>1 DEF Round
<1>6. \A b \in Actions \ {"ApplySimpleForces"} : InRound(b)' = InRound(b)
  BY <1>1, <1>2, <1>3, <1>4 DEF InRound, WholeRound, Actions
<1>7. /\ InRound("ApplySimpleForces")' = InRound("ApplySimpleForces") \ {0}
      /\ 0 \in InRound("ApplySimpleForces")
  BY <1>1 DEF InRound, WholeRound
<1> QED
  BY <1>5, <1>6, <1>7, RoundInRange, StruckOffInRound DEF Actions

LEMMA TargettedStrikesOff ==
    ASSUME IInv, ApplyTargettedForces
    PROVE  \E y \in WorkLeft : WorkLeft' = WorkLeft \ {y}
<1> USE DEF IInv
<1>1. /\ phase = "pairwise" /\ \A w \in Workers : pc[w] = "done"
      /\ phase' = (IF started THEN "velocities" ELSE "loop") /\ started' = TRUE
      /\ UNCHANGED <<iteration, chunk, pc, it1>>
  BY DEF ApplyTargettedForces, threads
<1>2. Untaken = {}
  BY <1>1 DEF Untaken, HeldOnce
<1>3. ParticlesAt({"get", "set"}) = {} /\ ParticlesAt({"get"}) = {}
  BY <1>1 DEF ParticlesAt
<1>4. {u \in Workers : pc[u] # "done"} = {}
  BY <1>1
<1>5. Round' = Round
  BY <1>1 DEF Round
<1>6. \A b \in Actions \ {"ApplyTargettedForces"} : InRound(b)' = InRound(b)
  <2> SUFFICES ASSUME NEW b \in Actions \ {"ApplyTargettedForces"}
               PROVE  InRound(b)' = InRound(b)
    OBVIOUS
  <2>1. InRound(b) = IF b = "UpdateVelocities" /\ started THEN {0} ELSE {}
    BY <1>1, <1>2, <1>3, <1>4, LeftInPairwise DEF Actions
  <2>2. CASE started
    BY <1>1, <2>1, <2>2 DEF InRound, Actions
  <2>3. CASE ~started
    BY <1>1, <2>1, <2>3 DEF InRound, Actions
  <2> QED
    BY <2>2, <2>3
<1>7. /\ InRound("ApplyTargettedForces")' = InRound("ApplyTargettedForces") \ {0}
      /\ 0 \in InRound("ApplyTargettedForces")
  BY <1>1 DEF InRound
<1> QED
  BY <1>5, <1>6, <1>7, RoundInRange, StruckOffInRound DEF Actions

LEMMA VelocitiesStrikesOff ==
    ASSUME IInv, UpdateVelocities
    PROVE  \E y \in WorkLeft : WorkLeft' = WorkLeft \ {y}
<1> USE DEF IInv
<1>1. /\ phase = "velocities" /\ phase' = "loop" /\ started
      /\ iteration' = iteration + 1 /\ started' = started
  BY DEF UpdateVelocities, StepInTime
<1>2. Round' = Round
  BY <1>1 DEF Round
<1>3. \A b \in Actions \ {"UpdateVelocities"} : InRound(b)' = InRound(b)
  BY <1>1 DEF InRound, Actions
<1>4. /\ InRound("UpdateVelocities")' = InRound("UpdateVelocities") \ {0}
      /\ 0 \in InRound("UpdateVelocities")
  BY <1>1 DEF InRound
<1> QED
  BY <1>2, <1>3, <1>4, RoundInRange, StruckOffInRound DEF Actions

\* The first step of a round.
LEMMA MoveStrikesOff ==
    ASSUME IInv, InitialFirst, MoveParticles
    PROVE  \E y \in WorkLeft : WorkLeft' = WorkLeft \ {y}
<1> USE DEF IInv
<1>1. /\ phase = "loop" /\ phase' = "simple" /\ started /\ started' = started
      /\ iteration < EndTime /\ iteration' = iteration
  BY DEF MoveParticles, InitialFirst
<1>2. Round = iteration /\ Round' = iteration + 1 /\ iteration \in 0 .. EndTime
  BY <1>1 DEF Round, TypeOK
<1>3. PICK e \in Entries : e[1] = iteration + 1 /\ e[2] = "MoveParticles"
  <2>1. PICK n \in 0 .. EndTime : n = iteration + 1
    BY <1>1, <1>2
  <2>2. <<n, "MoveParticles">> \in Entries
    BY DEF Entries, Actions
  <2>3. <<n, "MoveParticles">>[1] = n /\ <<n, "MoveParticles">>[2] = "MoveParticles"
    OBVIOUS
  <2> QED
    BY <2>1, <2>2, <2>3
<1>4. \A r \in 0 .. EndTime : \A b \in Actions :
         /\ r < iteration + 1 => LeftFor(r, b) = {} /\ LeftFor(r, b)' = {}
         /\ r > iteration + 1 => LeftFor(r, b) = WholeRound(b) /\ LeftFor(r, b)' = WholeRound(b)
         /\ r = iteration + 1 => LeftFor(r, b) = WholeRound(b) /\ LeftFor(r, b)' = InRound(b)'
  BY <1>1, <1>2, LeftInLoop DEF LeftFor
<1>5. InRound("MoveParticles")' = {} /\ WholeRound("MoveParticles") = {0}
  BY <1>1 DEF InRound, WholeRound
<1>6. \A b \in Actions \ {"MoveParticles"} : InRound(b)' = WholeRound(b)
  BY <1>1 DEF InRound, WholeRound, Actions
<1>7. 0 \in LeftFor(e[1], e[2]) /\ LeftFor(e[1], e[2])' = LeftFor(e[1], e[2]) \ {0}
  BY <1>1, <1>2, <1>3, <1>4, <1>5 DEF Actions
<1>8. \A d \in Entries \ {e} : LeftFor(d[1], d[2])' = LeftFor(d[1], d[2])
  <2> SUFFICES ASSUME NEW d \in Entries \ {e}
               PROVE  LeftFor(d[1], d[2])' = LeftFor(d[1], d[2])
    OBVIOUS
  <2>1. d[1] \in 0 .. EndTime /\ d[2] \in Actions /\ d = <<d[1], d[2]>>
    BY DEF Entries
  <2>2. d[1] # iteration + 1 \/ d[2] # "MoveParticles"
    <3>1. e = <<e[1], e[2]>>
      BY DEF Entries
    <3> QED
      BY <1>3, <2>1, <3>1
  <2>3. d[1] < iteration + 1 \/ d[1] > iteration + 1 \/ d[1] = iteration + 1
    BY <1>2, <2>1
  <2> QED
    BY <1>4, <1>6, <2>1, <2>2, <2>3
<1> QED
  BY <1>3, <1>7, <1>8, StruckOff

\* Every step of a simulation that changes anything is one entry of the list of
\* its rounds, taken once and for good: in each round every particle is loaded
\* and stored once and every thread meets the barrier once, and no step makes
\* new work.  So a simulation cannot run on without coming closer to its end.
THEOREM EveryStepIsWork == Spec => [][\E y \in WorkLeft : WorkLeft' = WorkLeft \ {y}]_vars
<1>1. IInv /\ InitialFirst /\ [Next]_vars => [\E y \in WorkLeft : WorkLeft' = WorkLeft \ {y}]_vars
  <2> SUFFICES ASSUME IInv, InitialFirst, Next, ~UNCHANGED vars
               PROVE  \E y \in WorkLeft : WorkLeft' = WorkLeft \ {y}
    OBVIOUS
  <2>1. CASE \E w \in Workers : Step(w)
    BY <2>1, NextParticleStrikesOff, GetFStrikesOff, SetFStrikesOff, BarrierStrikesOff DEF Step
  <2>2. CASE Main
    BY <2>2, SimpleStrikesOff, TargettedStrikesOff, MoveStrikesOff, VelocitiesStrikesOff DEF Main
  <2> QED
    BY <2>1, <2>2 DEF Next, Terminated
<1> QED
  BY <1>1, Invariance, InitialFirstAlways, PTL DEF Spec

LEMMA WholeRoundWithin ==
    ASSUME NEW a \in Actions
    PROVE  WholeRound(a) \subseteq (Particles \cup Workers) \cup {0}
  BY DEF WholeRound, Actions

LEMMA WorkFinite == IInv => IsFiniteSet(WorkLeft)
<1> SUFFICES ASSUME IInv
             PROVE  IsFiniteSet(WorkLeft)
  OBVIOUS
<1> DEFINE All == (Particles \cup Workers) \cup {0}
<1>1. IsFiniteSet(All)
  <2>1. IsFiniteSet(Particles) /\ IsFiniteSet(Workers)
    BY FS_Interval DEF Particles, Workers
  <2>2. IsFiniteSet({0})
    BY FS_Singleton
  <2>3. IsFiniteSet(Particles \cup Workers)
    BY <2>1, FS_Union
  <2> QED
    BY <2>2, <2>3, FS_Union
<1>2. IsFiniteSet(Entries)
  <2>1. \A s : IsFiniteSet({s})
    BY FS_Singleton
  <2>2. \A s, t, u : IsFiniteSet(({s} \cup {t}) \cup {u})
    BY <2>1, FS_Union
  <2>3. Actions = (({"MoveParticles"} \cup {"ApplySimpleForces"}) \cup {"NextParticle"})
                    \cup (({"GetF"} \cup {"SetF"}) \cup {"Barrier"})
                    \cup (({"ApplyTargettedForces"} \cup {"UpdateVelocities"}) \cup {"Barrier"})
    BY DEF Actions
  <2>4. IsFiniteSet(Actions)
    BY <2>2, <2>3, FS_Union
  <2>5. IsFiniteSet(0 .. EndTime)
    BY FS_Interval
  <2> QED
    BY <2>4, <2>5, FS_Product DEF Entries
<1>3. ParticlesAt({"get"}) \subseteq Particles /\ ParticlesAt({"get", "set"}) \subseteq Particles
  BY DEF ParticlesAt, IInv, HeldOnce, AtHand
<1>4. Untaken \subseteq Particles
  BY DEF Untaken, IInv, TypeOK
<1>5. \A a \in Actions : InRound(a) \subseteq All
  <2> SUFFICES ASSUME NEW a \in Actions
               PROVE  InRound(a) \subseteq All
    OBVIOUS
  <2>1. CASE phase = "simple"
    BY <2>1, LeftInSimple DEF Actions
  <2>2. CASE phase = "pairwise"
    BY <1>3, <1>4, <2>2, LeftInPairwise DEF Actions
  <2>3. CASE phase = "velocities"
    BY <2>3, LeftInVelocities
  <2>4. CASE phase = "loop"
    BY <2>4, LeftInLoop
  <2> QED
    BY <2>1, <2>2, <2>3, <2>4 DEF IInv, TypeOK
<1>6. \A r, a : a \in Actions => LeftFor(r, a) \subseteq All
  BY <1>5, WholeRoundWithin DEF LeftFor
<1>7. \A e \in Entries : LeftFor(e[1], e[2]) \subseteq All
  BY <1>6 DEF Entries
<1> HIDE DEF All
<1>8. WorkLeft \subseteq Entries \X All
  BY <1>7 DEF WorkLeft
<1>9. IsFiniteSet(Entries \X All)
  BY <1>1, <1>2, FS_Product
<1> QED
  BY <1>8, <1>9, FS_Subset

LEMMA FinishedWhenDone == IInv => (Finished <=> WorkLeft = {})
<1> SUFFICES ASSUME IInv
             PROVE  Finished <=> WorkLeft = {}
  OBVIOUS
<1>1. iteration \in 0 .. EndTime /\ Round \in 0 .. EndTime
  BY RoundInRange
<1>2. ASSUME Finished
      PROVE  WorkLeft = {}
  <2>1. Round = EndTime /\ phase = "loop"
    BY <1>2 DEF Finished, Round
  <2>2. \A r \in 0 .. EndTime : \A a \in Actions : LeftFor(r, a) = {}
    BY <2>1, LeftInLoop DEF LeftFor
  <2>3. \A e \in Entries : LeftFor(e[1], e[2]) = {}
    BY <2>2 DEF Entries
  <2> QED
    BY <2>3 DEF WorkLeft
<1>3. ASSUME NEW r \in 0 .. EndTime, NEW a \in Actions, LeftFor(r, a) # {}
      PROVE  WorkLeft # {}
  <2>1. PICK x : x \in LeftFor(r, a)
    BY <1>3
  <2>2. <<r, a>> \in Entries /\ <<r, a>>[1] = r /\ <<r, a>>[2] = a
    BY DEF Entries
  <2>3. <<<<r, a>>, x>> \in WorkLeft
    BY <2>1, <2>2 DEF WorkLeft
  <2> QED
    BY <2>3
<1>4. ASSUME ~Finished
      PROVE  WorkLeft # {}
  <2>1. CASE phase = "simple" \/ phase = "pairwise"
    <3>1. InRound("ApplyTargettedForces") = {0}
      BY <2>1, LeftInSimple, LeftInPairwise
    <3>2. LeftFor(Round, "ApplyTargettedForces") # {}
      BY <1>1, <3>1 DEF LeftFor
    <3> QED
      BY <1>1, <1>3, <3>2 DEF Actions
  <2>2. CASE phase = "velocities"
    <3>1. InRound("UpdateVelocities") = {0}
      BY <2>2, LeftInVelocities DEF Actions, IInv, StepInTime
    <3>2. LeftFor(Round, "UpdateVelocities") # {}
      BY <1>1, <3>1 DEF LeftFor
    <3> QED
      BY <1>1, <1>3, <3>2 DEF Actions
  <2>3. CASE phase = "loop"
    <3>1. iteration < EndTime /\ Round = iteration
      BY <1>1, <1>4, <2>3 DEF Finished, Round
    <3>2. LeftFor(EndTime, "MoveParticles") = {0}
      BY <1>1, <3>1 DEF LeftFor, WholeRound
    <3> QED
      BY <1>1, <1>3, <3>2 DEF Actions
  <2> QED
    BY <2>1, <2>2, <2>3 DEF IInv, TypeOK
<1> QED
  BY <1>2, <1>4

\* The number of steps the simulation still has to take.
StepsLeft == Cardinality(WorkLeft)

\* The simulation has a variant: a natural number that every step lowers by one
\* and that is 0 exactly at the end time.
THEOREM StepsLeftCountDown ==
    Spec => /\ [](StepsLeft \in Nat /\ (Finished <=> StepsLeft = 0))
            /\ [][StepsLeft' = StepsLeft - 1]_vars
<1>1. IInv => StepsLeft \in Nat /\ (Finished <=> StepsLeft = 0)
  BY WorkFinite, FinishedWhenDone, FS_CardinalityType, FS_EmptySet DEF StepsLeft
<1>2. IInv /\ [\E y \in WorkLeft : WorkLeft' = WorkLeft \ {y}]_vars
        => [StepsLeft' = StepsLeft - 1]_vars
  <2> SUFFICES ASSUME IInv, NEW y \in WorkLeft, WorkLeft' = WorkLeft \ {y}
               PROVE  StepsLeft' = StepsLeft - 1
    OBVIOUS
  <2>1. StepsLeft' = Cardinality(WorkLeft \ {y})
    BY DEF StepsLeft
  <2> QED
    BY <2>1, WorkFinite, FS_RemoveElement DEF StepsLeft
<1> QED
  BY <1>1, <1>2, Invariance, EveryStepIsWork, PTL

\* A non-empty chunk has a next particle.
LEMMA LeastParticle ==
    ASSUME NEW T \in SUBSET Particles, T # {}
    PROVE  \E p \in T : \A q \in T : p <= q
<1> SUFFICES ASSUME \A p \in T : \E q \in T : q < p
             PROVE  FALSE
  BY DEF Particles
<1>1. T \subseteq Nat
  BY DEF Particles
<1> DEFINE Below == {m \in Nat : \A p \in T : p > m}
<1>2. 0 \in Below
  BY DEF Particles
<1>3. \A m \in Nat : m \in Below => m + 1 \in Below
  <2> SUFFICES ASSUME NEW m \in Nat, \A p \in T : p > m
               PROVE  m + 1 \in Below
    OBVIOUS
  <2>1. ASSUME NEW p \in T
        PROVE  p > m + 1
    <3>1. PICK q \in T : q < p
      OBVIOUS
    <3> QED
      BY <1>1, <3>1
  <2> QED
    BY <2>1
<1>4. \A m \in Nat : m \in Below
  <2> HIDE DEF Below
  <2> QED
    BY <1>2, <1>3, NatSet
<1>5. PICK p : p \in T
  OBVIOUS
<1> QED
  BY <1>1, <1>4, <1>5

\* A static schedule exists for every number of particles and threads.
LEMMA ChunksExist == Chunks # {}
<1> DEFINE share == [w \in Workers |-> IF w = 1 THEN Particles ELSE {}]
<1>1. share \in [Workers -> SUBSET Particles]
  OBVIOUS
<1>2. 1 \in Workers
  BY DEF Workers
<1>3. UNION {share[w] : w \in Workers} = Particles
  BY <1>2
<1>4. \A a, b \in Workers : a < b => \A p \in share[a], q \in share[b] : p < q
  <2> SUFFICES ASSUME NEW a \in Workers, NEW b \in Workers, a < b
               PROVE  share[b] = {}
    BY Zenon
  <2>1. b # 1
    BY DEF Workers
  <2> QED
    BY <2>1
<1>5. share \in Chunks
  BY <1>1, <1>3, <1>4 DEF Chunks
<1> QED
  BY <1>5

\* Until its end time the simulation is never stuck: the program has its next
\* call before it, or a thread of the parallel loop its next step.
THEOREM NeverStuck ==
    Spec => [](Finished \/ MainCanGoOn \/ \E w \in Workers : ThreadCanGoOn(w))
<1>1. IInv => Finished \/ MainCanGoOn \/ \E w \in Workers : ThreadCanGoOn(w)
  <2> SUFFICES ASSUME IInv, ~Finished, ~MainCanGoOn
               PROVE  \E w \in Workers : ThreadCanGoOn(w)
    OBVIOUS
  <2>1. phase = "pairwise"
    BY ChunksExist, RoundInRange DEF IInv, TypeOK, MainCanGoOn, Finished
  <2>2. PICK w \in Workers : pc[w] # "done"
    BY <2>1 DEF MainCanGoOn
  <2>3. pc[w] \in {"loop", "get", "set"} /\ chunk[w] \in SUBSET Particles
    BY <2>2 DEF IInv, TypeOK
  <2> QED
    BY <2>3, LeastParticle DEF ThreadCanGoOn
<1> QED
  BY <1>1, Invariance, PTL

\* The list at the start: the steps of EndTime + 1 rounds, of which the first
\* one, that of the initial forces, moves nothing.
THEOREM WorkAtStart ==
    Init => WorkLeft =
        UNION {{e} \X WholeRound(e[2]) :
                  e \in Entries \ {<<0, "MoveParticles">>, <<0, "UpdateVelocities">>}}
<1> SUFFICES ASSUME Init
             PROVE  WorkLeft =
                        UNION {{e} \X WholeRound(e[2]) :
                                  e \in Entries \ {<<0, "MoveParticles">>, <<0, "UpdateVelocities">>}}
  OBVIOUS
<1>1. phase = "simple" /\ ~started /\ Round = 0
  BY DEF Init, Round
<1>2. \A e \in Entries :
         LeftFor(e[1], e[2]) =
             IF e \in {<<0, "MoveParticles">>, <<0, "UpdateVelocities">>} THEN {} ELSE WholeRound(e[2])
  <2> SUFFICES ASSUME NEW r \in 0 .. EndTime, NEW a \in Actions
               PROVE  LeftFor(r, a) =
                          IF r = 0 /\ a \in {"MoveParticles", "UpdateVelocities"}
                          THEN {} ELSE WholeRound(a)
    BY DEF Entries
  <2>1. CASE r = 0
    <3>1. LeftFor(r, a) = InRound(a)
      BY <1>1, <2>1 DEF LeftFor
    <3>2. InRound(a) = IF a \in {"MoveParticles", "UpdateVelocities"} THEN {} ELSE WholeRound(a)
      BY <1>1, LeftInSimple DEF Actions, WholeRound
    <3> QED
      BY <2>1, <3>1, <3>2
  <2>2. CASE r > 0
    BY <1>1, <2>2 DEF LeftFor
  <2> QED
    BY <2>1, <2>2
<1> QED
  BY <1>2 DEF WorkLeft

=============================================================================
