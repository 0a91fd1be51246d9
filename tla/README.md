# A verification development for MolSim

MolSim is a molecular dynamics simulation: particles in a container, forces
between them, a Verlet integrator, OpenMP loops, input files, frames and
checkpoints.  This directory holds TLA+ modules that model the parts of it whose
correctness is about control (the parallel force loops, the references the cells
keep into a vector that grows and shrinks, restarts from checkpoints, nested
simulations, sampling files, the way of a particle through the file formats),
the TLC configurations that check them, and proofs that TLAPS checks.

Names such as `LinkedCellsContainer.cpp` are files below the repository's `src/`.

    tlc -config MC_v1.cfg MCPairwiseForces.tla      # any run of PROJECT.json
    tlapm PairwiseForcesProofs.tla                  # all proofs of a module

`PROJECT.json` lists components, runs, mutants, the source lines of every
definition, hazards, findings and theorems.

## 1. Inventory

| component | state | operations | talks to | modules |
|---|---|---|---|---|
| `LinkedCellsContainer`, the grid | `cells`, `halo_*` and `boundary_*` reference lists per side, neighbour lists, `iteration_orders` | constructor: `initCells`, `initCellNeighbourReferences`, `initIterationOrders` | read by everything below | `CellGrid`, `GridConstruction` |
| `LinkedCellsContainer`, the pairwise loop | the forces of the particles, `mutex_f` per particle (PARALLEL_V2) | `applyPairwiseForces` | OpenMP threads share the particles | `PairwiseForces` |
| `LinkedCellsContainer`, particles and references | vector `particles`, per cell `particle_references` (pointers into the vector) | `addParticle`, `reserve`, `prepareForceCalculation`, ghosts added and erased around the loop | `OutflowBoundaryType`, `PeriodicBoundaryType` change the vector under the references | `LinkedCells` |
| `ReflectiveBoundaryType` | none | adds a mirror force to particles of boundary cells | called by `applyPairwiseForces` | `LinkedCells` |
| `DirectSumContainer` | vector `particles` | `applyPairwiseForces` over static chunks | OpenMP threads read all positions | `DirectSum` |
| `VerletFunctor` | none | `step`: positions, force passes, velocities | drives the container | `DirectSum`, `LinkedCells` |
| `Particle` | position, velocity, force, old force, lock state, connections | getters, setters, `addF`, `subF` | | `PairwiseForces`, `SimulationInput` |
| `Simulation` | iteration, simulated time | constructor, `runSimulation` | calls interceptors before, during and after the loop | `CheckpointRestart`, `Statistics`, `SubSimulations`, `DirectSum` |
| frame writers and checkpoints | files of the output directory | `FileOutputHandler`, `CheckPointWriter`, `ChkptPointFileReader`, `loadLatestValidCheckpointFromFolder` | survive the process; compared with the input file by hash | `CheckpointRestart` |
| sub simulations | a folder with a checkpoint as cache | recursion in `prepareParticles` | a nested `Simulation` | `SubSimulations` |
| thermostats | target temperature | scaling on every n-th iteration | called after the frame writers | `Statistics` |
| sampling interceptors | CSV files, samples of positions | diffusion, temperature, radial distribution, velocity profile | append after a restart | `Statistics` |
| XML bindings | a tree per document | a parse function and an `operator<<` per type | generated from the schemas | `XMLTree`, `SimulationInputSchema`, `CheckpointSchema`, `VTUFileSchema` |
| XML adapters, spawners, soft bodies | none | conversions that may refuse, loops over places | readers and writers | `SimulationInput` |
| force laws, command line, logging, XYZ format | none | formulas, text | | not modelled |

What is hard in this code, and what makes it correct:

* *Interleaving.*  Without locks (the default build) the threads of
  `applyPairwiseForces` rely on the spacing (2, 3, 3) of the cells of one order
  and on the implicit barrier between orders; the argument needs the pointer
  comparison of line 148, because without it a spacing of 3 would be needed on x.
  In the PARALLEL_V2 build they rely on one mutex per particle.  In the direct sum
  they rely on the chunks.  Correct means: no two threads update one force at the same
  time, and every pair of particles is accounted for exactly once.
* *Stale references.*  Cells keep raw pointers into `particles`, while `push_back`
  reallocates it and `erase` shifts it.  Correct means: whenever forces are
  computed every cell references the particles inside of it and nothing dangles,
  ghosts never survive the loop, and preparing a step removes or moves what has
  left the domain and nothing else.
* *Boundaries of numbers.*  Number of cells, strides and offsets, negative
  coordinates, ghosts and walls at sides, edges and corners; temperatures of zero.
* *Crashes.*  A simulation is continued from files a dead process has left.  Correct
  means: it continues the latest complete checkpoint of the present input file,
  never mixes runs, does what is due once, uses results of sub simulations only
  if they are final, and is not stopped for good by a crash.
* *Formats.*  The generated parsers stop at the first element they do not know, without an
  error.  Correct means: what was said or saved is there after reading, or is refused.

## 2. The modules

| module | models | kind |
|---|---|---|
| `CellGrid` | the grid as sets: cells, index, sides, neighbours, iteration orders, footprints | pure definitions |
| `GridConstruction` | the constructor's loops, body by body | state machine, shows that the loops build what `CellGrid` defines |
| `ForceAccumulation` | what a force pass promises: every contribution is added exactly once, and the pass ends | abstract specification |
| `PairwiseForces` | the parallel loop of the linked cells, both builds | state machine, implements `ForceAccumulation` |
| `DirectSum` | a simulation with the direct sum: all steps, with the three kinds of forces and the parallel loop | state machine, implements `ForceAccumulation` |
| `LinkedCells` | particles and references through setup and steps, with the three boundary types | state machine |
| `CheckpointRestart` | `runSimulation` with two frame writers and a thermostat, restarts | state machine |
| `Statistics` | thermostat and sampling interceptors, restarts | state machine |
| `SubSimulations` | nested simulations with their cached results, restarts | state machine |
| `XMLTree`, `SimulationInputSchema`, `CheckpointSchema`, `VTUFileSchema` | documents, the form of the generated parsers, the tables that fill it | pure definitions |
| `SimulationInput` | input file, particles, checkpoint, frame and back | state machine |
| `MC...` | small instances | |
| `...Proofs` | theorems about the module of that name | |

`CellGrid` is shared: `GridConstruction` checks it against the constructor, and
`PairwiseForces` and `LinkedCells` use it.  So a cell is its coordinates, and a
reference to a cell (a pointer in the code) is an index or the coordinates again;
`cells` is reserved up front, so those pointers never move.  The three modules about restarts
share their shape (what survives, what a process has, one action per call of an
interceptor) and divide the detail between them, so that each stays small: torn files and removals
in `CheckpointRestart`, the recursion in `SubSimulations`, the sensors in `Statistics`.

Definitions whose comment begins with "Mutant" are slips of the definition that
follows them; no specification uses them.  `PROJECT.json` pairs each with the
property that breaks under it.

### PairwiseForces

The particles are where they are: `host` is their cell, chosen once (`Placements`),
`Far` the pairs of neighbouring particles beyond the cutoff radius, `Locked` the
locked particles.  A thread takes a cell of the current order (`TakeCell`, dynamic
schedule), processes its pairs one at a time (`NextPair`), and each pair is an
`addF` on one particle and a `subF` on the other.  Each of the two is a load and a
store (`BeginAddF`, `EndAddF`, ...), because `f = f + force` is not atomic; with
PARALLEL_V2 the load takes the mutex and the store releases it.  A force is
represented by the contributions it contains: `f[p][q]` counts how often the
force of `q` on `p` is in it, so a lost update and a double update both show.
`NextOrder` is the implicit barrier.

* `NoDataRace`: no two threads are inside an update of the same particle.
* `DisjointFootprints`: without locks the threads work on disjoint sets of cells.
* `IInv`: the inductive invariant (section 5), checked here before it was proved.
* `AccumulatesOnce`: refinement of `ForceAccumulation`, with its liveness, that is: the
  loop ends, and then every contribution is there exactly once.

Fairness is weak fairness of each thread's steps: OpenMP gives each thread of the
team a core or the scheduler's time slices, and a `std::mutex` is granted to some
waiting thread.  Weak fairness is enough since a mutex is held for two steps only,
and nothing is ever waited for while one is held.

### DirectSum

`phase` is the next call of `runSimulation` or `VerletFunctor::step`, `chunk` what a thread of
`schedule(static)` has left; the inner loop sums up on its own (`NextParticle`), then `GetF` and
`SetF` are the two halves of `setF(getF() + total_force)`.  Forces and velocities are counts
of contributions by source: the partners, the simple force, the targetted force.

* `AccumulatesOnce`: refinement of the same `ForceAccumulation` in every step, with liveness.
* `VelocitiesSumUp`: after n steps the velocity holds the half-sums of old and new forces the
  integrator promises, the targetted one taken at the time the step began, locked particles
  excepted.  A force that is reset too early, too late or not at all shows here.

Fairness is weak fairness of the main thread and of each worker, with the same reason.

### LinkedCells

A reference is the slot it points to together with the capacity the vector had when
it was taken: capacities only grow, so a reference dangles exactly if the two
capacities differ, and it may still name the wrong particle when `erase` has shifted
the vector.  `PrepareForceCalculation` is the whole of `prepareForceCalculation`
(references, outflow, periodic, references), `ApplyBoundaryConditions` lets the walls push and adds
the ghosts one by one with their reallocations, `RemoveGhosts` is the end of the loop.
`Visits` is the order in which a list of cells visits its references, `VisitsAtSides` the visits of the
sides with one boundary condition, one side after the other; walls, removals and teleports are
folds over them.  The moves and the positions particles start at are sets of integer vectors, any
at all, on and off the grid.  Iterators behind the end are undefined behaviour: the model lets the vector lose its
last particle (what libstdc++ does) or stops in `undefined`; an erase on an empty
vector always stops there.

* `ReferencesExact`, `GhostsAreTemporary`, `ClosedDomainConserves` (section 1).
* `ImagesActOnce`: every periodic image within the cutoff radius acts on a particle
  exactly once, as long as no axis is shorter than the cutoff radius.  The reference is a definition over all images of the infinite
  periodic domain, the code looks at adjacent cells and copies of boundary cells.
* `WallsPushOnce`: a wall pushes the unlocked particles within its reach, once each, in a corner both
  walls do.  Its reach ends with the layer of cells next to it (`InLayer`), and a particle that has
  passed the wall is not pushed any more, other than `ReflectiveBoundaryType.h` says (section 3).
* `PreparesExactly`: as long as no reference is used that an erase has invalidated
  (`NoStaleReferenceUsed`), a step removes exactly the particles that left through
  OUTFLOW sides and wraps exactly those that left through PERIODIC sides, and throws
  exactly if one jumped over the halo.  `lc_outflow` shows what happens otherwise.

### CheckpointRestart

`input` (the input file's content stands for its hash; hashes are assumed not to
collide) and `files` (the output directory) survive, everything else is lost in `Crash`.
A process reads the input file several times, and an edit may come between any two of them: `Start`
parses it, `HashInput` reads it again for `input_file_hash`, and each checkpoint that is opened, from the last
one down, compares its own hash with what the file contains by then (`FindCheckpoint`, `SkipCheckpoint`,
`FailToRead`, and `FindNone` behind the last).  `Continue` and `StartOver` are the answers to the question;
a checkpoint that was found is loaded whatever edit has come since.  Particles are `mixed`, a
history variable nothing looks at, once they have passed through a process that was between its first read and
the end of its search when the file was edited.  `RemoveFile` is one
`std::filesystem::remove` of `FileOutputHandler`'s loop, `OpenFile`
and `CloseFile` the two ends of a `writeFile`, so that a crash leaves a torn file.  A step is
deterministic, so the particles are represented by their history.  `Step` and `LeaveLoop`
overlap in one iteration since `simulated_time` is a rounded sum.  Both orders of the two
frame writers are initial states.

* `RunIsOfItsInput`, `OutputIsOfThisRun`: no mixture of runs, after any sequence of crashes
  and edits, except for particles that are `mixed`, where it does happen: an edit between the parse
  and the hash labels the checkpoints of the old content with the hash of the new one.  Only frames whose
  writer comes after that of the checkpoints are promised to be of the same input: with the other order a
  crash during the removal, followed by an edit back, does leave a foreign frame.
* `NothingMissed`: since its start the process has written and scaled all that was due.
* `ProgressIsKept`: the last complete checkpoint is lost in three named cases only: a simulation starts
  from scratch, the last checkpoint is written again at the end, or particles are `mixed`.
* `FinishesUnlessTorn`: with finitely many crashes the simulation finishes, unless a torn
  checkpoint is in the way.  Fairness: the process is scheduled, and the user starts an
  unfinished simulation again and answers the question somehow.

### Statistics

Six interceptors in the order `convertToSimulationInterceptors` gives them; `turn` is the one that
is called.  Of the particles the module keeps number and temperature (in whole units, moving by at
most one between iterations, `NaN` once particles at rest have been scaled).  `rows` counts the
samples of every iteration in every CSV file, which survive; `continued`, `unlike` and `unseen` are history.
A sensor may have nothing to write (`Observations`): the radial distribution function without a
pair of particles, the velocity profile without a particle in its box.  The particles may get
fewer down to none, and then have no temperature.

* `SamplesComplete`: every due iteration has its sample, or the sensor had nothing to write then (`unseen`),
  except one the simulation was continued from, because the checkpoint is written before the sensors have their turn.
* `OncePerProcess`: no sample is there more often than processes have passed its iteration,
  and one more at the end.
* `TemperatureIsRegulated`: the temperature reaches the target at the allowed pace and
  stays near it; a crash costs one application at most.
* `DiffusionComparesLike`, `ContinuedFails`: the mean square displacement compares the same
  particles, and what becomes of a continued simulation that has a diffusion function: it ends with an
  exception at the first sample that is due, unless it has no particle left.

### SubSimulations

The recursion of `prepareParticles` is a stack of calls.  `disk` maps folders to their checkpoints;
particles are groups that remember the simulations they went through.  In `Continue`
and `UseCached` the search for a checkpoint and its use are one step: only an edit can come in
between, and it does not change what was found.  The hash, which the code takes from a second
read of the file, is a step of its own.

* `NothingLostOrDoubled`: every simulation consists of exactly what its files say, whether
  run, cached or continued.  What they say is `Origins(file)`: its own spawners and behind them
  everything its sub simulations consist of, in their order (`OriginsWith` after the first n of them).
* `ResultsAreFinal`: sub simulations that write no checkpoints of their own are run to the end.
* `ResultsAreReused`: a saved result spares its run as long as the file is what it was.
* `FinishesUnlessTorn`: as above, with the same fairness.

### SimulationInput

A document is a tree of names; texts stand for their values.  The generated code has the same form for
each type, so the form (`Parse`, `Serialize`) is written once in `XMLTree` and the schema modules are
tables: which elements and attributes the parse function of a type looks for, in which order, how
often.  `ValidatesAs` is the validator, which is external code.  The actions read an input file that may have been edited
in one place (`Edited`: an element dropped, doubled, moved or changed, or one of a `Foreign` name put in
anywhere), simulate (every particle gets forces), write a checkpoint and a frame, edit the
checkpoint, and load it as a continued process or through a `check_point_loader` of the next file.

* `ValidIsReadCompletely`, `CheckpointIsReadCompletely`: nothing that a valid file says is
  dropped.  A checkpoint is not validated: one the schema would accept is read with all it says of the
  particles, any other one is refused or loses particles, and loses them only behind an element
  that is no particle.
* `CheckpointGivesParticlesBack`, `SpringsAreMutual`: both forces and all springs survive, and
  springs point at each other wherever their body is in the vector.
* `AcceptedIsReloadable`: the exception is a single particle without mass, which no
  spawner refuses and the checkpoint reader does.
* `FrameShowsTheCheckpoint`: the arrays of a frame have the announced lengths and the values
  of the checkpoint.

## 3. The runs

| run | instance | states | shows |
|---|---|---|---|
| `grid` | 3 x 4 x 3 cells plus halo | 4,351 | index, side lists, neighbours, orders are those of `CellGrid`; inner cells occur from 3 cells per axis on |
| `v1` | 2 x 2 cells of a plane with their halo, 3 particles anywhere, 2 threads | 230,716 | race freedom, disjoint footprints, exactly once, termination |
| `v2` | 4 particles in adjacent cells, 3 threads, mutexes | 270,614 | the same for PARALLEL_V2 |
| `direct` | 4 particles, 2 of them locked, 3 threads, 3 steps, a targetted force | 34,634 | the loop accumulates once in every step, velocities sum up |
| `lc` | 2 x 2 x 1 cells; all sides PERIODIC, a channel, a box; 3 particles, one locked | 191,410 | references, ghosts, images, walls, what a step removes and moves |
| `lc_outflow` | open square, 2 particles | violation | see below |
| `restart` | 4 iterations, 3 starts, 2 edits, 2 writers in both orders | 706,896 | section 2 |
| `restart_forces` | the same | violation | see below |
| `subsim` | main file with two sub simulations, one of them used twice, 3 starts, 2 edits | 526,813 | section 2 |
| `subsim_partial` | the same, the inner one writes checkpoints | violation | see below |
| `statistics` | 6 iterations, periods 1 to 4, 4 starts | 2,290,548 | section 2 |
| `input` | 5 input files with every element, one edit of one place, 2 runs | 51,139 | section 2 |

Bounds.  The halo adds two layers to each axis, so 2 cells per axis are 4 positions: cells
at distances 1, 2 and 3 exist, which are those the spacing (2, 3, 3) tells apart; larger grids
are covered by the theorems.  Three particles are a pair and a third one whose pairs
overlap with it; the mutexes need a fourth so that three threads contend.  In the direct sum
three steps are the first, which has the initial forces, one inside and one behind the window of
the targetted force, and 3 threads share 4 particles in every way, empty chunks included.  Two
particles per container are enough for one to be shifted by the erasure of the other; the third
is behind both.  `Reserved` is small so that ghosts reallocate the vector up to three
times; `Reach` is the width of a cell, so that a particle at that distance is in reach and no longer in the layer
at the wall.  Moves contain steps through sides and corners and one over the halo.  Three starts
are a first run, one that is continued, and one that continues or abandons a
continued one; the sensors need a fourth, which can come after a simulation was started from
scratch behind two continued ones.  Four iterations with checkpoints on every second one give an
intermediate, a last and a not due final iteration; six let the periods 2 (checkpoints, thermostat) and
3 (radial distribution, velocity profile) meet, and leave the final one not due for the diffusion function, whose
period is 4; the temperature has every iteration.  The simulation of the sensors has two particles, so that it can
lose the pair and then the last one.
A tree of three files has depth two and a result that two others use.  One edit per file suffices
for a parser without memory; two runs let the particles of one file become part of the next.

Deadlock is checked except in `input`, where the program ends when a file is refused or the
last run is over.

Disagreements between the code and what it says (`findings` in PROJECT.json):

* `lc_outflow`: `OutflowBoundaryType::pre` erases by slots that earlier erasures have
  shifted, and visits a particle in an edge of the halo once per side.  Two particles that
  leave in one step, or one through an edge, make it erase a particle inside.
* `restart_forces`: a continued simulation starts with twice the force.
* `subsim_partial`: an intermediate checkpoint that a crash has left in the folder of a sub
  simulation passes for its result.
* `statistics`: `ContinuedFails` holds, and is what nobody wants: the positions to compare with are
  not saved in a continued simulation, which then fails for a change of size that was none.
* `lc`: `WallsPushOnce` holds, although `ReflectiveBoundaryType.h` speaks of particles in halo
  cells: the code pushes those in boundary cells.
* `input`: `CheckpointIsReadCompletely` has to admit that a checkpoint of an invalid format may be
  loaded in part, although `FileFormatException` is there for it.
* `restart`: `RunIsOfItsInput` has to except `mixed` particles, although a checkpoint should carry the
  hash of what it was created from; without the exception TLC reports it violated.

Further observations, met while modelling and without a run of their own:

* The periodic teleport runs on references from before the outflow erasures and moves the
  wrong particle if both happen in one step; `NoStaleReferenceUsed` excludes it.
* A domain thinner than the cutoff radius gets one cell smaller than it, and images are missed;
  `ImagesActOnce` fails at once for such a grid.
* A truncated checkpoint ends every later start with an exception, though the loop around it
  logs "Skipping" for checkpoints it does not want; hence `...UnlessTorn`.
* A crash between two frame writers at one iteration leaves a checkpoint whose frame is
  never written.  Two writers of one format share their files.
* Particles at rest scaled by a thermostat have no temperature any more.
* The targetted force of a step is that of the time at its beginning; `VelocitiesSumUp` counts it so.
* A wall reaches no further than the cells next to it, however large its sigma is.
* The schema knows the format "none", which the adapter refuses.  An input file that includes
  itself recurses without end; indices of a targetted force are not compared with the
  number of particles; the check that soft bodies and OUTFLOW do not meet does not see
  bodies that come from a checkpoint.  Zero is accepted for `delta_t` and frame counts that are divisors.

Every property of a passing run has a mutant in `PROJECT.json`: a plausible slip in
one definition under which TLC reports it violated.

## 4. Abstractions

Data is reduced to what the properties tell apart: forces are counts of contributions,
positions integers (a cell has the width of a unit or two), velocities any displacement
from a set.  Floating-point rounding of positions is not modelled; the rounding of
`simulated_time` is, as two outcomes.  Cells are handled in one order in PARALLEL_V2, in which a thread may take any
cell that is left; that covers every shuffle.  Each read of the
input file is atomic, and no two reads are one step, except that `SubSimulations` finds and loads a
checkpoint at once.  The radial distribution function leaves out pairs of equal particles: two particles are
never equal here.  The thread
team is fixed during a force pass, as in OpenMP.  A number in a document is a whole one.

## 5. What is proved

All theorems hold for every value of the constants, under the assumptions the modules name
(sizes and periods are positive, targets are particles, there are finitely many input files and they
do not include each other in a circle, which the code would read without end).  One theorem about
`LinkedCells` has a hypothesis of its own, see there.

**Grid.**  `CellGridProofs`: the index is injective (`IndexInjective`); every cell is in exactly one
iteration order (`EveryCellInOneOrder`); two cells of one order have disjoint footprints
(`FootprintsDisjoint`).  The last one is the geometric heart: a cell writes to particles in
itself and in those neighbours that come before it in memory, so a common cell of two
footprints would have to be within one cell of both; on y and z the stride 3
forbids it, and on x a stride of 2 leaves only the case that the order in memory excludes.
`GridConstructionProofs`: `CellsFound`, `NeighboursLinked`, `SidesListed`, `OrdersPartition`.  The index of the
loops' cursor counts what has been done (`AdvanceIndex`: one step of the three nested loops is one
step of the index, and they end behind the last cell), so a cell is created where its index says, the
cell found for the cursor is the one at the cursor, and the list of a side has those cells
of its layer that come before the cursor.  The inner loops over `<<dx, dy, dz>>` come by the neighbours of
a cell in the same order, one at a time (`DeltaAdvances`), so under construction its references are those of
the neighbours that come before `delta`, each pushed back once (`LinkedSoFar`).  The strided loops of the iteration orders get the same argument
on a lattice: `OrderAdvances` says that nothing of an order lies between the cursor and where it goes
next, so an order under construction has those of its cells that come before the cursor
(`OrderLists`).  That the orders have no cell in common is `EveryCellInOneOrder`, and that flattening
them keeps this is an induction over the number of orders (`FlattenedLists`).

**PairwiseForces.**  `Invariance` proves `IInv`, and from it come
`TypeCorrect`, `RaceFree`, `CellsApart` and `ImplementsAccumulation`.  `IInv` is `TypeOK` and four
parts.  `CellsHeldOnce`: a cell is with at most one thread, and no
longer in the pool.  `MutexHeldInUpdate`: with locks, a thread inside an update holds that
particle's mutex.  `LoadedIsCurrent`: what a thread has loaded is still the particle's force, which is
where race freedom enters.  `Accounted`: for each pair of particles the counters say what the
state of its cell says: 0 while it waits, one of the two after `addF`, both after `subF`.  Neither
`NoDataRace` nor `TypeOK` is inductive alone: race freedom without locks follows from the
cells the threads hold and `FootprintsDisjoint`, and the bound of the counters from `Accounted`.
That the loop ends is proved up to fairness.  `WorkLeft` lists everything there is still to do, read off the state:
orders to start, cells to take and to finish, and of every pair the steps it has not made.  Every step takes exactly one
entry off it and adds none (`EveryStepIsWork`, `WorkAtStart`), so its size is a variant (`StepsLeftCountDown`).  And the
loop is never stuck (`NeverStuck`): who waits for a mutex waits for a thread between the load and the
store of that particle, which has its next step before it (`HoldersDoNotWait`).

**DirectSum.**  `TypeCorrect` and `ImplementsAccumulation` from an `IInv` of the same kind:
`HeldOnce` (no particle is with two threads, in a chunk or at hand), `LoadedIsCurrent`,
`AllOrNothing` (a particle has none of its pairwise forces before its turn and all of them
afterwards) and `StepInTime`.  The step mapping has one case per action; between force passes the
abstract specification starts again.  `VelocitiesExact` needs the second invariant `Integrated`: what the
forces and the old forces hold of every source in every phase of a step (`ForcesNow`; for the pairwise
sources it is `AllOrNothing`), and the sum of halves so far, also while a step is under way
(`VelocitiesNow`).  That the recursive sum
`HalvesUpTo` exists as a function is proved first (`HalvesExist`).  `EveryStepIsWork`, `WorkAtStart`,
`StepsLeftCountDown` and `NeverStuck` are as for `PairwiseForces`, over a whole simulation: the list
has the calls of every round that is still to come, and the loads, stores and barriers of its parallel loop.

**LinkedCells.**  `ReferencesStayExact`, `NoGhostStays`, `ClosedDomainKeepsParticles`,
`PreparationIsExact`, `EveryWallPushesOnce`, `EveryImageActsOnce`.  The invariant `Inv` is
`ReferencesExact`, the phases, and what may be in the vector: between the force calculations only real
particles (`Real`: identifiers occur once, and those that are locked were so from the start), during
one the same particles in the same slots (`Kept`) with ghosts behind them (`Extends`).  The properties
say nothing of the vector while the ghosts are in it, so the invariant has to, or nothing would be known of
what is left when they are erased; and the erasures and teleports of the next step are folds over
slots of a vector that must have the particles the references were taken of.
`EveryImageActsOnce` adds `GhostsExact`: behind `Kept` there is one locked copy per periodic direction
and particle of its source cells, and nothing else.  The loops over references and sides are
folds over sequences; what such a fold keeps is shown by its least counterexample, and `Visits`, a
`CHOOSE`, by the existence of the order it names.

One hypothesis is not in the code.  `EveryImageActsOnce` assumes `Cutoff <= DomainSize[a]` for each axis: the
constructor rounds the number of cells down but not below one, so a thinner domain has one cell smaller than the
cutoff radius, and images two domains away are missed; nothing refuses such a file (a hazard without a
property).  `EveryWallPushesOnce` holds for every reach of a wall: a particle is in the outermost
layer of cells exactly if it is in a boundary cell of that side, whether the reach is shorter than a cell or longer.

`PreparationIsExact` has the premise of its property, `NoStaleReferenceUsed`; what happens without it is
the run `lc_outflow`.

**CheckpointRestart.**  `RunsItsInput`, `OutputsAreOfThisRun`, `AllIsDone`, `ProgressKept`.  The
properties speak of a running process, so the invariant has to say what any crash leaves behind:
`OneSource` (up to one that is not mixed, all checkpoints of a folder are of one input), `TornIsLast` (only the last one can be
torn), `FramesMatch` and `FilesTrue` (a file is what its name and meta data say); and what
the process has done with it: `ReadsOneInput` (unless particles are mixed, all its reads of the input file gave
the same), `Search` (what it has passed over is readable and not of its input), `Continued`, `TornNow`, `Outputs`, `WrittenWhenDue`, `ScaledWhenDue`.
The order in which `FileOutputHandler` removes files, before the first is written, is what keeps
`OneSource`.  That a finite folder has a last checkpoint is shown by well-founded descent (`LargestExists`).
From the same invariant comes what a torn checkpoint means.  `FailsIfTorn`: the search fails if and only if
a checkpoint behind iteration 0 is torn, because the newest one is always opened, of whatever input it is.  `TornForever`: only a
crash while such a checkpoint is written brings that about, and as nothing but a simulation removes files, it
stays.  `EveryStepAdvances`: a process comes to an end, as each of its steps lowers `Ahead`, the list of what it has before
it (stages, halves of iterations, turns of the interceptors, its file, files to remove), in the lexicographic order, which
has no infinite descent (`LessWellFounded`).

**Statistics.**  `FilesComplete`, `SampledOncePerProcess`, `ComparesLike`, `ContinuedAreRefused`,
`Thermostatted`.  The invariant `Samples` ties
the rows to the last checkpoint: whatever process comes next, all samples up to the iteration before
it are there.  `OldPositions` bounds the saved positions by the particles the simulation began with.
`SampledOncePerProcess` counts forwards: `Room` says that the rows of an iteration and those the process
still has ahead of it never exceed what may be there, and that the same holds for a process that would continue
from the last checkpoint.  `Thermostatted` needs `Regulated`, the distance to the target in every phase, before
and after the turn of the thermostat, and for the temperature in the checkpoint: one application may be
lost per continuation, and no more, because the checkpoint is written before the thermostat's turn.

**SubSimulations.**  `ResultsFinal`, `ResultsReused`, `EverythingOnce`.  The invariant speaks of the folders and of the
stack: a checkpoint is of the file its folder is named after, and the last leg of each of its groups has
as many steps as its iteration says (`DiskOK`); only the innermost call runs, and the others wait with their
particles at 0 steps (`StackOK`); what counts as saved is in its folder (`ResultsSaved`), and a
folder that is being written has nothing saved (`FolderIsFree`), because a `FileOutputHandler` empties it
first.  Only the main simulation is ever continued: a sub simulation looks in
`output/.../name/name`, which only a file that includes itself could have written, and such a file is
read without end.  The assumption that files have a depth says so, and from it comes, by induction over
the depth, that `OriginsWith` exists as a function (`OriginsExist`).  `EverythingOnce` needs `Lineage`: the
innermost call has what its file says up to the sub simulations that are done (`Assembled`), every waiting
one lacks exactly the one that runs above it (`Waits`), and every checkpoint, complete or torn, has all
that its file says (`DiskLineage`).
From `Lineage` and the depth of files comes `RecursionIsBounded`: a waiting call is of a deeper file than the one above
it, so no file is on the stack twice.  With it, `EveryStepAdvances`: each call has a list of what it has ahead of it, the
calls are compared from main's on, and every step leaves less, be it that the innermost call goes on, that it calls
another one (its caller then has one sub simulation less) or that it returns.  This order has no infinite descent because the
stack is bounded (`SmallerWellFounded`).  `FailsOnlyIfTorn` is the other half: an error exit means a torn file.

The proofs of all steps have one lemma per action or group of actions and one step per conjunct.

Only model-checked:

* liveness (the termination parts of `AccumulatesOnce`, `FinishesUnlessTorn`): fairness and
  ENABLED are not in reach of the prover.  What is proved of it is the variant of every loop, and that the
  parallel ones are never stuck; left to TLC is that a fair behaviour takes the steps it can take;
* `SimulationInput`: documents are trees, read by recursive operators, which the prover does not
  support; the spawners and the springs go through `SelectSeq`, which it knows nothing about.

Every other property of a passing run is a theorem.

## 6. Not modelled

* Force laws (`LennardJonesForce`, `HarmonicForce`, gravity, ...): formulas without state.  Who
  acts on whom is modelled, the value is not.
* `deleteHaloParticles` and other members that nothing calls.
* The command line apart from `--fresh`, logging, the progress bar, the XYZ format.
* In the generated bindings: accessors, copies and DOM handling, which are the same for each type, and the
  parse functions of VTU frames, which nobody calls.  This is most of the text of the repository.
* `convertToForces`, `convertToVector`: copies.
* The random part of initial velocities, and the mean velocity the relative thermostat takes off.
* What is read as a number or a hash: parsing of literals, and collisions.

With more effort one could compose `LinkedCells` with `PairwiseForces` over one vector, so that a
thread's reference is one that `ReferencesExact` speaks of.
