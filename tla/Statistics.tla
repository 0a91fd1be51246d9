------------------------------ MODULE Statistics ------------------------------
(***************************************************************************)
(* The interceptors that measure and regulate a simulation, in the order   *)
(* in which convertToSimulationInterceptors puts them behind the writer of *)
(* the checkpoints: a thermostat with its temperature sensor, diffusion    *)
(* function, radial distribution function and velocity profile, with the   *)
(* CSV files of the last four (CSVWriter); and what becomes of them when   *)
(* the process dies and the simulation is continued.                       *)
(*                                                                         *)
(* Of the particles, this module knows their number and their temperature  *)
(* in whole units; between two iterations it changes by at most one.  No   *)
(* two particles are equal: the radial distribution function leaves out    *)
(* pairs that are.  A checkpoint is written at once: CheckpointRestart has *)
(* the torn ones.                                                          *)
(***************************************************************************)
EXTENDS Integers, Sequences, FiniteSets, FiniteSetsExt

CONSTANTS
    EndIteration,           \* the iteration after which the loop ends
    Frames,                 \* fps * video_length of the checkpoint writer
    Percent,                \* sample_every_x_percent of each sensor
    application_interval, target_temperature, max_temperature_change,
    Size,                   \* number of particles in the input file
    InitialTemperatures,
    MaxTemperature,         \* bound
    MaxStarts               \* bound: how often the program is started

Sensors == {"TEMPERATURE", "DIFFUSION", "RDF", "VELOCITY"}

ASSUME StatisticsAssumption ==
    /\ EndIteration \in Nat \ {0} /\ Frames \in Nat \ {0} /\ Percent \in [Sensors -> Nat]
    /\ application_interval \in Nat \ {0}
    /\ Size \in Nat \ {0} /\ MaxTemperature \in Nat
    /\ target_temperature \in 0 .. MaxTemperature /\ max_temperature_change \in Nat
    /\ InitialTemperatures \subseteq 0 .. MaxTemperature
    /\ MaxStarts \in Nat

VARIABLES
    pc,                     \* where the process is: see TypeOK
    turn,                   \* the interceptor that is being called
    start_iteration, iteration,
    temperature, size,      \* of the particles
    rows,                   \* the CSV files: sensor -> iteration -> its samples
    unseen,                 \* the iterations at which a sensor had nothing to write
    old_particle_positions, \* how many DiffusionFunctionInterceptor has saved
    last_sampled_iteration,
    saved,                  \* the last checkpoint that can be loaded
    continued,              \* the checkpoints processes have continued from, since
                            \* the first file of this simulation was written
    unlike,                 \* diffusion rows that do not compare like with like
    starts

files == <<rows, unseen, saved, continued, unlike>>
process == <<start_iteration, starts>>
sampled == <<old_particle_positions, last_sampled_iteration>>
particles == <<temperature, size>>
vars == <<pc, turn, iteration, process, particles, files, sampled>>

\* Not a number, and no temperature.
NaN == -1
None == [iteration |-> 0]

-----------------------------------------------------------------------------
(***************************************************************************)
(* When an interceptor is called                                           *)
(***************************************************************************)

Interceptors == <<"CHKPT", "THERMOSTAT", "TEMPERATURE", "DIFFUSION", "RDF", "VELOCITY">>

interceptor == Interceptors[turn]

\* ceil(end_time / delta_t), which some of them increment.
ExpectedIterations(who) ==
    EndIteration + IF who \in {"CHKPT", "TEMPERATURE", "DIFFUSION"} THEN 1 ELSE 0

EveryNth(who) ==
    CASE who = "CHKPT"      -> Max({ExpectedIterations(who) \div Frames, 1})
      [] who = "THERMOSTAT" -> application_interval
      [] OTHER              -> Max({1, (Percent[who] * ExpectedIterations(who)) \div 100})

\* Mutant: iterations are counted from the start of the process.
DueSinceStart(who, i) == (i - start_iteration) % EveryNth(who) = 0

\* SimulationInterceptor::notify
Due(who, i) == i % EveryNth(who) = 0

Called(phase, who) == pc = phase /\ who = interceptor

\* The next interceptor is called, or the loop over them ends.
NextTurn ==
    IF turn < Len(Interceptors) THEN turn' = turn + 1 /\ UNCHANGED pc
    ELSE turn' = 1 /\ pc' = IF pc = "ending" THEN "finished" ELSE "loop"

NoRows == [i \in 0 .. EndIteration |-> 0]

WriteRow == rows' = [rows EXCEPT ![interceptor][iteration] = @ + 1]

\* Whether a sensor finds anything to write: the radial distribution function a
\* pair of particles, the velocity profile a particle in its box.
Observations ==
    CASE interceptor = "RDF"      -> {size > 1}
      [] interceptor = "VELOCITY" -> IF size = 0 THEN {FALSE} ELSE BOOLEAN
      [] OTHER                    -> {TRUE}

-----------------------------------------------------------------------------
(***************************************************************************)
(* The process                                                             *)
(***************************************************************************)

Init ==
    /\ pc = "down" /\ turn = 1
    /\ start_iteration = 0 /\ iteration = 0
    /\ temperature \in InitialTemperatures /\ size = Size
    /\ rows = [s \in Sensors |-> NoRows] /\ unseen = [s \in Sensors |-> {}]
    /\ old_particle_positions = 0 /\ last_sampled_iteration = 0
    /\ saved = None /\ continued = <<>> /\ unlike = {} /\ starts = 0

StartProcess ==
    /\ pc \in {"down", "finished", "failed"}
    /\ starts < MaxStarts
    /\ starts' = starts + 1
    /\ pc' = "starting" /\ turn' = 1
    /\ old_particle_positions' = 0 /\ last_sampled_iteration' = 0

\* The particles of the input file.
StartFromScratch ==
    /\ StartProcess
    /\ start_iteration' = 0 /\ iteration' = 0
    /\ temperature' \in InitialTemperatures /\ size' = Size
    /\ UNCHANGED files

\* The particles of the last checkpoint.
Continue ==
    /\ StartProcess
    /\ saved # None
    /\ start_iteration' = saved.iteration /\ iteration' = saved.iteration
    /\ temperature' = saved.temperature /\ size' = saved.size
    /\ continued' = Append(continued, saved.iteration)
    /\ UNCHANGED <<rows, unseen, saved, unlike>>

\* What the forces and OUTFLOW boundaries do to the particles in one iteration.
\* Without particles, the temperature is 0 / 0.
Moved(t) == IF t = NaN THEN {NaN} ELSE {t - 1, t, t + 1} \cap 0 .. MaxTemperature

Step ==
    /\ pc = "loop" /\ iteration < EndIteration
    /\ iteration' = iteration + 1
    /\ size' \in {size, size - 1} \cap 0 .. Size
    /\ temperature' \in IF size' = 0 THEN {NaN} ELSE Moved(temperature)
    /\ pc' = "notifying"
    /\ UNCHANGED <<turn, process, files, sampled>>

LeaveLoop ==
    /\ pc = "loop" /\ iteration = EndIteration
    /\ pc' = "ending"
    /\ UNCHANGED <<turn, iteration, process, particles, files, sampled>>

Crash ==
    /\ pc \in {"starting", "loop", "notifying", "ending"}
    /\ starts < MaxStarts
    /\ pc' = "down"
    /\ UNCHANGED <<turn, iteration, process, particles, files, sampled>>

Over ==
    /\ pc \in {"finished", "failed"} /\ starts = MaxStarts
    /\ UNCHANGED vars

-----------------------------------------------------------------------------
(***************************************************************************)
(* The interceptors                                                        *)
(***************************************************************************)

\* FrameWriterInterceptor: the files of a former simulation are removed, or it
\* is notified.  The checkpoint of iteration 0 is never loaded.
WriteCheckpoint ==
    /\ \/ Called("starting", "CHKPT") /\ start_iteration = 0
       \/ Called("notifying", "CHKPT") /\ Due("CHKPT", iteration)
       \/ Called("ending", "CHKPT")
    /\ IF iteration = 0 THEN saved' = None /\ continued' = <<>>
       ELSE /\ saved' = [iteration |-> iteration, temperature |-> temperature, size |-> size]
            /\ UNCHANGED continued
    /\ NextTurn
    /\ UNCHANGED <<iteration, process, particles, rows, unseen, unlike, sampled>>

Distance(t) == IF t < target_temperature THEN target_temperature - t
               ELSE t - target_temperature

\* Mutant: the temperature is changed in the wrong direction above the target.
ScaledUpwards(t) ==
    IF t = NaN \/ t = 0 THEN NaN
    ELSE Min({t + Min({Distance(t), max_temperature_change}), MaxTemperature})

\* Velocities at rest are multiplied by sqrt(new / 0), which gives NaN.
Scaled(t) ==
    IF t = NaN \/ t = 0 THEN NaN
    ELSE LET temperature_change == Min({Distance(t), max_temperature_change})
         IN  IF target_temperature > t THEN t + temperature_change ELSE t - temperature_change

ScaleTemperature ==
    /\ Called("notifying", "THERMOSTAT") /\ Due("THERMOSTAT", iteration)
    /\ temperature' = Scaled(temperature)
    /\ NextTurn
    /\ UNCHANGED <<iteration, process, size, files, sampled>>

\* The rows of one sample, or none.
TakeSample ==
    \E observed \in Observations :
        IF observed THEN WriteRow /\ UNCHANGED unseen
        ELSE unseen' = [unseen EXCEPT ![interceptor] = @ \cup {iteration}] /\ UNCHANGED rows

\* Mutant: a sample at the start, also of a continued simulation.
InitializeAlways ==
    /\ pc = "starting" /\ interceptor \in Sensors \ {"DIFFUSION"}
    /\ IF start_iteration # 0 THEN TakeSample
       ELSE \E observed \in Observations :
              /\ rows' = [rows EXCEPT ![interceptor] =
                            [NoRows EXCEPT ![0] = IF observed THEN 1 ELSE 0]]
              /\ unseen' = [unseen EXCEPT ![interceptor] = IF observed THEN {} ELSE {0}]
    /\ NextTurn
    /\ UNCHANGED <<iteration, process, particles, saved, continued, unlike, sampled>>

\* onSimulationStart: CSVWriter overwrites the file, and the first sample is
\* written; or it appends to the file.
Initialize ==
    /\ pc = "starting" /\ interceptor \in Sensors \ {"DIFFUSION"}
    /\ IF start_iteration # 0 THEN UNCHANGED <<rows, unseen>>
       ELSE \E observed \in Observations :
              /\ rows' = [rows EXCEPT ![interceptor] =
                            [NoRows EXCEPT ![0] = IF observed THEN 1 ELSE 0]]
              /\ unseen' = [unseen EXCEPT ![interceptor] = IF observed THEN {} ELSE {0}]
    /\ NextTurn
    /\ UNCHANGED <<iteration, process, particles, saved, continued, unlike, sampled>>

\* Notified, or, if it is not the velocity profile, at the end.
Sample ==
    /\ interceptor \in Sensors \ {"DIFFUSION"}
    /\ \/ pc = "notifying" /\ Due(interceptor, iteration)
       \/ pc = "ending" /\ interceptor # "VELOCITY"
    /\ TakeSample
    /\ NextTurn
    /\ UNCHANGED <<iteration, process, particles, saved, continued, unlike, sampled>>

\* DiffusionFunctionInterceptor::onSimulationStart
InitializeDiffusion ==
    /\ Called("starting", "DIFFUSION")
    /\ IF start_iteration = 0
       THEN /\ rows' = [rows EXCEPT !["DIFFUSION"] = NoRows]
            /\ unlike' = {}
            /\ old_particle_positions' = size
       ELSE UNCHANGED <<rows, unlike, old_particle_positions>>
    /\ last_sampled_iteration' = (start_iteration \div EveryNth("DIFFUSION")) * EveryNth("DIFFUSION")
    /\ NextTurn
    /\ UNCHANGED <<iteration, process, particles, unseen, saved, continued>>

\* calculateCurrentDiffusion
WriteDiffusion ==
    /\ WriteRow
    /\ unlike' = IF size = old_particle_positions THEN unlike ELSE unlike \cup {iteration}

\* Mutant: the numbers of particles are not compared.
SampleDiffusionUnchecked ==
    /\ Called("notifying", "DIFFUSION") /\ Due("DIFFUSION", iteration)
    /\ WriteDiffusion
    /\ old_particle_positions' = size
    /\ last_sampled_iteration' = iteration
    /\ NextTurn
    /\ UNCHANGED <<iteration, process, particles, unseen, saved, continued>>

SampleDiffusion ==
    /\ Called("notifying", "DIFFUSION") /\ Due("DIFFUSION", iteration)
    /\ size = old_particle_positions
    /\ WriteDiffusion
    /\ old_particle_positions' = size
    /\ last_sampled_iteration' = iteration
    /\ NextTurn
    /\ UNCHANGED <<iteration, process, particles, unseen, saved, continued>>

\* "Particle container size changed during simulation."
RefuseDiffusion ==
    /\ Called("notifying", "DIFFUSION") /\ Due("DIFFUSION", iteration)
    /\ size # old_particle_positions
    /\ pc' = "failed"
    /\ UNCHANGED <<turn, iteration, process, particles, files, sampled>>

\* onSimulationEnd compares with the positions there are, and does not look how
\* many there are.
SampleLastDiffusion ==
    /\ Called("ending", "DIFFUSION") /\ iteration # last_sampled_iteration
    /\ WriteDiffusion
    /\ NextTurn
    /\ UNCHANGED <<iteration, process, particles, unseen, saved, continued, sampled>>

\* A read behind the end of old_particle_positions may end the process, too.
ReadOutOfRange ==
    /\ Called("ending", "DIFFUSION") /\ iteration # last_sampled_iteration
    /\ size > old_particle_positions
    /\ pc' = "failed"
    /\ UNCHANGED <<turn, iteration, process, particles, files, sampled>>

\* An interceptor that has nothing to do.
PassTurn ==
    /\ \/ pc = "starting"
          /\ \/ interceptor = "THERMOSTAT"
             \/ interceptor = "CHKPT" /\ start_iteration # 0
       \/ pc = "notifying" /\ ~Due(interceptor, iteration)
       \/ pc = "ending"
          /\ \/ interceptor \in {"THERMOSTAT", "VELOCITY"}
             \/ interceptor = "DIFFUSION" /\ iteration = last_sampled_iteration
    /\ NextTurn
    /\ UNCHANGED <<iteration, process, particles, files, sampled>>

Next ==
    \/ StartFromScratch
    \/ Continue
    \/ Step
    \/ LeaveLoop
    \/ Crash
    \/ WriteCheckpoint
    \/ ScaleTemperature
    \/ Initialize
    \/ Sample
    \/ InitializeDiffusion
    \/ SampleDiffusion
    \/ RefuseDiffusion
    \/ SampleLastDiffusion
    \/ ReadOutOfRange
    \/ PassTurn
    \/ Over

Spec == Init /\ [][Next]_vars

-----------------------------------------------------------------------------
(***************************************************************************)
(* Properties                                                              *)
(***************************************************************************)

Iterations == 0 .. EndIteration

TypeOK ==
    /\ pc \in {"down", "starting", "loop", "notifying", "ending", "finished", "failed"}
    /\ turn \in DOMAIN Interceptors
    /\ start_iteration \in Iterations /\ iteration \in Iterations
    /\ temperature \in {NaN} \cup 0 .. MaxTemperature /\ size \in 0 .. Size
    /\ rows \in [Sensors -> [Iterations -> Nat]]
    /\ unseen \in [Sensors -> SUBSET Iterations]
    /\ old_particle_positions \in 0 .. Size /\ last_sampled_iteration \in Iterations
    /\ saved.iteration \in Iterations
    /\ continued \in Seq(1 .. EndIteration) /\ unlike \subseteq Iterations
    /\ starts \in 0 .. MaxStarts

Continuations(S) == Cardinality({k \in DOMAIN continued : continued[k] \in S})

Between == pc \in {"loop", "finished"}

\* The CSV file of the temperature, of the radial distribution function and of
\* the velocity profile has a sample of every iteration that was due, from the
\* first on and across all the processes it took, unless there was nothing to
\* write.  One may be missing: that of an iteration the simulation has been
\* continued from, because the checkpoint was written before the sensors had
\* their turn.
SamplesComplete ==
    Between => \A s \in Sensors \ {"DIFFUSION"} : \A i \in 0 .. iteration :
        i % EveryNth(s) = 0 =>
            rows[s][i] > 0 \/ i \in unseen[s] \/ Continuations({i}) > 0

\* No sample is in a file more often than processes have passed its iteration,
\* not counting those at their end: a file is not appended to by a simulation
\* that starts from scratch, and a continued one does not repeat the sample of
\* the checkpoint.
OncePerProcess ==
    Between => \A s \in Sensors : \A i \in Iterations :
        rows[s][i] <= 1 + Continuations(0 .. i - 1)
                      + IF i = EndIteration THEN 1 + Len(continued) ELSE 0

\* How far the temperature can be from the target while the simulation loops:
\* every application takes off max_temperature_change, every iteration adds one,
\* and a continued simulation leaves one application out.
MaxDistance ==
    LET drift == (1 + Len(continued)) * application_interval
    IN  Max({drift, Max({Distance(t) : t \in InitialTemperatures}) + drift
               - (iteration \div application_interval - Len(continued))
                   * (max_temperature_change - application_interval)})

\* Thermostat.h promises a "gradual scaling of the temperature towards a set
\* target".  Unless it is lost to velocities at rest, the temperature comes to
\* the target at the pace max_temperature_change allows and stays near it, also
\* across crashes, of which each costs one application at most.
TemperatureIsRegulated ==
    Between /\ temperature # NaN => Distance(temperature) <= MaxDistance

\* A row of the diffusion function compares the particles with the same ones
\* before, except for the last row of a simulation that was continued, or that
\* has lost particles since the sample before it.
DiffusionComparesLike ==
    Between /\ unlike # {} =>
        unlike = {EndIteration} /\ (continued # <<>> \/ size < Size)

\* "Particle container size changed during simulation": a process that continues
\* a simulation ends with this error at the first sample of the diffusion function
\* that is due, although it has lost no particle, and gets through only without a
\* particle; other processes end with an error only if particles are lost.
ContinuedFails ==
    /\ pc = "failed" => start_iteration > 0 \/ size < Size
    /\ pc = "finished" /\ start_iteration > 0 /\ size > 0 =>
           ~\E i \in start_iteration + 1 .. EndIteration : i % EveryNth("DIFFUSION") = 0

=============================================================================
