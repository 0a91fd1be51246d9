-------------------------- MODULE CheckpointRestart --------------------------
(***************************************************************************)
(* A simulation that writes frames and checkpoints, and the process        *)
(* restarts that continue it: XMLFileReader (which checkpoint is loaded),  *)
(* Simulation::runSimulation, SimulationInterceptor, FrameWriterInterceptor *)
(* with FileOutputHandler, and ThermostatInterceptor.                      *)
(*                                                                         *)
(* A step of the simulation is deterministic, so the particles are known   *)
(* by their history: the input file they come from, the number of steps,   *)
(* the iterations at which the thermostat has scaled them, and how often   *)
(* the force of their present positions is contained in their f.  A file   *)
(* has a moment between its creation and its completion; a process that    *)
(* dies in it leaves a torn file.                                          *)
(*                                                                         *)
(* A process reads the input file more than once: it parses it, reads it   *)
(* again for its hash, and again for every checkpoint it compares that     *)
(* hash with.  The file may be edited in between.  Particles are `mixed`   *)
(* if that has happened to a process they have passed through: a history,  *)
(* which no action looks at.                                               *)
(***************************************************************************)
EXTENDS Integers, Sequences, FiniteSets, FiniteSetsExt, Functions

CONSTANTS
    Inputs,         \* contents of the input file
    EndIteration,   \* the least n with n * delta_t >= end_time
    Period,         \* every_nth_iteration of each interceptor
    MaxStarts,      \* bound: how often the program is started
    MaxEdits        \* bound: how often the input file is edited

Formats == {"VTU", "CHKPT"}

ASSUME CheckpointAssumption ==
    /\ EndIteration \in Nat /\ MaxStarts \in Nat /\ MaxEdits \in Nat
    /\ Inputs # {}
    /\ Period \in [Formats \cup {"THERMOSTAT"} -> Nat \ {0}]

VARIABLES
    input,             \* the content of the input file
    files,             \* the output directory: format -> iteration -> file
    writers,           \* the FrameWriter elements of the input file, in order
    pc,                \* where the process is: see TypeOK
    config,            \* the content the process has parsed
    hash,              \* input_file_hash: the content that was there to be hashed
    entry,             \* the checkpoint that was examined last
    start_iteration,
    iteration,
    particles,
    turn,              \* the interceptor that is being called
    open,              \* its file has been created and is not complete yet
    starts, edits      \* counters for the bounds

process == <<pc, config, hash, entry, start_iteration, iteration, particles, turn, open>>
vars == <<input, files, writers, process, starts, edits>>

\* convertToSimulationInterceptors: the frame writers come first.
Interceptors == <<writers[1], writers[2], "THERMOSTAT">>

-----------------------------------------------------------------------------
(***************************************************************************)
(* Files and particles                                                     *)
(***************************************************************************)

Spawned(h) == [input |-> h, iteration |-> 0, scaled |-> {}, f |-> 0, mixed |-> FALSE]

\* What writeFile stores: the meta data and the particles.
Content == [complete |-> TRUE, hash |-> hash, iteration |-> iteration,
            particles |-> particles]

Torn == [Content EXCEPT !.complete = FALSE]

\* The directory after `file` has been put at iteration i.
Put(format, i, file) ==
    [files EXCEPT ![format] =
        [j \in DOMAIN @ \cup {i} |-> IF j = i THEN file ELSE @[j]]]

Checkpoints == files["CHKPT"]

\* Mutant: the hash of the input file is not compared.
AnyHash(i) == Checkpoints[i].complete

\* detectSourceFileChanges: the checkpoint was made from what the input file contains now.
HashValid(i) == Checkpoints[i].complete /\ Checkpoints[i].hash = input

\* The checkpoints loadLatestValidCheckpointFromFolder has still to open, from
\* the last one down.  That of iteration 0 is never opened.
Remaining == {i \in DOMAIN Checkpoints : 0 < i /\ i < entry}

-----------------------------------------------------------------------------
(***************************************************************************)
(* Reading the input                                                       *)
(***************************************************************************)

Init ==
    /\ input \in Inputs
    /\ files = [format \in Formats |-> <<>>]
    /\ writers \in {<<"VTU", "CHKPT">>, <<"CHKPT", "VTU">>}
    /\ pc = "down"
    /\ config = input /\ hash = input /\ entry = EndIteration + 2
    /\ start_iteration = 0 /\ iteration = 0
    /\ particles = Spawned(input)
    /\ turn = 1 /\ open = FALSE
    /\ starts = 0 /\ edits = 0

\* The memory of a new process, after it has parsed the input file.
Reset ==
    /\ config' = input /\ hash' = input /\ entry' = EndIteration + 2
    /\ start_iteration' = 0 /\ iteration' = 0
    /\ particles' = Spawned(input)
    /\ turn' = 1 /\ open' = FALSE

\* main up to the parsed configuration.
Start ==
    /\ pc \in {"down", "finished", "failed"}
    /\ starts < MaxStarts
    /\ starts' = starts + 1
    /\ Reset
    /\ pc' = "parsed"
    /\ UNCHANGED <<input, files, writers, edits>>

\* The constructor of SimulationParams reads the file a second time.
HashInput ==
    /\ pc = "parsed"
    /\ hash' = input
    /\ pc' = "searching"
    /\ UNCHANGED <<input, files, writers, config, entry, start_iteration, iteration, particles,
                   turn, open, starts, edits>>

\* The last of the remaining checkpoints is opened.
Examines(i) ==
    /\ pc = "searching"
    /\ i \in Remaining /\ \A j \in Remaining : j <= i
    /\ entry' = i
    /\ UNCHANGED <<input, files, writers, config, hash, start_iteration, iteration, particles,
                   turn, open, starts, edits>>

FindCheckpoint ==
    \E i \in Remaining : Examines(i) /\ HashValid(i) /\ pc' = "asking"

\* Mutant: a checkpoint of another input file ends the program.
SkipNone ==
    \E i \in Remaining : Examines(i) /\ Checkpoints[i].complete /\ ~HashValid(i) /\ pc' = "failed"

\* "The input file for the checkpoint file has changed ... Skipping."
SkipCheckpoint ==
    \E i \in Remaining :
        Examines(i) /\ Checkpoints[i].complete /\ ~HashValid(i) /\ UNCHANGED pc

\* A checkpoint that cannot be parsed throws an xml_schema::exception, which the
\* loop over the checkpoints does not catch.
FailToRead ==
    \E i \in Remaining : Examines(i) /\ ~Checkpoints[i].complete /\ pc' = "failed"

\* Without a valid checkpoint the particles are spawned.
FindNone ==
    /\ pc = "searching" /\ Remaining = {}
    /\ pc' = "constructed"
    /\ UNCHANGED <<input, files, writers, config, hash, entry, start_iteration, iteration,
                   particles, turn, open, starts, edits>>

\* "Continue from checkpoint": from the one that was found before the question,
\* whatever has become of the input file since.
Continue ==
    /\ pc = "asking"
    /\ particles' = [Checkpoints[entry].particles EXCEPT !.mixed = @ \/ particles.mixed]
    /\ start_iteration' = Checkpoints[entry].iteration
    /\ pc' = "constructed"
    /\ UNCHANGED <<input, files, writers, config, hash, entry, iteration, turn, open, starts,
                   edits>>

\* "Start from scratch"
StartOver ==
    /\ pc = "asking"
    /\ pc' = "constructed"
    /\ UNCHANGED <<input, files, writers, config, hash, entry, start_iteration, iteration, particles,
                   turn, open, starts, edits>>

-----------------------------------------------------------------------------
(***************************************************************************)
(* runSimulation                                                           *)
(***************************************************************************)

\* The forces are added to those the particles come with.
InitialForces ==
    /\ pc = "constructed"
    /\ iteration' = start_iteration
    /\ particles' = [particles EXCEPT !.f = @ + 1]
    /\ pc' = "starting"
    /\ UNCHANGED <<input, files, writers, config, hash, entry, start_iteration, turn, open, starts, edits>>

\* The next interceptor is called, or the loop over them ends.
NextTurn ==
    IF turn < Len(Interceptors)
    THEN turn' = turn + 1 /\ UNCHANGED pc
    ELSE turn' = 1 /\ pc' = IF pc = "ending" THEN "finished" ELSE "loop"

\* Mutant: the checkpoint the simulation continues from is removed, too.
StaleFromStart(format) == {i \in DOMAIN files[format] : i >= start_iteration}

\* Mutant: files are removed only if the simulation starts from scratch.
StaleFromScratch(format) == {i \in DOMAIN files[format] : start_iteration = 0}

\* The files the constructor of FileOutputHandler removes.
Stale(format) ==
    {i \in DOMAIN files[format] : start_iteration = 0 \/ i > start_iteration}

Calling(phases) == pc \in phases /\ ~open
Writer == Interceptors[turn] \in Formats
Due == iteration % Period[Interceptors[turn]] = 0

\* onSimulationStart of a frame writer: one file is removed.
RemoveFile ==
    /\ Calling({"starting"}) /\ Writer
    /\ \E i \in Stale(Interceptors[turn]) :
         files' = [files EXCEPT ![Interceptors[turn]] = Restrict(@, DOMAIN @ \ {i})]
    /\ UNCHANGED <<input, writers, process, starts, edits>>

\* Mutant: no file at the end, unless it is due.
WritesDueFile ==
    /\ Writer
    /\ \/ Calling({"starting"}) /\ start_iteration = 0 /\ Stale(Interceptors[turn]) = {}
       \/ Calling({"notifying", "ending"}) /\ Due

\* A frame writer writes at the start of a new simulation, whenever it is
\* notified, and once more at the end.
WritesFile ==
    /\ Writer
    /\ \/ Calling({"starting"}) /\ start_iteration = 0 /\ Stale(Interceptors[turn]) = {}
       \/ Calling({"notifying"}) /\ Due
       \/ Calling({"ending"})

\* writeFile: std::ofstream empties an existing file.
OpenFile ==
    /\ WritesFile
    /\ files' = Put(Interceptors[turn], iteration, Torn)
    /\ open' = TRUE
    /\ UNCHANGED <<input, writers, pc, config, hash, entry, start_iteration, iteration, particles, turn,
                   starts, edits>>

CloseFile ==
    /\ open
    /\ files' = Put(Interceptors[turn], iteration, Content)
    /\ open' = FALSE
    /\ NextTurn
    /\ UNCHANGED <<input, writers, config, hash, entry, start_iteration, iteration, particles, starts, edits>>

Scales == Calling({"notifying"}) /\ ~Writer /\ Due

ScaleTemperature ==
    /\ Scales
    /\ particles' = [particles EXCEPT !.scaled = @ \cup {iteration}]
    /\ NextTurn
    /\ UNCHANGED <<input, files, writers, config, hash, entry, start_iteration, iteration, open, starts, edits>>

\* An interceptor that has nothing to do.
PassTurn ==
    /\ Calling({"starting", "notifying", "ending"})
    /\ ~WritesFile /\ ~Scales
    /\ (pc = "starting" /\ Writer) => Stale(Interceptors[turn]) = {}
    /\ NextTurn
    /\ UNCHANGED <<input, files, writers, config, hash, entry, start_iteration, iteration, particles, open,
                   starts, edits>>

\* One iteration of the loop up to the notifications.  simulated_time is a
\* rounded sum: at EndIteration it may still be below end_time.
Step ==
    /\ pc = "loop"
    /\ iteration <= EndIteration
    /\ iteration' = iteration + 1
    /\ particles' = [particles EXCEPT !.iteration = @ + 1, !.f = 1]
    /\ pc' = "notifying"
    /\ UNCHANGED <<input, files, writers, config, hash, entry, start_iteration, turn, open, starts, edits>>

LeaveLoop ==
    /\ pc = "loop"
    /\ iteration >= EndIteration
    /\ pc' = "ending"
    /\ UNCHANGED <<input, files, writers, config, hash, entry, start_iteration, iteration, particles, turn,
                   open, starts, edits>>

-----------------------------------------------------------------------------
(***************************************************************************)
(* The world around the process                                            *)
(***************************************************************************)

\* The process dies, its memory is lost.
Crash ==
    /\ pc \notin {"down", "finished", "failed"}
    /\ starts < MaxStarts
    /\ pc' = "down"
    /\ Reset
    /\ UNCHANGED <<input, files, writers, starts, edits>>

\* The user edits the input file, at any time, also while a process reads it.
EditInput ==
    /\ edits < MaxEdits
    /\ edits' = edits + 1
    /\ input' \in Inputs \ {input}
    /\ particles' = IF pc \in {"parsed", "searching"} THEN [particles EXCEPT !.mixed = TRUE]
                    ELSE particles
    /\ UNCHANGED <<files, writers, pc, config, hash, entry, start_iteration, iteration, turn,
                   open, starts>>

Over == pc \in {"finished", "failed"} /\ starts = MaxStarts /\ UNCHANGED vars

ProcessStep ==
    \/ HashInput
    \/ FindCheckpoint
    \/ SkipCheckpoint
    \/ FailToRead
    \/ FindNone
    \/ Continue
    \/ StartOver
    \/ InitialForces
    \/ RemoveFile
    \/ OpenFile
    \/ CloseFile
    \/ ScaleTemperature
    \/ PassTurn
    \/ Step
    \/ LeaveLoop

Next == Start \/ ProcessStep \/ Crash \/ EditInput \/ Over

Spec == Init /\ [][Next]_vars

\* The process is scheduled, and a simulation that is not finished is started again.
Fairness == WF_vars(ProcessStep) /\ WF_vars(pc # "finished" /\ Start)

FairSpec == Spec /\ Fairness

-----------------------------------------------------------------------------
(***************************************************************************)
(* Properties                                                              *)
(***************************************************************************)

Iterations == 0 .. EndIteration + 1

Histories == [input : Inputs, iteration : Iterations, scaled : SUBSET Iterations,
              f : 0 .. MaxStarts, mixed : BOOLEAN]

TypeOK ==
    /\ input \in Inputs /\ config \in Inputs /\ hash \in Inputs
    /\ entry \in 1 .. EndIteration + 2
    /\ writers \in {<<"VTU", "CHKPT">>, <<"CHKPT", "VTU">>}
    /\ pc \in {"down", "parsed", "searching", "asking", "constructed", "starting", "loop", "notifying", "ending",
               "finished", "failed"}
    /\ files = [format \in Formats |-> files[format]]
    /\ \A format \in Formats :
         /\ DOMAIN files[format] \subseteq Iterations
         /\ \A i \in DOMAIN files[format] :
              files[format][i] \in [complete : BOOLEAN, hash : Inputs, iteration : {i},
                                    particles : Histories]
    /\ start_iteration \in Iterations /\ iteration \in Iterations
    /\ particles \in Histories
    /\ turn \in DOMAIN Interceptors
    /\ open \in BOOLEAN
    /\ starts \in 0 .. MaxStarts

Started == pc \in {"loop", "notifying", "ending", "finished"}

\* The particles that run have made as many steps as the iteration counter says,
\* and come from the input file the process has parsed: across crashes, edits of
\* the input file and checkpoints of former contents, as long as no process they
\* have passed through was reading the file when it was edited.
RunIsOfItsInput ==
    Started => /\ particles.iteration = iteration
               /\ particles.input = config \/ particles.mixed

\* Once the frame writers have started, no file claims an iteration that the
\* simulation has not reached, and no checkpoint is torn or, unless the particles
\* are mixed, of another input file; neither is then a frame of another input
\* file, if its writer comes after that of the checkpoints.
OutputIsOfThisRun ==
    Started =>
        \A format \in Formats : \A i \in DOMAIN files[format] :
            /\ i <= iteration
            /\ ~particles.mixed /\ (format = "CHKPT" \/ writers[1] = "CHKPT")
                 => files[format][i].hash = config
            /\ format = "CHKPT" =>
                 (files[format][i].complete \/ (open /\ i = iteration))

MultiplesSinceStart(n) == {i \in start_iteration + 1 .. iteration : i % n = 0}

\* Since the start of the process, every file and every scaling of the
\* thermostat that was due has been made, and the file of the last iteration.
NothingMissed ==
    pc \in {"loop", "finished"} =>
        /\ \A format \in Formats :
             LET due == MultiplesSinceStart(Period[format])
                        \cup (IF pc = "finished" THEN {iteration} ELSE {})
             IN  \A i \in due : i \in DOMAIN files[format] /\ files[format][i].complete
        /\ {i \in particles.scaled : i > start_iteration}
             = MultiplesSinceStart(Period["THERMOSTAT"])

\* The last iteration a complete checkpoint is there for.
Saved == Max({0} \cup {i \in DOMAIN Checkpoints : Checkpoints[i].complete})

\* Saved progress is lost in three cases only: a simulation starts from scratch,
\* the last checkpoint is written for the second time at the end, and it, or the
\* process that removes it, has seen the input file edited while reading it.
ProgressIsKept ==
    [][Saved' < Saved =>
          \/ start_iteration = 0
          \/ pc = "ending" /\ iteration = Saved
          \/ particles.mixed \/ Checkpoints[Saved].particles.mixed]_vars

\* If the process may crash a bounded number of times, the simulation ends,
\* unless a torn checkpoint is in the way.
FinishesUnlessTorn ==
    \/ <>[](pc = "finished")
    \/ <>(pc = "failed" /\ \E i \in DOMAIN Checkpoints : ~Checkpoints[i].complete)

\* Particle.h says of f: "Force effective on this particle".  It is, whenever
\* the loop is about to integrate.
ForceIsEffective == pc = "loop" => particles.f = 1

=============================================================================
