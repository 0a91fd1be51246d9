------------------------ MODULE CheckpointRestartProofs ------------------------
(***************************************************************************)
(* Proofs about CheckpointRestart, for every length of a simulation, every *)
(* period of its interceptors, and any number of crashes, restarts and     *)
(* edits of the input file: whose particles run, what is in the output     *)
(* folder, and what a crash can destroy.                                   *)
(***************************************************************************)
EXTENDS CheckpointRestart, FiniteSetTheorems, WellFoundedInduction, TLAPS

USE CheckpointAssumption

\* The turn of the frame writer of a format.
TurnOf(format) == IF writers[1] = format THEN 1 ELSE 2

Writing(format) == open /\ turn = TurnOf(format)

\* onSimulationStart of the frame writer has removed the stale files.
Passed(format) == Started \/ (pc = "starting" /\ turn > TurnOf(format))

\* The particles in a file are those its name and its meta data say.
FilesTrue ==
    \A format \in Formats : \A i \in DOMAIN files[format] :
        /\ files[format][i].particles.mixed
             \/ files[format][i].particles.input = files[format][i].hash
        /\ files[format][i].particles.iteration = i
        /\ files[format][i].particles.scaled \subseteq 0 .. i
        /\ files[format][i].particles.f <= starts
        /\ pc \in {"parsed", "searching", "asking", "constructed"}
             => files[format][i].particles.f < starts

\* What a crash leaves: up to a checkpoint that is not mixed, checkpoints of one
\* content of the input file; at most the last one torn; and, if checkpoints are
\* written first, no frame that another content has made up to that checkpoint.
OneSource ==
    \A i, j \in DOMAIN Checkpoints :
        j <= i => Checkpoints[i].particles.mixed \/ Checkpoints[j].hash = Checkpoints[i].hash

TornIsLast ==
    \A i, j \in DOMAIN Checkpoints : ~Checkpoints[i].complete => j <= i

FramesMatch ==
    writers[1] = "CHKPT" =>
        \A i \in DOMAIN Checkpoints, j \in DOMAIN files["VTU"] :
            0 < i /\ j <= i =>
                Checkpoints[i].particles.mixed \/ files["VTU"][j].hash = Checkpoints[i].hash

\* How far the process is, and its particles with it.
Phases ==
    /\ pc \in {"down", "parsed", "searching", "asking", "failed"} =>
         /\ particles.scaled = {} /\ particles.f = 0 /\ particles.iteration = 0
         /\ start_iteration = 0 /\ iteration = 0 /\ turn = 1 /\ ~open
    /\ pc = "constructed" =>
         /\ particles.iteration = start_iteration /\ iteration = 0 /\ turn = 1 /\ ~open
         /\ particles.f < starts
    /\ pc = "starting" => iteration = start_iteration
    /\ pc = "notifying" => iteration > start_iteration
    /\ pc \in {"loop", "finished"} => turn = 1 /\ ~open
    /\ pc = "starting" \/ Started => particles.iteration = iteration /\ iteration >= start_iteration
    /\ particles.f <= starts
    /\ pc # "down" => starts > 0
    /\ open => turn <= 2 /\ (pc = "starting" => start_iteration = 0)

\* Without an edit in between, a process has read the same content every time.
ReadsOneInput ==
    particles.mixed \/ /\ particles.input = config /\ hash = config
                       /\ pc \in {"parsed", "searching"} => input = config

\* The checkpoints a process has passed over are readable, and of another input
\* file; the one it asks about is of its own.
Passes(i) == Checkpoints[i].complete /\ (particles.mixed \/ Checkpoints[i].hash # config)

Search ==
    /\ pc = "parsed" => entry = EndIteration + 2
    /\ pc = "searching" => \A i \in DOMAIN Checkpoints : entry <= i => Passes(i)
    /\ pc = "asking" =>
         /\ entry \in DOMAIN Checkpoints
         /\ particles.mixed \/ Checkpoints[entry].hash = config
         /\ \A i \in DOMAIN Checkpoints : entry < i => Passes(i)

\* A continued simulation comes from a checkpoint that is still there.  It is of
\* its input file, and none behind it is, unless particles are mixed.
Continued ==
    start_iteration > 0 =>
        /\ start_iteration \in DOMAIN Checkpoints
        /\ particles.mixed \/ /\ Checkpoints[start_iteration].hash = config
                              /\ ~Checkpoints[start_iteration].particles.mixed
        /\ pc \in {"constructed", "starting"} =>
             \A i \in DOMAIN Checkpoints :
                i <= start_iteration \/ particles.mixed \/ Checkpoints[i].particles.mixed

\* A torn checkpoint beside a process that has read them is the one it is
\* writing, or that of iteration 0, which is about to be removed.
TornNow ==
    pc \notin {"down", "failed", "parsed", "searching"} =>
        \A i \in DOMAIN Checkpoints :
            ~Checkpoints[i].complete =>
                \/ Writing("CHKPT") /\ i = iteration
                \/ /\ i = 0 /\ start_iteration = 0
                   /\ pc \in {"constructed", "starting"} /\ ~Passed("CHKPT")

\* A file is of the input file of the process.
Own(format, i) == files[format][i].hash = hash

\* Whose frames are checked: those of a writer behind that of the checkpoints.
Checked(format) == ~particles.mixed /\ (format = "CHKPT" \/ writers[1] = "CHKPT")

Outputs(format) ==
    /\ Passed(format) =>
         \A i \in DOMAIN files[format] :
            i <= iteration /\ (Checked(format) => Own(format, i))
    /\ pc = "starting" /\ Writing(format) =>
         \A i \in DOMAIN files[format] : i = 0 /\ Own(format, i)
    /\ pc = "notifying" /\ turn <= TurnOf(format) /\ ~Writing(format) =>
         \A i \in DOMAIN files[format] : i < iteration
    /\ pc \in {"notifying", "ending"} /\ turn > TurnOf(format) =>
         (iteration \in DOMAIN files[format] => Own(format, iteration))

\* What is due has been done: by iteration - 1, and in this iteration by those
\* that had their turn.
Has(format, i) == i \in DOMAIN files[format] /\ files[format][i].complete

DueDone(format, n) ==
    \A i \in start_iteration + 1 .. n : i % Period[format] = 0 => Has(format, i)

WrittenWhenDue(format) ==
    /\ pc \in {"loop", "finished"} => DueDone(format, iteration)
    /\ pc \in {"notifying", "ending"} => DueDone(format, iteration - 1)
    /\ pc = "notifying" /\ turn > TurnOf(format) => DueDone(format, iteration)
    /\ pc = "ending" /\ turn > TurnOf(format) => Has(format, iteration)
    /\ pc = "finished" => Has(format, iteration)

ScaledSince == {i \in particles.scaled : i > start_iteration}

ScaledWhenDue ==
    /\ pc = "constructed" => particles.scaled \subseteq 0 .. start_iteration
    /\ pc = "starting" \/ Started => particles.scaled \subseteq 0 .. iteration
    /\ pc \in {"loop", "ending", "finished"} =>
         ScaledSince = MultiplesSinceStart(Period["THERMOSTAT"])
    /\ pc = "notifying" =>
         ScaledSince = {i \in start_iteration + 1 .. iteration - 1 : i % Period["THERMOSTAT"] = 0}

IInv ==
    /\ TypeOK /\ FilesTrue /\ OneSource /\ TornIsLast /\ FramesMatch
    /\ Phases /\ ReadsOneInput /\ Search /\ Continued /\ TornNow
    /\ \A format \in Formats : Outputs(format) /\ WrittenWhenDue(format)
    /\ ScaledWhenDue

-----------------------------------------------------------------------------
(***************************************************************************)
(* Turns and files                                                         *)
(***************************************************************************)

FileType(i) == [complete : BOOLEAN, hash : Inputs, iteration : {i}, particles : Histories]

LEMMA Turns ==
  ASSUME TypeOK
  PROVE  /\ turn \in 1 .. 3 /\ Len(Interceptors) = 3
         /\ Writer <=> turn <= 2
         /\ turn <= 2 => Interceptors[turn] \in Formats /\ turn = TurnOf(Interceptors[turn])
         /\ turn = 3 => Interceptors[turn] = "THERMOSTAT"
         /\ \A format \in Formats : TurnOf(format) \in 1 .. 2
         /\ \A format \in Formats : turn = TurnOf(format) => Interceptors[turn] = format
         /\ TurnOf("VTU") = 2 <=> writers[1] = "CHKPT"
         /\ TurnOf("CHKPT") = 1 <=> writers[1] = "CHKPT"
<1>1. writers \in {<<"VTU", "CHKPT">>, <<"CHKPT", "VTU">>} /\ turn \in DOMAIN Interceptors
  BY DEF TypeOK
<1>3. /\ Len(Interceptors) = 3 /\ DOMAIN Interceptors = 1 .. 3
      /\ Interceptors[1] = writers[1] /\ Interceptors[2] = writers[2]
      /\ Interceptors[3] = "THERMOSTAT"
  BY DEF Interceptors
<1>4. turn \in 1 .. 3
  BY <1>1, <1>3
<1>5. \/ writers[1] = "VTU" /\ writers[2] = "CHKPT"
      \/ writers[1] = "CHKPT" /\ writers[2] = "VTU"
  BY <1>1
<1>6. TurnOf("VTU") \in 1 .. 2 /\ TurnOf("CHKPT") \in 1 .. 2
      /\ (TurnOf("VTU") = 2 <=> writers[1] = "CHKPT")
      /\ (TurnOf("CHKPT") = 1 <=> writers[1] = "CHKPT")
  BY <1>5 DEF TurnOf
<1>. QED BY <1>3, <1>4, <1>5, <1>6 DEF Writer, Formats, TurnOf

LEMMA NextTurnCases ==
  ASSUME TypeOK, NextTurn
  PROVE  \/ turn < 3 /\ turn' = turn + 1 /\ pc' = pc
         \/ turn = 3 /\ turn' = 1 /\ pc = "ending" /\ pc' = "finished"
         \/ turn = 3 /\ turn' = 1 /\ pc # "ending" /\ pc' = "loop"
<1>1. turn \in 1 .. 3 /\ Len(Interceptors) = 3
  BY Turns
<1>. QED BY <1>1 DEF NextTurn

\* The directory after a file has been put.
LEMMA PutFacts ==
  ASSUME TypeOK, NEW format \in Formats, NEW i, NEW file, files' = Put(format, i, file)
  PROVE  /\ files' = [g \in Formats |-> files'[g]]
         /\ \A g \in Formats : g # format => files'[g] = files[g]
         /\ DOMAIN files'[format] = DOMAIN files[format] \cup {i}
         /\ files'[format][i] = file
         /\ \A j \in DOMAIN files[format] : j # i => files'[format][j] = files[format][j]
<1>1. files = [g \in Formats |-> files[g]]
  BY DEF TypeOK
<1>2. files'[format] = [j \in DOMAIN files[format] \cup {i} |->
                           IF j = i THEN file ELSE files[format][j]]
  BY <1>1 DEF Put
<1>3. \A g \in Formats : g # format => files'[g] = files[g]
  BY <1>1 DEF Put
<1>4. files' = [g \in Formats |-> files'[g]]
  BY <1>1 DEF Put
<1>. QED BY <1>2, <1>3, <1>4

\* The directory after a file has been removed.
LEMMA RemoveFacts ==
  ASSUME TypeOK, NEW format \in Formats, NEW i,
         files' = [files EXCEPT ![format] = Restrict(@, DOMAIN @ \ {i})]
  PROVE  /\ files' = [g \in Formats |-> files'[g]]
         /\ \A g \in Formats : g # format => files'[g] = files[g]
         /\ DOMAIN files'[format] = DOMAIN files[format] \ {i}
         /\ \A j \in DOMAIN files[format] : j # i => files'[format][j] = files[format][j]
<1>1. files = [g \in Formats |-> files[g]]
  BY DEF TypeOK
<1>2. files'[format] = [j \in DOMAIN files[format] \ {i} |-> files[format][j]]
  BY <1>1 DEF Restrict
<1>3. \A g \in Formats : g # format => files'[g] = files[g]
  BY <1>1
<1>4. files' = [g \in Formats |-> files'[g]]
  BY <1>1
<1>. QED BY <1>2, <1>3, <1>4

LEMMA FileFacts ==
  ASSUME TypeOK, NEW format \in Formats, NEW i \in DOMAIN files[format]
  PROVE  /\ i \in Iterations /\ i \in Nat
         /\ files[format][i] \in FileType(i)
  BY DEF TypeOK, FileType, Iterations

LEMMA SpawnedType == \A h \in Inputs : Spawned(h) \in Histories
  BY DEF Spawned, Histories, Iterations

LEMMA InitInv == Init => IInv
<1>. SUFFICES ASSUME Init PROVE IInv
  OBVIOUS
<1>1. \A format \in Formats : DOMAIN files[format] = {}
  BY DEF Init
<1>2. TypeOK
  <2>1. particles \in Histories
    BY SpawnedType DEF Init
  <2>2. turn \in DOMAIN Interceptors
    BY DEF Init, Interceptors
  <2>3. files = [format \in Formats |-> files[format]]
    BY DEF Init
  <2>4. \A format \in Formats :
          /\ DOMAIN files[format] \subseteq Iterations
          /\ \A i \in DOMAIN files[format] :
               files[format][i] \in [complete : BOOLEAN, hash : Inputs, iteration : {i},
                                     particles : Histories]
    BY <1>1
  <2>5. /\ input \in Inputs /\ config \in Inputs /\ hash \in Inputs /\ open \in BOOLEAN
        /\ writers \in {<<"VTU", "CHKPT">>, <<"CHKPT", "VTU">>} /\ pc = "down"
    BY Zenon DEF Init
  <2>6. /\ start_iteration \in Iterations /\ iteration \in Iterations /\ starts \in 0 .. MaxStarts
        /\ entry \in 1 .. EndIteration + 2
    BY DEF Init, Iterations
  <2>. QED BY <2>1, <2>2, <2>3, <2>4, <2>5, <2>6 DEF TypeOK
<1>3. FilesTrue /\ OneSource /\ TornIsLast /\ FramesMatch /\ TornNow
  <2>1. DOMAIN Checkpoints = {} /\ DOMAIN files["VTU"] = {}
    BY <1>1 DEF Checkpoints, Formats
  <2>2. FilesTrue
    BY <1>1 DEF FilesTrue
  <2>. QED BY <2>1, <2>2 DEF OneSource, TornIsLast, FramesMatch, TornNow
<1>4. Phases /\ ReadsOneInput /\ Search /\ Continued /\ ScaledWhenDue
  BY DEF Init, Phases, ReadsOneInput, Search, Continued, ScaledWhenDue, Spawned, Started
<1>5. \A format \in Formats : Outputs(format) /\ WrittenWhenDue(format)
  BY DEF Init, Outputs, WrittenWhenDue, Passed, Started
<1>. QED BY <1>2, <1>3, <1>4, <1>5 DEF IInv

-----------------------------------------------------------------------------
(***************************************************************************)
(* Steps that leave the directory alone                                    *)
(***************************************************************************)

LEMMA SameFiles ==
  ASSUME UNCHANGED <<files, writers>>
  PROVE  /\ OneSource => OneSource'
         /\ TornIsLast => TornIsLast'
         /\ FramesMatch => FramesMatch'
  BY DEF OneSource, TornIsLast, FramesMatch, Checkpoints

\* The memory of a process that has just been started, or has died.
LEMMA ResetInv ==
  ASSUME IInv, Reset, UNCHANGED <<input, files, writers>>, pc' \in {"down", "parsed"},
         starts' \in starts .. MaxStarts,
         pc' = "parsed" => starts' = starts + 1
  PROVE  IInv'
<1>1. /\ TypeOK /\ FilesTrue /\ OneSource /\ TornIsLast /\ FramesMatch
      /\ input \in Inputs /\ starts \in 0 .. MaxStarts
  BY DEF IInv, TypeOK
<1>2. TypeOK'
  <2>1. particles' \in Histories /\ start_iteration' \in Iterations /\ iteration' \in Iterations
    BY <1>1, SpawnedType DEF Reset, Iterations
  <2>2. turn' \in DOMAIN Interceptors' /\ entry' \in 1 .. EndIteration + 2
    BY DEF Reset, Interceptors
  <2>3. starts' \in 0 .. MaxStarts
    BY <1>1
  <2>. QED BY <1>1, <2>1, <2>2, <2>3 DEF TypeOK, Reset
<1>3. FilesTrue'
  <2>. SUFFICES ASSUME NEW format \in Formats, NEW i \in DOMAIN files[format]
                PROVE  /\ files[format][i].particles.mixed
                            \/ files[format][i].particles.input = files[format][i].hash
                       /\ files[format][i].particles.iteration = i
                       /\ files[format][i].particles.scaled \subseteq 0 .. i
                       /\ files[format][i].particles.f <= starts'
                       /\ pc' = "parsed" => files[format][i].particles.f < starts'
    BY DEF FilesTrue
  <2>1. files[format][i].particles.f \in Nat
    BY <1>1, FileFacts DEF FileType, Histories
  <2>. QED BY <1>1, <2>1 DEF FilesTrue
<1>4. Phases' /\ ReadsOneInput' /\ Search' /\ Continued'
  BY <1>1 DEF Phases, ReadsOneInput, Search, Continued, Reset, Spawned, Started
<1>5. TornNow'
  BY DEF TornNow
<1>6. \A format \in Formats : (Outputs(format) /\ WrittenWhenDue(format))'
  BY DEF Outputs, WrittenWhenDue, Passed, Started
<1>7. ScaledWhenDue'
  BY DEF ScaledWhenDue, Reset, Spawned, Started
<1>. QED BY <1>1, <1>2, <1>3, <1>4, <1>5, <1>6, <1>7, SameFiles DEF IInv

LEMMA StartInv == ASSUME IInv, Start PROVE IInv'
<1>1. starts \in 0 .. MaxStarts /\ MaxStarts \in Nat
  BY DEF IInv, TypeOK
<1>2. starts' = starts + 1 /\ starts' \in starts .. MaxStarts
  BY <1>1 DEF Start
<1>. QED BY <1>2, ResetInv DEF Start

LEMMA CrashInv == ASSUME IInv, Crash PROVE IInv'
<1>1. starts \in 0 .. MaxStarts
  BY DEF IInv, TypeOK
<1>. QED BY <1>1, ResetInv DEF Crash

\* An edit that no process can have read half of, or one that marks the particles.
LEMMA EditInv == ASSUME IInv, EditInput \/ UNCHANGED vars PROVE IInv'
<1>1. UNCHANGED <<files, writers, pc, config, hash, entry, start_iteration, iteration, turn, open, starts>>
  BY DEF EditInput, vars, process
<1>2. input' \in Inputs /\ TypeOK /\ Phases /\ ReadsOneInput /\ Search /\ Continued
  BY DEF EditInput, IInv, TypeOK, vars
<1>3. \/ particles' = particles /\ (pc \in {"parsed", "searching"} => input' = input)
      \/ pc \in {"parsed", "searching"} /\ particles' = [particles EXCEPT !.mixed = TRUE]
  BY DEF EditInput, vars, process
<1>4. /\ particles' \in Histories
      /\ particles'.input = particles.input /\ particles'.iteration = particles.iteration
      /\ particles'.scaled = particles.scaled /\ particles'.f = particles.f
      /\ particles'.mixed = particles.mixed \/ (particles'.mixed /\ pc \in {"parsed", "searching"})
  BY <1>2, <1>3 DEF TypeOK, Histories
<1>5. TypeOK'
  BY <1>1, <1>2, <1>4 DEF IInv, TypeOK, Interceptors
<1>6. FilesTrue' /\ Phases' /\ TornNow'
  BY <1>1, <1>4 DEF IInv, FilesTrue, Phases, TornNow, Checkpoints, Passed, Started, Writing, TurnOf
<1>7. ReadsOneInput'
  <2>1. CASE particles' = particles /\ (pc \in {"parsed", "searching"} => input' = input)
    BY <1>1, <1>2, <2>1 DEF ReadsOneInput
  <2>2. CASE particles' = [particles EXCEPT !.mixed = TRUE]
    <3>1. particles'.mixed
      BY <1>2, <2>2 DEF TypeOK, Histories
    <3>. QED BY <3>1 DEF ReadsOneInput
  <2>. QED BY <1>3, <2>1, <2>2
<1>8. Search' /\ Continued'
  BY <1>1, <1>2, <1>4 DEF Search, Passes, Continued, Checkpoints, Phases
<1>9. \A format \in Formats : (Outputs(format) /\ WrittenWhenDue(format))'
  <2>. SUFFICES ASSUME NEW format \in Formats PROVE (Outputs(format) /\ WrittenWhenDue(format))'
    OBVIOUS
  <2>1. Checked(format)' => Checked(format) \/ pc \in {"parsed", "searching"}
    BY <1>1, <1>4 DEF Checked
  <2>. QED BY <1>1, <2>1 DEF IInv, Outputs, Own, WrittenWhenDue, Passed, Started, Writing, TurnOf, DueDone, Has
<1>10. ScaledWhenDue'
  BY <1>1, <1>4 DEF IInv, ScaledWhenDue, ScaledSince, MultiplesSinceStart, Started
<1>. QED BY <1>1, <1>5, <1>6, <1>7, <1>8, <1>9, <1>10, SameFiles DEF IInv

-----------------------------------------------------------------------------
(***************************************************************************)
(* The search for a checkpoint                                             *)
(***************************************************************************)

\* A step that ends or continues the search, without a look at the particles.
LEMMA SearchInv ==
  ASSUME IInv, UNCHANGED <<input, files, writers, config, start_iteration, iteration, particles,
                           turn, open, starts>>,
         pc \in {"parsed", "searching", "asking"},
         pc' \in {"searching", "asking", "failed", "constructed"},
         hash' \in Inputs, entry' \in 1 .. EndIteration + 2,
         ReadsOneInput', Search', TornNow'
  PROVE  IInv'
<1>1. TypeOK /\ FilesTrue /\ Phases /\ Continued /\ ScaledWhenDue
  BY DEF IInv
<1>2. TypeOK'
  BY <1>1 DEF TypeOK, Interceptors
<1>3. FilesTrue'
  BY <1>1 DEF FilesTrue
<1>4. Phases' /\ Continued' /\ ScaledWhenDue'
  BY <1>1 DEF Phases, Continued, ScaledWhenDue, Started, TypeOK
<1>5. \A format \in Formats : (Outputs(format) /\ WrittenWhenDue(format))'
  BY DEF Outputs, WrittenWhenDue, Passed, Started
<1>. QED BY <1>2, <1>3, <1>4, <1>5, SameFiles DEF IInv

LEMMA HashInputInv == ASSUME IInv, HashInput PROVE IInv'
<1>1. /\ TypeOK /\ ReadsOneInput /\ Search
      /\ pc = "parsed" /\ pc' = "searching" /\ hash' = input
      /\ UNCHANGED <<input, files, writers, config, entry, start_iteration, iteration, particles,
                     turn, open, starts>>
  BY DEF IInv, HashInput
<1>2. ReadsOneInput' /\ TornNow'
  BY <1>1 DEF ReadsOneInput, TornNow
<1>3. Search'
  <2>1. \A i \in DOMAIN Checkpoints : ~(entry <= i)
    BY <1>1 DEF TypeOK, Search, Checkpoints, Formats, Iterations
  <2>. QED BY <1>1, <2>1 DEF Search, Checkpoints
<1>4. hash' \in Inputs /\ entry' \in 1 .. EndIteration + 2
  BY <1>1 DEF TypeOK
<1>. QED BY <1>1, <1>2, <1>3, <1>4, SearchInv

\* The checkpoint that is opened, and those that have been.
LEMMA ExaminesFacts ==
  ASSUME IInv, NEW i, Examines(i)
  PROVE  /\ i \in DOMAIN Checkpoints /\ i \in 1 .. EndIteration + 1 /\ i < entry
         /\ \A j \in DOMAIN Checkpoints : i < j => Passes(j)
<1>1. TypeOK /\ Search /\ pc = "searching"
  BY DEF IInv, Examines
<1>2. \A j \in DOMAIN Checkpoints : j \in Iterations
  BY <1>1 DEF TypeOK, Checkpoints, Formats
<1>3. i \in DOMAIN Checkpoints /\ i \in 1 .. EndIteration + 1 /\ i < entry
  BY <1>2 DEF Examines, Remaining, Iterations
<1>4. ASSUME NEW j \in DOMAIN Checkpoints, i < j PROVE entry <= j
  <2>1. j \in 0 .. EndIteration + 1 /\ entry \in Int
    BY <1>1, <1>2, <1>4 DEF TypeOK, Iterations
  <2>2. ~(j \in Remaining)
    BY <1>3, <1>4, <2>1 DEF Examines
  <2>. QED BY <1>3, <1>4, <2>1, <2>2 DEF Remaining
<1>. QED BY <1>1, <1>3, <1>4 DEF Search

LEMMA SkipCheckpointInv == ASSUME IInv, SkipCheckpoint PROVE IInv'
<1>1. PICK i \in Remaining :
        /\ Examines(i) /\ Checkpoints[i].complete /\ ~HashValid(i) /\ pc' = pc
  BY DEF SkipCheckpoint
<1>2. /\ TypeOK /\ ReadsOneInput /\ pc = "searching" /\ entry' = i
      /\ UNCHANGED <<input, files, writers, config, hash, start_iteration, iteration, particles,
                     turn, open, starts>>
  BY <1>1 DEF IInv, Examines
<1>3. /\ i \in DOMAIN Checkpoints /\ i \in 1 .. EndIteration + 1
      /\ \A j \in DOMAIN Checkpoints : i < j => Passes(j)
  BY <1>1, ExaminesFacts
<1>4. Passes(i)
  BY <1>1, <1>2 DEF Passes, HashValid, ReadsOneInput
<1>5. Search'
  <2>1. \A j \in DOMAIN Checkpoints : j \in Int
    BY <1>2 DEF TypeOK, Checkpoints, Formats, Iterations
  <2>2. \A j \in DOMAIN Checkpoints : i <= j => Passes(j)
    BY <1>3, <1>4, <2>1
  <2>. QED BY <1>1, <1>2, <2>2 DEF Search, Passes, Checkpoints
<1>6. ReadsOneInput' /\ TornNow'
  BY <1>1, <1>2 DEF ReadsOneInput, TornNow
<1>7. hash' \in Inputs /\ entry' \in 1 .. EndIteration + 2
  BY <1>2, <1>3 DEF TypeOK
<1>. QED BY <1>1, <1>2, <1>5, <1>6, <1>7, SearchInv

\* Where a checkpoint is found, none is torn.
LEMMA FoundIsReadable ==
  ASSUME IInv, NEW i, Examines(i), Checkpoints[i].complete
  PROVE  \A j \in DOMAIN Checkpoints : Checkpoints[j].complete
<1>1. /\ TypeOK /\ TornIsLast
      /\ i \in DOMAIN Checkpoints /\ i \in 1 .. EndIteration + 1
      /\ \A j \in DOMAIN Checkpoints : i < j => Passes(j)
  BY ExaminesFacts DEF IInv
<1>2. \A j \in DOMAIN Checkpoints : j \in Int
  BY <1>1 DEF TypeOK, Checkpoints, Formats, Iterations
<1>. QED BY <1>1, <1>2 DEF TornIsLast, Passes

LEMMA FindCheckpointInv == ASSUME IInv, FindCheckpoint PROVE IInv'
<1>1. PICK i \in Remaining : Examines(i) /\ HashValid(i) /\ pc' = "asking"
  BY DEF FindCheckpoint
<1>2. /\ TypeOK /\ ReadsOneInput /\ Phases /\ pc = "searching" /\ entry' = i
      /\ UNCHANGED <<input, files, writers, config, hash, start_iteration, iteration, particles,
                     turn, open, starts>>
  BY <1>1 DEF IInv, Examines
<1>3. /\ i \in DOMAIN Checkpoints /\ i \in 1 .. EndIteration + 1
      /\ \A j \in DOMAIN Checkpoints : i < j => Passes(j)
  BY <1>1, ExaminesFacts
<1>4. particles.mixed \/ Checkpoints[i].hash = config
  BY <1>1, <1>2 DEF HashValid, ReadsOneInput
<1>5. Search'
  BY <1>1, <1>2, <1>3, <1>4 DEF Search, Passes, Checkpoints
<1>6. ReadsOneInput'
  BY <1>1, <1>2 DEF ReadsOneInput
<1>7. TornNow'
  <2>1. \A j \in DOMAIN Checkpoints : Checkpoints[j].complete
    BY <1>1, FoundIsReadable DEF HashValid
  <2>. QED BY <1>2, <2>1 DEF TornNow, Checkpoints
<1>8. hash' \in Inputs /\ entry' \in 1 .. EndIteration + 2
  BY <1>2, <1>3 DEF TypeOK
<1>. QED BY <1>1, <1>2, <1>5, <1>6, <1>7, <1>8, SearchInv

LEMMA FailToReadInv == ASSUME IInv, FailToRead PROVE IInv'
<1>1. PICK i \in Remaining : Examines(i) /\ ~Checkpoints[i].complete /\ pc' = "failed"
  BY DEF FailToRead
<1>2. /\ TypeOK /\ ReadsOneInput /\ pc = "searching" /\ entry' = i
      /\ UNCHANGED <<input, files, writers, config, hash, start_iteration, iteration, particles,
                     turn, open, starts>>
  BY <1>1 DEF IInv, Examines
<1>3. i \in 1 .. EndIteration + 1
  BY <1>1, ExaminesFacts
<1>4. Search' /\ ReadsOneInput' /\ TornNow'
  BY <1>1, <1>2 DEF Search, ReadsOneInput, TornNow
<1>5. hash' \in Inputs /\ entry' \in 1 .. EndIteration + 2
  BY <1>2, <1>3 DEF TypeOK
<1>. QED BY <1>1, <1>2, <1>4, <1>5, SearchInv

LEMMA FindNoneInv == ASSUME IInv, FindNone PROVE IInv'
<1>1. /\ TypeOK /\ ReadsOneInput /\ Search /\ Phases
      /\ pc = "searching" /\ pc' = "constructed" /\ Remaining = {}
      /\ UNCHANGED <<input, files, writers, config, hash, entry, start_iteration, iteration,
                     particles, turn, open, starts>>
  BY DEF IInv, FindNone
<1>2. Search' /\ ReadsOneInput'
  BY <1>1 DEF Search, ReadsOneInput
<1>3. TornNow'
  <2>1. \A i \in DOMAIN Checkpoints : i \in Nat /\ entry \in Int
    BY <1>1 DEF TypeOK, Checkpoints, Formats, Iterations
  <2>2. \A i \in DOMAIN Checkpoints : ~Checkpoints[i].complete => i = 0
    BY <1>1, <2>1 DEF Remaining, Search, Passes
  <2>3. ~Passed("CHKPT")' /\ start_iteration' = 0
    BY <1>1 DEF Passed, Started, Phases
  <2>. QED BY <1>1, <2>2, <2>3 DEF TornNow, Checkpoints
<1>4. hash' \in Inputs /\ entry' \in 1 .. EndIteration + 2
  BY <1>1 DEF TypeOK
<1>. QED BY <1>1, <1>2, <1>3, <1>4, SearchInv

LEMMA ContinueInv == ASSUME IInv, Continue PROVE IInv'
<1>1. /\ TypeOK /\ FilesTrue /\ OneSource /\ TornNow /\ Phases /\ ReadsOneInput /\ Search
      /\ pc = "asking" /\ pc' = "constructed"
      /\ UNCHANGED <<input, files, writers, config, hash, entry, iteration, turn, open, starts>>
  BY DEF IInv, Continue
<1>. DEFINE file == Checkpoints[entry]
<1>2. /\ particles' = [file.particles EXCEPT !.mixed = file.particles.mixed \/ particles.mixed]
      /\ start_iteration' = file.iteration
  BY DEF Continue
<1>3. /\ entry \in DOMAIN Checkpoints /\ entry \in Iterations /\ entry \in Nat
      /\ file \in FileType(entry)
      /\ particles.mixed \/ file.hash = config
      /\ \A j \in DOMAIN Checkpoints : j \in Nat /\ (entry < j => Passes(j))
  BY <1>1, FileFacts DEF Search, Checkpoints, Formats
<1>4. /\ file.particles \in Histories /\ particles.mixed \in BOOLEAN /\ start_iteration' = entry
  BY <1>1, <1>2, <1>3 DEF FileType, TypeOK, Histories
<1>5. /\ file.particles.mixed \/ file.particles.input = file.hash
      /\ file.particles.iteration = entry
      /\ file.particles.scaled \subseteq 0 .. entry /\ file.particles.f < starts
  BY <1>1, <1>3 DEF FilesTrue, Checkpoints, Formats
<1>. HIDE DEF file
<1>6. /\ particles' \in Histories /\ particles'.iteration = entry
      /\ particles'.scaled \subseteq 0 .. entry /\ particles'.f < starts
      /\ particles'.input = file.particles.input
      /\ particles'.mixed <=> (file.particles.mixed \/ particles.mixed)
  BY <1>2, <1>4, <1>5 DEF Histories
<1>7. ReadsOneInput'
  BY <1>1, <1>3, <1>5, <1>6 DEF ReadsOneInput
<1>8. \A j \in DOMAIN Checkpoints : Checkpoints[j].complete
  <2>1. ~open /\ start_iteration = 0
    BY <1>1 DEF Phases
  <2>. QED BY <1>1, <2>1 DEF TornNow, Writing
<1>9. ASSUME NEW j \in DOMAIN Checkpoints, entry < j, ~particles'.mixed
      PROVE  Checkpoints[j].particles.mixed
  <2>1. ~particles.mixed /\ Checkpoints[j].hash # config
    BY <1>3, <1>6, <1>9 DEF Passes
  <2>2. Checkpoints[entry].hash = config
    BY <1>3, <2>1 DEF file
  <2>3. entry <= j
    BY <1>3, <1>9
  <2>. QED BY <1>1, <1>3, <2>1, <2>2, <2>3 DEF OneSource
<1>10. TypeOK'
  BY <1>1, <1>3, <1>4, <1>6 DEF TypeOK, Interceptors
<1>11. FilesTrue'
  BY <1>1 DEF FilesTrue
<1>12. Phases'
  <2>1. particles'.f \in Nat /\ starts \in Nat
    BY <1>1, <1>6 DEF Histories, TypeOK
  <2>. QED BY <1>1, <1>3, <1>4, <1>6, <2>1 DEF Phases, Started
<1>13. Continued'
  <2>1. particles'.mixed \/ (file.hash = config /\ ~file.particles.mixed)
    BY <1>3, <1>6
  <2>2. \A j \in DOMAIN Checkpoints :
          j <= entry \/ particles'.mixed \/ Checkpoints[j].particles.mixed
    BY <1>3, <1>9
  <2>. QED BY <1>1, <1>3, <1>4, <2>1, <2>2 DEF Continued, Checkpoints, file
<1>14. TornNow' /\ Search'
  BY <1>1, <1>8 DEF TornNow, Search, Checkpoints
<1>15. \A format \in Formats : (Outputs(format) /\ WrittenWhenDue(format))'
  BY <1>1 DEF Outputs, WrittenWhenDue, Passed, Started
<1>16. ScaledWhenDue'
  BY <1>1, <1>4, <1>6 DEF ScaledWhenDue, Started
<1>. QED BY <1>1, <1>7, <1>10, <1>11, <1>12, <1>13, <1>14, <1>15, <1>16, SameFiles DEF IInv

LEMMA StartOverInv == ASSUME IInv, StartOver PROVE IInv'
<1>1. /\ TypeOK /\ ReadsOneInput /\ TornNow /\ Phases
      /\ pc = "asking" /\ pc' = "constructed"
      /\ UNCHANGED <<input, files, writers, config, hash, entry, start_iteration, iteration, particles,
                     turn, open, starts>>
  BY DEF IInv, StartOver
<1>2. ReadsOneInput' /\ Search'
  BY <1>1 DEF ReadsOneInput, Search
<1>3. TornNow'
  BY <1>1 DEF TornNow, Phases, Writing, Checkpoints
<1>4. hash' \in Inputs /\ entry' \in 1 .. EndIteration + 2
  BY <1>1 DEF TypeOK
<1>. QED BY <1>1, <1>2, <1>3, <1>4, SearchInv

LEMMA InitialForcesInv == ASSUME IInv, InitialForces PROVE IInv'
<1>1. /\ TypeOK /\ FilesTrue /\ TornNow /\ Phases /\ Continued /\ ScaledWhenDue
      /\ pc = "constructed" /\ pc' = "starting" /\ iteration' = start_iteration
      /\ particles' = [particles EXCEPT !.f = @ + 1]
      /\ UNCHANGED <<input, files, writers, config, hash, entry, start_iteration, turn, open, starts>>
  BY DEF IInv, InitialForces
<1>2. particles \in Histories /\ starts \in 0 .. MaxStarts /\ start_iteration \in Nat
  BY <1>1 DEF TypeOK, Iterations
<1>3. /\ particles'.input = particles.input /\ particles'.iteration = start_iteration
      /\ particles'.scaled = particles.scaled /\ particles'.f = particles.f + 1
      /\ particles'.mixed = particles.mixed
      /\ particles'.f <= starts /\ particles' \in Histories
  BY <1>1, <1>2 DEF Histories, Phases
<1>4. TypeOK'
  BY <1>1, <1>3 DEF TypeOK, Interceptors
<1>5. FilesTrue'
  BY <1>1 DEF FilesTrue
<1>6. Phases' /\ Continued' /\ ReadsOneInput' /\ Search'
  BY <1>1, <1>2, <1>3 DEF IInv, Phases, Continued, ReadsOneInput, Search, Checkpoints, Started
<1>7. TornNow'
  <2>1. ~Passed("CHKPT")'
    BY <1>1, Turns DEF Passed, Phases, Started, Formats, TurnOf
  <2>. QED BY <1>1, <2>1 DEF TornNow, Phases, Writing, Checkpoints
<1>8. \A format \in Formats : (Outputs(format) /\ WrittenWhenDue(format))'
  <2>. SUFFICES ASSUME NEW format \in Formats PROVE (Outputs(format) /\ WrittenWhenDue(format))'
    OBVIOUS
  <2>1. turn' = 1 /\ ~open' /\ TurnOf(format)' \in 1 .. 2
    BY <1>1, Turns DEF Phases, TurnOf
  <2>. QED BY <1>1, <2>1 DEF Outputs, WrittenWhenDue, Passed, Started, Writing
<1>9. ScaledWhenDue'
  BY <1>1, <1>3 DEF ScaledWhenDue, Started
<1>. QED BY <1>1, <1>4, <1>5, <1>6, <1>7, <1>8, <1>9, SameFiles DEF IInv

LEMMA StepInv == ASSUME IInv, Step PROVE IInv'
<1>1. /\ TypeOK /\ FilesTrue /\ TornNow /\ Phases /\ Continued /\ ScaledWhenDue
      /\ pc = "loop" /\ pc' = "notifying" /\ iteration <= EndIteration /\ iteration' = iteration + 1
      /\ particles' = [particles EXCEPT !.iteration = @ + 1, !.f = 1]
      /\ UNCHANGED <<input, files, writers, config, hash, entry, start_iteration, turn, open, starts>>
  BY DEF IInv, Step
<1>2. /\ particles \in Histories /\ starts \in 0 .. MaxStarts /\ starts > 0
      /\ iteration \in 0 .. EndIteration + 1 /\ start_iteration \in 0 .. EndIteration + 1
  BY <1>1 DEF TypeOK, Iterations, Phases
<1>3. /\ particles'.input = particles.input /\ particles'.iteration = iteration + 1
      /\ particles'.scaled = particles.scaled /\ particles'.f = 1
      /\ particles'.mixed = particles.mixed
      /\ particles' \in Histories
  <2>1. particles.iteration = iteration /\ iteration + 1 \in Iterations
    BY <1>1, <1>2 DEF Phases, Started, Iterations
  <2>2. /\ particles.input \in Inputs /\ particles.scaled \in SUBSET Iterations
        /\ particles.mixed \in BOOLEAN
        /\ particles = [input |-> particles.input, iteration |-> particles.iteration,
                        scaled |-> particles.scaled, f |-> particles.f, mixed |-> particles.mixed]
    BY <1>2 DEF Histories
  <2>3. particles' = [input |-> particles.input, iteration |-> particles.iteration + 1,
                      scaled |-> particles.scaled, f |-> 1, mixed |-> particles.mixed]
    BY <1>1, <2>2
  <2>4. 1 \in 0 .. MaxStarts
    BY <1>2
  <2>. QED BY <2>1, <2>2, <2>3, <2>4 DEF Histories
<1>4. TypeOK'
  BY <1>1, <1>2, <1>3 DEF TypeOK, Interceptors, Iterations
<1>5. FilesTrue'
  BY <1>1 DEF FilesTrue
<1>6. Phases' /\ Continued' /\ ReadsOneInput' /\ Search'
  BY <1>1, <1>2, <1>3 DEF IInv, Phases, Continued, ReadsOneInput, Search, Checkpoints, Started
<1>7. TornNow'
  BY <1>1, <1>2 DEF TornNow, Phases, Writing, Checkpoints, Passed, Started
<1>8. \A format \in Formats : Outputs(format)'
  <2>. SUFFICES ASSUME NEW format \in Formats PROVE Outputs(format)'
    OBVIOUS
  <2>1. \A i \in DOMAIN files[format] :
          i \in Nat /\ i <= iteration /\ (Checked(format) => Own(format, i))
    BY <1>1, FileFacts DEF IInv, Outputs, Passed, Started
  <2>2. iteration' \notin DOMAIN files[format] /\ Checked(format)' = Checked(format)
    BY <1>1, <1>2, <1>3, <2>1 DEF Checked
  <2>. QED BY <1>1, <1>2, <2>1, <2>2 DEF Outputs, Own
<1>9. \A format \in Formats : WrittenWhenDue(format)'
  <2>. SUFFICES ASSUME NEW format \in Formats PROVE WrittenWhenDue(format)'
    OBVIOUS
  <2>1. DueDone(format, iteration) /\ turn = 1
    BY <1>1 DEF IInv, WrittenWhenDue, Phases
  <2>2. DueDone(format, iteration - 1)'
    BY <1>1, <1>2, <2>1 DEF DueDone, Has
  <2>3. ~(turn' > TurnOf(format)')
    BY <1>1, <2>1, Turns DEF TurnOf
  <2>. QED BY <1>1, <2>2, <2>3 DEF WrittenWhenDue
<1>10. ScaledWhenDue'
  <2>1. /\ particles.scaled \subseteq 0 .. iteration
        /\ ScaledSince = MultiplesSinceStart(Period["THERMOSTAT"])
    BY <1>1 DEF ScaledWhenDue, Started
  <2>2. particles'.scaled \subseteq 0 .. iteration'
    BY <1>1, <1>2, <1>3, <2>1
  <2>3. iteration' - 1 = iteration
    BY <1>1, <1>2
  <2>4. ScaledSince' = {i \in start_iteration' + 1 .. iteration' - 1 :
                          i % Period["THERMOSTAT"] = 0}
    BY <1>1, <1>3, <2>1, <2>3 DEF ScaledSince, MultiplesSinceStart
  <2>. QED BY <1>1, <2>2, <2>4 DEF ScaledWhenDue
<1>. QED BY <1>1, <1>4, <1>5, <1>6, <1>7, <1>8, <1>9, <1>10, SameFiles DEF IInv

LEMMA LeaveLoopInv == ASSUME IInv, LeaveLoop PROVE IInv'
<1>1. /\ TypeOK /\ FilesTrue /\ TornNow /\ Phases /\ Continued /\ ScaledWhenDue
      /\ pc = "loop" /\ pc' = "ending"
      /\ UNCHANGED <<input, files, writers, config, hash, entry, start_iteration, iteration, particles,
                     turn, open, starts>>
  BY DEF IInv, LeaveLoop
<1>2. iteration \in Nat
  BY <1>1 DEF TypeOK, Iterations
<1>3. TypeOK'
  BY <1>1 DEF TypeOK, Interceptors
<1>4. FilesTrue' /\ Phases' /\ ReadsOneInput' /\ Search' /\ Continued' /\ TornNow'
  BY <1>1 DEF IInv, FilesTrue, Phases, ReadsOneInput, Search, Continued, TornNow, Checkpoints,
              Passed, Started, Writing
<1>5. \A format \in Formats : Outputs(format)'
  <2>. SUFFICES ASSUME NEW format \in Formats PROVE Outputs(format)'
    OBVIOUS
  <2>1. ~(turn' > TurnOf(format)') /\ Passed(format) /\ Checked(format)' = Checked(format)
    BY <1>1, Turns DEF TurnOf, Phases, Passed, Started, Checked
  <2>. QED BY <1>1, <2>1 DEF IInv, Outputs, Own
<1>6. \A format \in Formats : WrittenWhenDue(format)'
  <2>. SUFFICES ASSUME NEW format \in Formats PROVE WrittenWhenDue(format)'
    OBVIOUS
  <2>1. DueDone(format, iteration) /\ turn = 1
    BY <1>1 DEF IInv, WrittenWhenDue, Phases
  <2>2. DueDone(format, iteration - 1)'
    BY <1>1, <1>2, <2>1 DEF DueDone, Has
  <2>3. ~(turn' > TurnOf(format)')
    BY <1>1, <2>1, Turns DEF TurnOf
  <2>. QED BY <1>1, <2>2, <2>3 DEF WrittenWhenDue
<1>7. ScaledWhenDue'
  BY <1>1 DEF ScaledWhenDue, ScaledSince, MultiplesSinceStart, Started
<1>. QED BY <1>1, <1>3, <1>4, <1>5, <1>6, <1>7, SameFiles DEF IInv

-----------------------------------------------------------------------------
(***************************************************************************)
(* The end of a turn                                                       *)
(***************************************************************************)

LEMMA PhasesTurn ==
  ASSUME TypeOK, Phases, NextTurn, pc \in {"starting", "notifying", "ending"}, ~open',
         UNCHANGED <<iteration, start_iteration, starts>>,
         particles'.iteration = particles.iteration, particles'.f = particles.f
  PROVE  Phases'
<1>1. iteration \in Nat /\ start_iteration \in Nat
  BY DEF TypeOK, Iterations
<1>. QED BY <1>1, NextTurnCases DEF Phases, Started

\* A turn that leaves the files of a format alone.
LEMMA OutputsTurn ==
  ASSUME TypeOK, NextTurn, pc \in {"starting", "notifying", "ending"}, ~open',
         NEW format \in Formats, ~Writing(format), Outputs(format), files'[format] = files[format],
         UNCHANGED <<iteration, hash, writers>>, particles'.mixed = particles.mixed,
         turn = TurnOf(format) => pc # "ending",
         pc = "starting" /\ turn = TurnOf(format) =>
            \A i \in DOMAIN files[format] :
               i <= iteration /\ (Checked(format) => Own(format, i))
  PROVE  Outputs(format)'
<1>1. /\ TurnOf(format) \in 1 .. 2 /\ TurnOf(format)' = TurnOf(format) /\ turn \in 1 .. 3
      /\ ~Writing(format)' /\ Checked(format)' = Checked(format)
      /\ \A i \in DOMAIN files[format] : Own(format, i)' = Own(format, i)
  BY Turns DEF TurnOf, Writing, Checked, Own
<1>2. Passed(format)' =>
        \A i \in DOMAIN files[format] :
           i <= iteration /\ (Checked(format) => Own(format, i))
  BY <1>1, NextTurnCases DEF Outputs, Passed, Started
<1>3. pc' = "notifying" /\ turn' <= TurnOf(format) => pc = "notifying" /\ turn <= TurnOf(format)
  BY <1>1, NextTurnCases
<1>4. pc' \in {"notifying", "ending"} /\ turn' > TurnOf(format) =>
        (iteration \in DOMAIN files[format] => Own(format, iteration))
  <2>. SUFFICES ASSUME pc' \in {"notifying", "ending"}, turn' > TurnOf(format),
                       iteration \in DOMAIN files[format]
                PROVE  Own(format, iteration)
    OBVIOUS
  <2>1. pc' = pc /\ turn >= TurnOf(format)
    BY <1>1, NextTurnCases
  <2>2. iteration \in Nat
    BY DEF TypeOK, Iterations
  <2>3. turn = TurnOf(format) => pc = "notifying"
    BY <2>1
  <2>4. turn # TurnOf(format)
    BY <1>1, <2>2, <2>3 DEF Outputs
  <2>. QED BY <1>1, <2>1, <2>4 DEF Outputs
<1>. QED BY <1>1, <1>2, <1>3, <1>4 DEF Outputs

\* A turn that leaves complete files alone, and writes its own if it is due.
LEMMA WrittenTurn ==
  ASSUME TypeOK, Phases, NextTurn, pc \in {"starting", "notifying", "ending"},
         NEW format \in Formats, WrittenWhenDue(format),
         UNCHANGED <<iteration, start_iteration, writers>>,
         \A i \in Iterations : Has(format, i) => Has(format, i)',
         turn = TurnOf(format) /\ pc = "notifying" /\ iteration % Period[format] = 0
            => Has(format, iteration)',
         turn = TurnOf(format) /\ pc = "ending" => Has(format, iteration)'
  PROVE  WrittenWhenDue(format)'
<1>1. TurnOf(format) \in 1 .. 2 /\ TurnOf(format)' = TurnOf(format) /\ turn \in 1 .. 3
  BY Turns DEF TurnOf
<1>2. iteration \in Iterations /\ iteration \in Nat /\ start_iteration \in Nat
  BY DEF TypeOK, Iterations
<1>3. ASSUME NEW n \in Int, n <= iteration, DueDone(format, n)
      PROVE  DueDone(format, n)'
  <2>. SUFFICES ASSUME NEW i \in start_iteration + 1 .. n, i % Period[format] = 0
                PROVE  Has(format, i)'
    BY DEF DueDone
  <2>1. Has(format, i)
    BY <1>3 DEF DueDone
  <2>2. i \in Iterations
    BY <1>2, <1>3 DEF Iterations, TypeOK
  <2>. QED BY <2>1, <2>2
<1>4. CASE pc = "starting"
  <2>1. iteration = start_iteration
    BY <1>4 DEF Phases
  <2>2. DueDone(format, iteration)'
    BY <1>2, <2>1 DEF DueDone
  <2>. QED BY <1>1, <1>4, <2>2, NextTurnCases DEF WrittenWhenDue
<1>5. CASE pc = "notifying"
  <2>1. DueDone(format, iteration - 1)'
    BY <1>2, <1>3, <1>5 DEF WrittenWhenDue
  <2>2. turn >= TurnOf(format) => DueDone(format, iteration)'
    <3>1. CASE turn > TurnOf(format)
      BY <1>2, <1>3, <1>5, <3>1 DEF WrittenWhenDue
    <3>2. CASE turn = TurnOf(format)
      <4>1. \A i \in start_iteration + 1 .. iteration :
              i = iteration \/ i \in start_iteration + 1 .. iteration - 1
        BY <1>2
      <4>. QED BY <1>2, <1>5, <2>1, <3>2, <4>1 DEF DueDone
    <3>. QED BY <1>1, <3>1, <3>2
  <2>3. \/ pc' = "notifying" /\ turn' = turn + 1
        \/ pc' = "loop" /\ turn = 3
    BY <1>5, NextTurnCases
  <2>. QED BY <1>1, <2>1, <2>2, <2>3 DEF WrittenWhenDue
<1>6. CASE pc = "ending"
  <2>1. DueDone(format, iteration - 1)'
    BY <1>2, <1>3, <1>6 DEF WrittenWhenDue
  <2>2. turn >= TurnOf(format) => Has(format, iteration)'
    BY <1>1, <1>2, <1>6 DEF WrittenWhenDue
  <2>3. turn = 3 => DueDone(format, iteration)'
    <3>1. \A i \in start_iteration + 1 .. iteration :
              i = iteration \/ i \in start_iteration + 1 .. iteration - 1
      BY <1>2
    <3>. QED BY <1>1, <1>2, <2>1, <2>2, <3>1 DEF DueDone
  <2>4. \/ pc' = "ending" /\ turn' = turn + 1
        \/ pc' = "finished" /\ turn = 3
    BY <1>6, NextTurnCases
  <2>. QED BY <1>1, <2>1, <2>2, <2>3, <2>4 DEF WrittenWhenDue
<1>. QED BY <1>4, <1>5, <1>6

\* A turn of another interceptor than the thermostat, or one that is not due.
LEMMA ScaledTurn ==
  ASSUME TypeOK, Phases, ScaledWhenDue, NextTurn, pc \in {"starting", "notifying", "ending"},
         UNCHANGED <<iteration, start_iteration, particles>>,
         turn = 3 /\ pc = "notifying" => iteration % Period["THERMOSTAT"] # 0
  PROVE  ScaledWhenDue'
<1>1. iteration \in Nat /\ start_iteration \in Nat
  BY DEF TypeOK, Iterations
<1>2. ScaledSince' = ScaledSince /\ particles.scaled \subseteq 0 .. iteration
  BY DEF ScaledSince, ScaledWhenDue, Started
<1>3. pc' = "loop" => ScaledSince = MultiplesSinceStart(Period["THERMOSTAT"])
  <2>1. CASE pc = "starting"
    <3>1. iteration = start_iteration
      BY <2>1 DEF Phases
    <3>2. ScaledSince = {} /\ MultiplesSinceStart(Period["THERMOSTAT"]) = {}
      BY <1>1, <1>2, <3>1 DEF ScaledSince, MultiplesSinceStart
    <3>. QED BY <3>2
  <2>2. CASE pc = "notifying" /\ pc' = "loop"
    <3>1. iteration % Period["THERMOSTAT"] # 0
      BY <2>2, NextTurnCases
    <3>2. ScaledSince = {i \in start_iteration + 1 .. iteration - 1 :
                           i % Period["THERMOSTAT"] = 0}
      BY <2>2 DEF ScaledWhenDue
    <3>3. \A i \in start_iteration + 1 .. iteration :
            i = iteration \/ i \in start_iteration + 1 .. iteration - 1
      BY <1>1
    <3>4. \A i \in start_iteration + 1 .. iteration - 1 : i \in start_iteration + 1 .. iteration
      BY <1>1
    <3>. QED BY <3>1, <3>2, <3>3, <3>4 DEF MultiplesSinceStart
  <2>. QED BY <2>1, <2>2, NextTurnCases
<1>4. MultiplesSinceStart(Period["THERMOSTAT"])' = MultiplesSinceStart(Period["THERMOSTAT"])
  BY DEF MultiplesSinceStart
<1>5. \/ pc' = pc
      \/ pc = "ending" /\ pc' = "finished"
      \/ pc \in {"starting", "notifying"} /\ pc' = "loop"
  BY NextTurnCases
<1>. QED BY <1>2, <1>3, <1>4, <1>5 DEF ScaledWhenDue, Started

\* When the frame writer of a continued simulation has removed what is stale, the
\* rest comes from the same input file, unless the particles are mixed.
LEMMA StaleGone ==
  ASSUME IInv, pc = "starting", start_iteration > 0,
         NEW format \in Formats, turn = TurnOf(format), Stale(format) = {}
  PROVE  \A i \in DOMAIN files[format] :
            i <= iteration /\ (Checked(format) => Own(format, i))
<1>1. /\ TypeOK /\ Phases /\ ReadsOneInput /\ Continued /\ OneSource /\ FramesMatch
      /\ start_iteration \in Nat /\ iteration = start_iteration
  BY DEF IInv, TypeOK, Iterations, Phases
<1>. SUFFICES ASSUME NEW i \in DOMAIN files[format]
              PROVE  i <= iteration /\ (Checked(format) => Own(format, i))
  OBVIOUS
<1>3. i \in Nat /\ i <= start_iteration
  BY <1>1, FileFacts DEF Stale
<1>. SUFFICES ASSUME Checked(format) PROVE Own(format, i)
  BY <1>1, <1>3
<1>2. /\ start_iteration \in DOMAIN Checkpoints /\ Checkpoints[start_iteration].hash = hash
      /\ ~Checkpoints[start_iteration].particles.mixed
  BY <1>1 DEF Continued, ReadsOneInput, Checked
<1>4. CASE format = "CHKPT"
  BY <1>1, <1>2, <1>3, <1>4 DEF OneSource, Checkpoints, Own
<1>5. CASE format = "VTU"
  BY <1>1, <1>2, <1>3, <1>5 DEF FramesMatch, Own, Checked
<1>. QED BY <1>4, <1>5 DEF Formats

LEMMA PassTurnInv == ASSUME IInv, PassTurn PROVE IInv'
<1>1. /\ TypeOK /\ FilesTrue /\ TornNow /\ Phases /\ Continued /\ ScaledWhenDue
      /\ pc \in {"starting", "notifying", "ending"} /\ ~open /\ ~open' /\ NextTurn
      /\ UNCHANGED <<input, files, writers, config, hash, entry, start_iteration, iteration, particles,
                     open, starts>>
  BY DEF IInv, PassTurn, Calling
<1>2. /\ turn \in 1 .. 3 /\ (Writer <=> turn <= 2)
      /\ turn = 3 => Interceptors[turn] = "THERMOSTAT"
      /\ start_iteration \in Nat /\ iteration \in Nat
  BY <1>1, Turns DEF TypeOK, Iterations
<1>3. TypeOK'
  <2>1. turn' \in 1 .. 3 /\ DOMAIN Interceptors' = 1 .. 3
    BY <1>1, <1>2, NextTurnCases DEF Interceptors
  <2>2. pc' \in {"starting", "notifying", "ending", "loop", "finished"}
    BY <1>1, NextTurnCases
  <2>. QED BY <1>1, <2>1, <2>2 DEF TypeOK
<1>4. FilesTrue' /\ Continued'
  <2>1. /\ pc' \notin {"parsed", "searching", "asking", "constructed"}
        /\ pc' = "starting" => pc = "starting"
    BY <1>1, NextTurnCases
  <2>. QED BY <1>1, <2>1 DEF FilesTrue, Continued, Checkpoints
<1>5. Phases' /\ ReadsOneInput' /\ Search'
  <2>1. Phases'
    BY <1>1, PhasesTurn
  <2>2. ReadsOneInput' /\ Search'
    BY <1>1, NextTurnCases DEF IInv, ReadsOneInput, Search
  <2>. QED BY <2>1, <2>2
<1>6. ASSUME NEW format \in Formats, turn = TurnOf(format)
      PROVE  /\ pc # "ending"
             /\ pc = "notifying" => iteration % Period[format] # 0
             /\ pc = "starting" => start_iteration > 0 /\ Stale(format) = {}
  <2>1. Interceptors[turn] = format /\ Writer
    BY <1>1, <1>2, <1>6, Turns
  <2>2. ~WritesFile /\ (pc = "starting" => Stale(format) = {})
    BY <2>1 DEF PassTurn
  <2>. QED BY <1>1, <1>2, <2>1, <2>2 DEF WritesFile, Calling, Due
<1>7. ASSUME NEW format \in Formats PROVE Outputs(format)' /\ WrittenWhenDue(format)'
  <2>1. Outputs(format)'
    BY <1>1, <1>6, <1>7, StaleGone, OutputsTurn DEF IInv, Writing
  <2>2. \A i \in Iterations : Has(format, i) => Has(format, i)'
    BY <1>1 DEF Has
  <2>3. WrittenWhenDue(format)'
    BY <1>1, <1>6, <1>7, <2>2, WrittenTurn DEF IInv
  <2>. QED BY <2>1, <2>3
<1>8. TornNow'
  <2>1. \A i \in DOMAIN Checkpoints :
          ~Checkpoints[i].complete => i = 0 /\ start_iteration = 0 /\ pc = "starting" /\ ~Passed("CHKPT")
    BY <1>1 DEF TornNow, Writing
  <2>2. pc = "starting" /\ start_iteration = 0 /\ ~Passed("CHKPT") => pc' = "starting" /\ ~Passed("CHKPT")'
    <3>1. SUFFICES ASSUME pc = "starting", start_iteration = 0, ~Passed("CHKPT")
                   PROVE  pc' = "starting" /\ ~Passed("CHKPT")'
      OBVIOUS
    <3>2. turn <= TurnOf("CHKPT") /\ TurnOf("CHKPT") \in 1 .. 2
      BY <1>1, <1>2, <3>1, Turns DEF Passed, Formats
    <3>3. turn # TurnOf("CHKPT")
      BY <1>6, <3>1 DEF Formats
    <3>4. pc' = "starting" /\ turn' = turn + 1
      BY <1>1, <1>2, <3>1, <3>2, NextTurnCases
    <3>. QED BY <1>1, <1>2, <3>2, <3>3, <3>4 DEF Passed, Started, TurnOf
  <2>. QED BY <1>1, <2>1, <2>2 DEF TornNow, Checkpoints
<1>9. ScaledWhenDue'
  <2>1. turn = 3 /\ pc = "notifying" => iteration % Period["THERMOSTAT"] # 0
    BY <1>1, <1>2 DEF PassTurn, Scales, Calling, Due
  <2>. QED BY <1>1, <2>1, ScaledTurn
<1>. QED BY <1>1, <1>3, <1>4, <1>5, <1>7, <1>8, <1>9, SameFiles DEF IInv

LEMMA ScaleTemperatureInv == ASSUME IInv, ScaleTemperature PROVE IInv'
<1>1. /\ TypeOK /\ FilesTrue /\ TornNow /\ Phases /\ Continued /\ ScaledWhenDue
      /\ pc = "notifying" /\ ~open /\ ~open' /\ NextTurn
      /\ particles' = [particles EXCEPT !.scaled = @ \cup {iteration}]
      /\ UNCHANGED <<input, files, writers, config, hash, entry, start_iteration, iteration, open, starts>>
  BY DEF IInv, ScaleTemperature, Scales, Calling
<1>2. /\ turn = 3 /\ iteration % Period["THERMOSTAT"] = 0
      /\ iteration \in Iterations /\ iteration \in Nat /\ start_iteration \in Nat
      /\ iteration > start_iteration
  <2>1. turn = 3 /\ Interceptors[turn] = "THERMOSTAT"
    BY <1>1, Turns DEF ScaleTemperature, Scales
  <2>. QED BY <1>1, <2>1 DEF ScaleTemperature, Scales, Due, TypeOK, Iterations, Phases
<1>3. /\ particles' \in Histories /\ particles'.input = particles.input
      /\ particles'.iteration = particles.iteration /\ particles'.f = particles.f
      /\ particles'.mixed = particles.mixed
      /\ particles'.scaled = particles.scaled \cup {iteration}
  BY <1>1, <1>2 DEF TypeOK, Histories
<1>4. pc' = "loop" /\ turn' = 1
  BY <1>1, <1>2, NextTurnCases
<1>5. TypeOK'
  <2>1. turn' \in DOMAIN Interceptors'
    BY <1>4 DEF Interceptors
  <2>. QED BY <1>1, <1>3, <1>4, <2>1 DEF TypeOK
<1>6. FilesTrue' /\ Continued' /\ TornNow' /\ ReadsOneInput' /\ Search'
  BY <1>1, <1>3, <1>4 DEF IInv, FilesTrue, Continued, TornNow, Checkpoints, Writing, ReadsOneInput, Search
<1>7. Phases'
  BY <1>1, <1>3, PhasesTurn
<1>8. ASSUME NEW format \in Formats PROVE Outputs(format)' /\ WrittenWhenDue(format)'
  <2>1. turn # TurnOf(format)
    BY <1>1, <1>2, Turns
  <2>2. Outputs(format)'
    BY <1>1, <1>3, <1>8, <2>1, OutputsTurn DEF IInv, Writing
  <2>3. \A i \in Iterations : Has(format, i) => Has(format, i)'
    BY <1>1 DEF Has
  <2>4. WrittenWhenDue(format)'
    BY <1>1, <1>8, <2>1, <2>3, WrittenTurn DEF IInv
  <2>. QED BY <2>2, <2>4
<1>9. ScaledWhenDue'
  <2>1. particles.scaled \subseteq 0 .. iteration
    BY <1>1 DEF ScaledWhenDue, Started
  <2>2. ScaledSince = {i \in start_iteration + 1 .. iteration - 1 : i % Period["THERMOSTAT"] = 0}
    BY <1>1 DEF ScaledWhenDue
  <2>3. ScaledSince' = ScaledSince \cup {iteration}
    BY <1>1, <1>2, <1>3 DEF ScaledSince
  <2>4. \A i \in start_iteration + 1 .. iteration :
          i = iteration \/ i \in start_iteration + 1 .. iteration - 1
    BY <1>2
  <2>5. \A i \in start_iteration + 1 .. iteration - 1 : i \in start_iteration + 1 .. iteration
    BY <1>2
  <2>6. MultiplesSinceStart(Period["THERMOSTAT"])' = ScaledSince \cup {iteration}
    BY <1>1, <1>2, <2>2, <2>4, <2>5 DEF MultiplesSinceStart
  <2>7. particles'.scaled \subseteq 0 .. iteration'
    BY <1>1, <1>2, <1>3, <2>1
  <2>. QED BY <1>4, <2>3, <2>6, <2>7 DEF ScaledWhenDue
<1>. QED BY <1>1, <1>5, <1>6, <1>7, <1>8, <1>9, SameFiles DEF IInv

-----------------------------------------------------------------------------
(***************************************************************************)
(* Steps that change the directory                                         *)
(***************************************************************************)

LEMMA RemoveFileInv == ASSUME IInv, RemoveFile PROVE IInv'
<1>. DEFINE g == Interceptors[turn]
<1>1. /\ TypeOK /\ FilesTrue /\ OneSource /\ TornIsLast /\ FramesMatch
      /\ TornNow /\ Phases /\ Continued /\ ScaledWhenDue
      /\ pc = "starting" /\ ~open
      /\ UNCHANGED <<input, writers, pc, config, hash, entry, start_iteration, iteration, particles, turn,
                     open, starts>>
  BY DEF IInv, RemoveFile, Calling, process
<1>2. g \in Formats /\ turn = TurnOf(g)
  BY <1>1, Turns DEF RemoveFile
<1>3. PICK i \in Stale(g) : files' = [files EXCEPT ![g] = Restrict(@, DOMAIN @ \ {i})]
  BY DEF RemoveFile
<1>4. /\ files' = [h \in Formats |-> files'[h]]
      /\ \A h \in Formats : h # g => files'[h] = files[h]
      /\ DOMAIN files'[g] = DOMAIN files[g] \ {i}
      /\ \A j \in DOMAIN files[g] : j # i => files'[g][j] = files[g][j]
  <2>. HIDE DEF g
  <2>. QED BY <1>1, <1>2, <1>3, RemoveFacts
<1>5. \A h \in Formats :
        /\ DOMAIN files'[h] \subseteq DOMAIN files[h]
        /\ \A j \in DOMAIN files'[h] : files'[h][j] = files[h][j]
  <2>. HIDE DEF g
  <2>. QED BY <1>4
<1>6. start_iteration = 0 \/ i > start_iteration
  BY <1>3 DEF Stale
<1>. HIDE DEF g
<1>7. TypeOK'
  <2>1. \A h \in Formats :
          /\ DOMAIN files'[h] \subseteq Iterations
          /\ \A j \in DOMAIN files'[h] :
               files'[h][j] \in [complete : BOOLEAN, hash : Inputs, iteration : {j},
                                 particles : Histories]
    BY <1>1, <1>5 DEF TypeOK
  <2>. QED BY <1>1, <1>4, <2>1 DEF TypeOK, Interceptors
<1>8. FilesTrue'
  BY <1>1, <1>5 DEF FilesTrue
<1>9. OneSource' /\ TornIsLast' /\ FramesMatch' /\ TornNow'
  BY <1>1, <1>5 DEF OneSource, TornIsLast, FramesMatch, TornNow, Checkpoints, Formats,
                    Writing, Passed, Started, TurnOf
<1>10. Continued'
  <2>. SUFFICES ASSUME start_iteration > 0 PROVE Continued'
    BY <1>1 DEF Continued
  <2>1. start_iteration \in Nat /\ i > start_iteration
    BY <1>1, <1>6 DEF TypeOK, Iterations
  <2>2. start_iteration \in DOMAIN files'["CHKPT"]
    BY <1>1, <1>4, <2>1 DEF Continued, Checkpoints, Formats
  <2>. QED BY <1>1, <1>5, <2>2 DEF Continued, Checkpoints, Formats
<1>11. Phases' /\ ScaledWhenDue' /\ ReadsOneInput' /\ Search'
  BY <1>1 DEF IInv, Phases, ScaledWhenDue, ScaledSince, MultiplesSinceStart, Started,
              ReadsOneInput, Search
<1>12. \A h \in Formats : Outputs(h)' /\ WrittenWhenDue(h)'
  BY <1>1, <1>5 DEF IInv, Outputs, Checked, Own, WrittenWhenDue, Passed, Started, Writing, TurnOf
<1>. QED BY <1>7, <1>8, <1>9, <1>10, <1>11, <1>12 DEF IInv

\* When the frame writer of a format may write, and what is there then.
MayWrite(format) ==
    /\ pc \in {"starting", "notifying", "ending"}
    /\ turn = TurnOf(format)
    /\ pc = "starting" =>
         /\ start_iteration = 0
         /\ \A i \in DOMAIN files[format] : i = 0 /\ Own(format, i)

\* A file that is written, complete or not, leaves the directory in order.
LEMMA PutInv ==
  ASSUME IInv, NEW format \in Formats, MayWrite(format),
         NEW file \in FileType(iteration), file.hash = hash, file.particles = particles,
         files' = Put(format, iteration, file),
         UNCHANGED <<input, writers, config, hash, entry, start_iteration, iteration, particles, starts>>,
         pc' \in {"starting", "notifying", "ending", "loop", "finished"}
  PROVE  /\ files' = [g \in Formats |-> files'[g]]
         /\ \A g \in Formats :
              /\ DOMAIN files'[g] \subseteq Iterations
              /\ \A j \in DOMAIN files'[g] : files'[g][j] \in FileType(j)
         /\ FilesTrue' /\ OneSource' /\ TornIsLast' /\ FramesMatch'
         /\ \A g \in Formats : g # format => files'[g] = files[g]
         /\ DOMAIN files'[format] = DOMAIN files[format] \cup {iteration}
         /\ files'[format][iteration] = file
         /\ \A j \in DOMAIN files[format] : j # iteration => files'[format][j] = files[format][j]
<1>1. /\ TypeOK /\ FilesTrue /\ OneSource /\ TornIsLast /\ FramesMatch
      /\ TornNow /\ Phases /\ ReadsOneInput /\ Continued /\ ScaledWhenDue /\ Outputs(format)
      /\ pc \in {"starting", "notifying", "ending"} /\ turn = TurnOf(format)
  BY DEF IInv, MayWrite
<1>2. /\ iteration \in Iterations /\ iteration \in Nat /\ particles \in Histories
      /\ hash \in Inputs /\ start_iteration \in Nat
  BY <1>1 DEF TypeOK, Iterations
<1>4. /\ files' = [g \in Formats |-> files'[g]]
      /\ \A g \in Formats : g # format => files'[g] = files[g]
      /\ DOMAIN files'[format] = DOMAIN files[format] \cup {iteration}
      /\ files'[format][iteration] = file
      /\ \A j \in DOMAIN files[format] : j # iteration => files'[format][j] = files[format][j]
  BY <1>1, PutFacts
<1>5. \A g \in Formats :
        /\ DOMAIN files'[g] \subseteq Iterations
        /\ \A j \in DOMAIN files'[g] : files'[g][j] \in FileType(j)
  <2>1. \A g \in Formats : \A j \in DOMAIN files[g] : j \in Iterations /\ files[g][j] \in FileType(j)
    BY <1>1, FileFacts
  <2>. QED BY <1>2, <1>4, <2>1
<1>6. FilesTrue'
  <2>1. /\ particles.mixed \/ particles.input = hash
        /\ particles.iteration = iteration
        /\ particles.scaled \subseteq 0 .. iteration /\ particles.f <= starts
    BY <1>1 DEF Phases, ReadsOneInput, ScaledWhenDue, Started
  <2>2. ASSUME NEW g \in Formats, NEW j \in DOMAIN files'[g]
        PROVE  /\ files'[g][j].particles.mixed \/ files'[g][j].particles.input = files'[g][j].hash
               /\ files'[g][j].particles.iteration = j
               /\ files'[g][j].particles.scaled \subseteq 0 .. j
               /\ files'[g][j].particles.f <= starts
    <3>1. CASE g = format /\ j = iteration
      BY <1>4, <2>1, <3>1
    <3>2. CASE ~(g = format /\ j = iteration)
      <4>1. j \in DOMAIN files[g] /\ files'[g][j] = files[g][j]
        BY <1>4, <2>2, <3>2
      <4>. QED BY <1>1, <2>2, <4>1 DEF FilesTrue
    <3>. QED BY <3>1, <3>2
  <2>. QED BY <2>2 DEF FilesTrue
<1>7. \A j \in DOMAIN files[format] :
        j \in Nat /\ j <= iteration /\ (Checked(format) => Own(format, j))
  <2>1. CASE pc = "starting"
    BY <1>1, <1>2, <2>1 DEF MayWrite
  <2>2. CASE pc # "starting"
    BY <1>1, <2>2, FileFacts DEF Outputs, Passed, Started
  <2>. QED BY <2>1, <2>2
<1>. DEFINE new == files'[format]
<1>11. ASSUME Checked(format), NEW j \in DOMAIN new
       PROVE  new[j].hash = hash
  <2>1. CASE j = iteration
    BY <1>4, <2>1
  <2>2. CASE j # iteration
    <3>1. j \in DOMAIN files[format] /\ new[j] = files[format][j]
      BY <1>4, <1>11, <2>2
    <3>. QED BY <1>7, <1>11, <3>1 DEF Own
  <2>. QED BY <2>1, <2>2
<1>8. OneSource'
  <2>1. CASE format = "CHKPT"
    <3>. SUFFICES ASSUME NEW i \in DOMAIN new, NEW j \in DOMAIN new, j <= i,
                         ~new[i].particles.mixed
                  PROVE  new[j].hash = new[i].hash
      BY <2>1 DEF OneSource, Checkpoints
    <3>1. i \in Nat /\ j \in Nat /\ i <= iteration
      BY <1>2, <1>4, <1>7
    <3>2. CASE i = iteration
      <4>1. Checked(format)
        BY <1>4, <2>1, <3>2 DEF Checked
      <4>. QED BY <1>11, <4>1
    <3>3. CASE i # iteration
      <4>1. /\ j # iteration /\ i \in DOMAIN Checkpoints /\ j \in DOMAIN Checkpoints
            /\ new[i] = Checkpoints[i] /\ new[j] = Checkpoints[j]
        BY <1>2, <1>4, <2>1, <3>1, <3>3 DEF Checkpoints
      <4>. QED BY <1>1, <4>1 DEF OneSource
    <3>. QED BY <3>2, <3>3
  <2>2. CASE format # "CHKPT"
    BY <1>1, <1>4, <2>2 DEF OneSource, Checkpoints, Formats
  <2>. QED BY <2>1, <2>2
<1>9. TornIsLast'
  <2>1. CASE format = "CHKPT"
    <3>1. \A j \in DOMAIN Checkpoints : ~Checkpoints[j].complete => j = iteration
      <4>1. pc = "starting" => iteration = 0
        BY <1>1 DEF MayWrite, Phases
      <4>2. pc # "starting" => \A j \in DOMAIN Checkpoints : ~Checkpoints[j].complete => j = iteration
        BY <1>1 DEF TornNow
      <4>3. pc = "starting" => \A j \in DOMAIN Checkpoints : j = 0
        BY <2>1 DEF MayWrite, Checkpoints
      <4>. QED BY <4>1, <4>2, <4>3
    <3>. QED BY <1>2, <1>4, <1>7, <2>1, <3>1 DEF TornIsLast, Checkpoints
  <2>2. CASE format # "CHKPT"
    BY <1>1, <1>4, <2>2 DEF TornIsLast, Checkpoints, Formats
  <2>. QED BY <2>1, <2>2
<1>10. FramesMatch'
  <2>. SUFFICES ASSUME writers[1] = "CHKPT", NEW i \in DOMAIN Checkpoints',
                       NEW j \in DOMAIN files'["VTU"], 0 < i, j <= i,
                       ~Checkpoints'[i].particles.mixed
                PROVE  files'["VTU"][j].hash = Checkpoints'[i].hash
    BY DEF FramesMatch
  <2>1. CASE pc = "starting"
    <3>1. iteration = 0
      BY <1>1, <2>1 DEF MayWrite, Phases
    <3>2. \A k \in DOMAIN Checkpoints' : k = 0
      <4>1. CASE format = "CHKPT"
        BY <1>4, <2>1, <3>1, <4>1 DEF MayWrite, Checkpoints
      <4>2. CASE format = "VTU"
        <5>1. Passed("CHKPT")
          BY <1>1, <2>1, <4>2, Turns DEF Passed
        <5>2. \A k \in DOMAIN Checkpoints : k <= 0 /\ k \in Nat
          BY <1>1, <3>1, <5>1, FileFacts DEF IInv, Outputs, Checkpoints, Formats
        <5>. QED BY <1>4, <4>2, <5>2 DEF Checkpoints, Formats
      <4>. QED BY <4>1, <4>2 DEF Formats
    <3>. QED BY <3>2
  <2>2. CASE pc # "starting" /\ format = "VTU"
    <3>1. Checkpoints' = Checkpoints /\ i \in DOMAIN Checkpoints /\ i \in Nat /\ i <= iteration
      <4>1. Checkpoints' = Checkpoints
        BY <1>4, <2>2 DEF Checkpoints, Formats
      <4>. QED BY <1>1, <2>2, <4>1, FileFacts DEF IInv, Outputs, Passed, Started, Checkpoints, Formats
    <3>2. CASE j # iteration
      BY <1>1, <1>4, <2>2, <3>1, <3>2 DEF FramesMatch
    <3>3. CASE j = iteration
      <4>1. i = iteration /\ files'["VTU"][j].hash = hash
        BY <1>2, <1>4, <2>2, <3>1, <3>3
      <4>2. turn > TurnOf("CHKPT")
        BY <1>1, <2>2, Turns
      <4>3. pc \in {"notifying", "ending"} /\ Outputs("CHKPT")
        BY <1>1, <2>2 DEF IInv, Formats
      <4>. QED BY <3>1, <4>1, <4>2, <4>3 DEF Outputs, Own, Checkpoints
    <3>. QED BY <3>2, <3>3
  <2>3. CASE pc # "starting" /\ format = "CHKPT"
    <3>1. files'["VTU"] = files["VTU"] /\ i \in Nat /\ i <= iteration
      BY <1>2, <1>4, <1>7, <2>3 DEF Checkpoints, Formats
    <3>2. CASE i # iteration
      <4>1. i \in DOMAIN Checkpoints /\ Checkpoints'[i] = Checkpoints[i]
        BY <1>4, <2>3, <3>2 DEF Checkpoints
      <4>. QED BY <1>1, <3>1, <4>1 DEF FramesMatch
    <3>3. CASE i = iteration
      <4>1. Checkpoints'[i].hash = hash /\ ~particles.mixed
        BY <1>4, <2>3, <3>3 DEF Checkpoints
      <4>2. Checked("VTU") /\ Passed("VTU") /\ Outputs("VTU")
        BY <1>1, <2>3, <4>1 DEF Checked, Passed, Started, IInv, Formats
      <4>. QED BY <3>1, <4>1, <4>2 DEF Outputs, Own
    <3>. QED BY <3>2, <3>3
  <2>. QED BY <2>1, <2>2, <2>3 DEF Formats
<1>. QED BY <1>4, <1>5, <1>6, <1>8, <1>9, <1>10

LEMMA OpenFileInv == ASSUME IInv, OpenFile PROVE IInv'
<1>1. /\ TypeOK /\ TornNow /\ Phases /\ Continued /\ ScaledWhenDue
      /\ pc \in {"starting", "notifying", "ending"} /\ ~open /\ open' = TRUE
      /\ UNCHANGED <<input, writers, pc, config, hash, entry, start_iteration, iteration, particles, turn, starts>>
      /\ iteration \in Nat /\ start_iteration \in Nat
  BY DEF IInv, OpenFile, WritesFile, Calling, TypeOK, Iterations
<1>2. PICK g \in Formats : g = Interceptors[turn] /\ turn = TurnOf(g) /\ turn <= 2
  BY <1>1, Turns DEF OpenFile, WritesFile
<1>3. MayWrite(g)
  BY <1>1, <1>2 DEF MayWrite, OpenFile, WritesFile, Calling, Stale
<1>4. /\ files' = Put(g, iteration, Torn)
      /\ Torn \in FileType(iteration) /\ Torn.hash = hash /\ Torn.particles = particles
  BY <1>1, <1>2 DEF OpenFile, Torn, Content, FileType, TypeOK
<1>5. /\ files' = [h \in Formats |-> files'[h]]
      /\ \A h \in Formats :
           /\ DOMAIN files'[h] \subseteq Iterations
           /\ \A j \in DOMAIN files'[h] : files'[h][j] \in FileType(j)
      /\ FilesTrue' /\ OneSource' /\ TornIsLast' /\ FramesMatch'
      /\ \A h \in Formats : h # g => files'[h] = files[h]
      /\ DOMAIN files'[g] = DOMAIN files[g] \cup {iteration}
      /\ files'[g][iteration].hash = hash /\ files'[g][iteration].particles = particles
      /\ \A j \in DOMAIN files[g] : j # iteration => files'[g][j] = files[g][j]
  BY <1>1, <1>3, <1>4, PutInv
<1>6. TypeOK'
  BY <1>1, <1>5 DEF TypeOK, FileType, Interceptors
<1>7. Phases' /\ ScaledWhenDue' /\ ReadsOneInput' /\ Search'
  BY <1>1, <1>2, <1>3 DEF IInv, Phases, ScaledWhenDue, ScaledSince, MultiplesSinceStart, Started,
                          MayWrite, ReadsOneInput, Search
<1>8. Continued'
  <2>. SUFFICES ASSUME start_iteration > 0 PROVE Continued'
    BY <1>1 DEF Continued
  <2>1. pc \in {"notifying", "ending"} /\ pc' \in {"notifying", "ending"}
    BY <1>1, <1>3 DEF MayWrite
  <2>2. /\ start_iteration \in DOMAIN Checkpoints
        /\ particles.mixed \/ /\ Checkpoints[start_iteration].hash = config
                              /\ ~Checkpoints[start_iteration].particles.mixed
    BY <1>1 DEF Continued
  <2>3. start_iteration \in DOMAIN Checkpoints'
    BY <1>1, <1>5, <2>2 DEF Checkpoints, Formats
  <2>4. CASE Checkpoints'[start_iteration] = Checkpoints[start_iteration]
    BY <1>1, <2>1, <2>2, <2>3, <2>4 DEF Continued
  <2>5. CASE Checkpoints'[start_iteration] # Checkpoints[start_iteration]
    <3>1. g = "CHKPT" /\ iteration = start_iteration
      BY <1>5, <2>2, <2>5 DEF Checkpoints, Formats
    <3>2. /\ Checkpoints'[start_iteration].hash = hash
          /\ Checkpoints'[start_iteration].particles = particles
      BY <1>5, <3>1 DEF Checkpoints
    <3>3. particles.mixed \/ hash = config
      BY DEF IInv, ReadsOneInput
    <3>. QED BY <1>1, <2>1, <2>3, <3>2, <3>3 DEF Continued
  <2>. QED BY <2>4, <2>5
<1>9. /\ \A h \in Formats : TurnOf(h)' = TurnOf(h) /\ TurnOf(h) \in 1 .. 2
      /\ \A h \in Formats : h # g => TurnOf(h) # turn
  BY <1>1, <1>2, Turns DEF TurnOf
<1>10. TornNow'
  <2>. SUFFICES ASSUME NEW j \in DOMAIN Checkpoints', ~Checkpoints'[j].complete
                PROVE  \/ Writing("CHKPT")' /\ j = iteration
                       \/ /\ j = 0 /\ start_iteration = 0
                          /\ pc = "starting" /\ ~Passed("CHKPT")'
    BY <1>1 DEF TornNow
  <2>1. CASE g = "CHKPT"
    <3>1. j \in DOMAIN Checkpoints \/ j = iteration
      BY <1>5, <2>1 DEF Checkpoints
    <3>2. CASE j = iteration
      BY <1>1, <1>2, <1>9, <2>1, <3>2 DEF Writing
    <3>3. CASE j # iteration
      <4>1. j \in DOMAIN Checkpoints /\ ~Checkpoints[j].complete
        BY <1>5, <2>1, <3>1, <3>3 DEF Checkpoints
      <4>2. j = 0 /\ pc = "starting" /\ iteration = 0
        BY <1>1, <4>1 DEF TornNow, Writing, Phases
      <4>. QED BY <3>3, <4>2
    <3>. QED BY <3>2, <3>3
  <2>2. CASE g # "CHKPT"
    <3>1. Checkpoints' = Checkpoints
      BY <1>5, <2>2 DEF Checkpoints, Formats
    <3>2. j = 0 /\ start_iteration = 0 /\ pc = "starting" /\ ~Passed("CHKPT")
      BY <1>1, <3>1 DEF TornNow, Writing
    <3>. QED BY <1>1, <1>9, <3>2 DEF Passed, Started, Formats
  <2>. QED BY <2>1, <2>2
<1>11. ASSUME NEW h \in Formats PROVE Outputs(h)'
  <2>0. Outputs(h) /\ Checked(h)' = Checked(h)
    BY <1>1 DEF IInv, Checked
  <2>1. CASE h = g
    <3>1. CASE pc = "starting"
      <4>1. iteration = 0 /\ ~Passed(g)'
        <5>1. iteration = 0
          BY <1>1, <1>3, <3>1 DEF Phases, MayWrite
        <5>2. turn' = TurnOf(g)' /\ turn' \in 1 .. 2 /\ pc' = "starting"
          BY <1>1, <1>2, <1>9, <3>1
        <5>. QED BY <5>1, <5>2 DEF Passed, Started
      <4>2. \A j \in DOMAIN files'[g] : j = 0 /\ Own(g, j)'
        BY <1>1, <1>3, <1>5, <3>1, <4>1 DEF MayWrite, Own
      <4>. QED BY <1>1, <2>1, <3>1, <4>1, <4>2 DEF Outputs
    <3>2. CASE pc # "starting"
      <4>1. \A j \in DOMAIN files[g] : j <= iteration /\ (Checked(g) => Own(g, j))
        BY <1>1, <2>0, <2>1, <3>2 DEF Outputs, Passed, Started
      <4>2. \A j \in DOMAIN files'[g] : j <= iteration /\ (Checked(g)' => Own(g, j)')
        BY <1>1, <1>5, <2>0, <2>1, <4>1 DEF Own
      <4>3. Writing(g)' /\ ~(turn' > TurnOf(g)')
        BY <1>1, <1>2, <1>9 DEF Writing
      <4>. QED BY <1>1, <2>1, <3>2, <4>2, <4>3 DEF Outputs
    <3>. QED BY <3>1, <3>2
  <2>2. CASE h # g
    <3>1. files'[h] = files[h] /\ ~Writing(h)' /\ ~Writing(h) /\ (Passed(h)' <=> Passed(h))
      BY <1>1, <1>5, <1>9, <2>2 DEF Writing, Passed, Started
    <3>. QED BY <1>1, <1>9, <2>0, <3>1 DEF Outputs, Own
  <2>. QED BY <2>1, <2>2
<1>12. ASSUME NEW h \in Formats PROVE WrittenWhenDue(h)'
  <2>1. WrittenWhenDue(h)
    BY DEF IInv
  <2>2. \A i : i # iteration /\ Has(h, i) => Has(h, i)'
    BY <1>5 DEF Has
  <2>3. h # g => \A i : Has(h, i) => Has(h, i)'
    BY <1>5 DEF Has
  <2>4. DueDone(h, iteration - 1) => DueDone(h, iteration - 1)'
    BY <1>1, <2>2 DEF DueDone
  <2>5. h # g /\ DueDone(h, iteration) => DueDone(h, iteration)'
    BY <1>1, <2>3 DEF DueDone
  <2>6. h = g => ~(turn > TurnOf(h))
    BY <1>2, <1>9
  <2>. QED BY <1>1, <1>9, <2>1, <2>3, <2>4, <2>5, <2>6 DEF WrittenWhenDue
<1>. QED BY <1>5, <1>6, <1>7, <1>8, <1>10, <1>11, <1>12 DEF IInv

LEMMA CloseFileInv == ASSUME IInv, CloseFile PROVE IInv'
<1>1. /\ TypeOK /\ TornNow /\ Phases /\ Continued /\ ScaledWhenDue /\ NextTurn
      /\ pc \in {"starting", "notifying", "ending"} /\ open /\ open' = FALSE /\ turn <= 2
      /\ UNCHANGED <<input, writers, config, hash, entry, start_iteration, iteration, particles, starts>>
      /\ iteration \in Nat /\ start_iteration \in Nat
  BY DEF IInv, CloseFile, TypeOK, Iterations, Phases
<1>2. /\ turn \in 1 .. 2 /\ pc' = pc /\ turn' = turn + 1
      /\ \A h \in Formats : TurnOf(h)' = TurnOf(h) /\ TurnOf(h) \in 1 .. 2
  BY <1>1, Turns, NextTurnCases DEF TurnOf
<1>3. PICK g \in Formats : g = Interceptors[turn] /\ turn = TurnOf(g)
  BY <1>1, Turns
<1>4. /\ \A h \in Formats : h # g => TurnOf(h) # turn
      /\ Writing(g)
  BY <1>1, <1>3, Turns DEF Writing
<1>5. MayWrite(g)
  BY <1>1, <1>3, <1>4 DEF MayWrite, IInv, Outputs, Phases
<1>6. /\ files' = Put(g, iteration, Content) /\ Content.complete
      /\ Content \in FileType(iteration) /\ Content.hash = hash /\ Content.particles = particles
  BY <1>1, <1>3 DEF CloseFile, Content, FileType, TypeOK
<1>7. /\ files' = [h \in Formats |-> files'[h]]
      /\ \A h \in Formats :
           /\ DOMAIN files'[h] \subseteq Iterations
           /\ \A j \in DOMAIN files'[h] : files'[h][j] \in FileType(j)
      /\ FilesTrue' /\ OneSource' /\ TornIsLast' /\ FramesMatch'
      /\ \A h \in Formats : h # g => files'[h] = files[h]
      /\ DOMAIN files'[g] = DOMAIN files[g] \cup {iteration}
      /\ files'[g][iteration].complete
      /\ files'[g][iteration].hash = hash /\ files'[g][iteration].particles = particles
      /\ \A j \in DOMAIN files[g] : j # iteration => files'[g][j] = files[g][j]
  BY <1>1, <1>2, <1>5, <1>6, PutInv
<1>8. TypeOK'
  <2>1. turn' \in DOMAIN Interceptors'
    BY <1>2 DEF Interceptors
  <2>. QED BY <1>1, <1>2, <1>7, <2>1 DEF TypeOK, FileType
<1>9. Phases' /\ ScaledWhenDue' /\ ReadsOneInput' /\ Search'
  <2>1. turn # 3
    BY <1>2
  <2>2. ReadsOneInput' /\ Search'
    BY <1>1, <1>2 DEF IInv, ReadsOneInput, Search
  <2>. QED BY <1>1, <2>1, <2>2, PhasesTurn, ScaledTurn
<1>10. Continued'
  <2>. SUFFICES ASSUME start_iteration > 0 PROVE Continued'
    BY <1>1 DEF Continued
  <2>1. pc \in {"notifying", "ending"} /\ pc' \in {"notifying", "ending"}
    BY <1>1, <1>2, <1>5 DEF MayWrite
  <2>2. /\ start_iteration \in DOMAIN Checkpoints
        /\ particles.mixed \/ /\ Checkpoints[start_iteration].hash = config
                              /\ ~Checkpoints[start_iteration].particles.mixed
    BY <1>1 DEF Continued
  <2>3. start_iteration \in DOMAIN Checkpoints'
    BY <1>1, <1>7, <2>2 DEF Checkpoints, Formats
  <2>4. CASE Checkpoints'[start_iteration] = Checkpoints[start_iteration]
    BY <1>1, <2>1, <2>2, <2>3, <2>4 DEF Continued
  <2>5. CASE Checkpoints'[start_iteration] # Checkpoints[start_iteration]
    <3>1. g = "CHKPT" /\ iteration = start_iteration
      BY <1>7, <2>2, <2>5 DEF Checkpoints, Formats
    <3>2. /\ Checkpoints'[start_iteration].hash = hash
          /\ Checkpoints'[start_iteration].particles = particles
      BY <1>7, <3>1 DEF Checkpoints
    <3>3. particles.mixed \/ hash = config
      BY DEF IInv, ReadsOneInput
    <3>. QED BY <1>1, <2>1, <2>3, <3>2, <3>3 DEF Continued
  <2>. QED BY <2>4, <2>5
<1>11. TornNow'
  <2>. SUFFICES ASSUME NEW j \in DOMAIN Checkpoints', ~Checkpoints'[j].complete
                PROVE  j = 0 /\ start_iteration = 0 /\ pc = "starting" /\ ~Passed("CHKPT")'
    BY <1>1, <1>2 DEF TornNow
  <2>1. CASE g = "CHKPT"
    <3>1. j # iteration /\ j \in DOMAIN Checkpoints /\ ~Checkpoints[j].complete
      BY <1>7, <2>1 DEF Checkpoints
    <3>2. j = 0 /\ pc = "starting" /\ iteration = 0
      BY <1>1, <3>1 DEF TornNow, Phases
    <3>. QED BY <3>1, <3>2
  <2>2. CASE g # "CHKPT"
    <3>1. Checkpoints' = Checkpoints /\ ~Writing("CHKPT")
      BY <1>4, <1>7, <2>2 DEF Checkpoints, Formats, Writing
    <3>2. j = 0 /\ start_iteration = 0 /\ pc = "starting" /\ ~Passed("CHKPT")
      BY <1>1, <3>1 DEF TornNow
    <3>3. turn < TurnOf("CHKPT")
      BY <1>2, <1>4, <2>2, <3>2 DEF Passed, Formats
    <3>. QED BY <1>1, <1>2, <3>2, <3>3 DEF Passed, Started, Formats
  <2>. QED BY <2>1, <2>2
<1>12. ASSUME NEW h \in Formats PROVE Outputs(h)'
  <2>0. Outputs(h) /\ Checked(h)' = Checked(h)
    BY <1>1 DEF IInv, Checked
  <2>1. CASE h = g
    <3>1. \A j \in DOMAIN files[g] : j <= iteration /\ (Checked(g) => Own(g, j))
      <4>1. CASE pc = "starting"
        BY <1>1, <1>5, <4>1 DEF MayWrite, Phases
      <4>2. CASE pc # "starting"
        BY <1>1, <2>0, <2>1, <4>2 DEF Outputs, Passed, Started
      <4>. QED BY <4>1, <4>2
    <3>2. \A j \in DOMAIN files'[g] : j <= iteration /\ (Checked(g)' => Own(g, j)')
      BY <1>1, <1>7, <2>0, <2>1, <3>1 DEF Own
    <3>3. ~Writing(g)' /\ turn' > TurnOf(g)' /\ TurnOf(g)' \in Nat /\ turn' \in Nat
      BY <1>1, <1>2, <1>3 DEF Writing
    <3>4. Own(g, iteration)'
      BY <1>1, <1>7 DEF Own
    <3>. QED BY <1>1, <2>1, <3>2, <3>3, <3>4 DEF Outputs
  <2>2. CASE h # g
    <3>1. files'[h] = files[h] /\ ~Writing(h) /\ turn # TurnOf(h)
      BY <1>4, <1>7, <2>2 DEF Writing
    <3>. QED BY <1>1, <2>0, <3>1, OutputsTurn
  <2>. QED BY <2>1, <2>2
<1>13. ASSUME NEW h \in Formats PROVE WrittenWhenDue(h)'
  <2>1. WrittenWhenDue(h)
    BY DEF IInv
  <2>2. \A i \in Iterations : Has(h, i) => Has(h, i)'
    BY <1>7 DEF Has
  <2>3. turn = TurnOf(h) => Has(h, iteration)'
    <3>1. Has(g, iteration)'
      BY <1>1, <1>7 DEF Has
    <3>. QED BY <1>4, <3>1
  <2>. QED BY <1>1, <2>1, <2>2, <2>3, WrittenTurn
<1>. QED BY <1>7, <1>8, <1>9, <1>10, <1>11, <1>12, <1>13 DEF IInv

LEMMA NextInv == IInv /\ [Next]_vars => IInv'
<1>. SUFFICES ASSUME IInv, [Next]_vars PROVE IInv'
  OBVIOUS
<1>1. CASE Start
  BY <1>1, StartInv
<1>2. CASE ProcessStep
  BY <1>2, HashInputInv, FindCheckpointInv, SkipCheckpointInv, FailToReadInv, FindNoneInv,
     ContinueInv, StartOverInv, InitialForcesInv, RemoveFileInv, OpenFileInv, CloseFileInv,
     ScaleTemperatureInv, PassTurnInv, StepInv, LeaveLoopInv DEF ProcessStep
<1>3. CASE Crash
  BY <1>3, CrashInv
<1>4. CASE EditInput \/ Over \/ UNCHANGED vars
  BY <1>4, EditInv DEF Over
<1>. QED BY <1>1, <1>2, <1>3, <1>4 DEF Next

-----------------------------------------------------------------------------
(***************************************************************************)
(* Results                                                                 *)
(***************************************************************************)

\* The inductive invariant: what the directory holds at every point at which a
\* process may die, and what the process that runs has made of it.
THEOREM Invariance == Spec => []IInv
  BY InitInv, NextInv, PTL DEF Spec

\* Types.  In particular no simulation makes more than EndIteration + 1 steps.
THEOREM TypeCorrect == Spec => []TypeOK
<1>1. IInv => TypeOK
  BY DEF IInv
<1>. QED BY <1>1, Invariance, PTL

\* Whatever checkpoint loadLatestValidCheckpointFromFolder has found, and however
\* often the input file was edited: the particles have made as many steps as the
\* iteration counter says, and come from the content the process has parsed, as
\* long as no process they have passed through was reading the file at an edit.
THEOREM RunsItsInput == Spec => []RunIsOfItsInput
<1>1. IInv => RunIsOfItsInput
  BY DEF IInv, Phases, ReadsOneInput, Started, RunIsOfItsInput
<1>. QED BY <1>1, Invariance, PTL

\* The frame writers of a running simulation have left nothing of an abandoned
\* one, and no torn checkpoint (FileOutputHandler).
THEOREM OutputsAreOfThisRun == Spec => []OutputIsOfThisRun
<1>1. IInv => OutputIsOfThisRun
  <2>. SUFFICES ASSUME IInv, Started, NEW format \in Formats, NEW i \in DOMAIN files[format]
                PROVE  /\ i <= iteration
                       /\ ~particles.mixed /\ (format = "CHKPT" \/ writers[1] = "CHKPT")
                            => files[format][i].hash = config
                       /\ format = "CHKPT" => (files[format][i].complete \/ (open /\ i = iteration))
    BY DEF OutputIsOfThisRun
  <2>1. Outputs(format) /\ TornNow /\ ReadsOneInput
    BY DEF IInv
  <2>2. Passed(format)
    BY DEF Passed
  <2>3. format = "CHKPT" => (files[format][i].complete \/ (open /\ i = iteration))
    BY <2>1 DEF TornNow, Checkpoints, Started, Writing
  <2>4. i <= iteration /\ (Checked(format) => files[format][i].hash = hash)
    BY <2>1, <2>2 DEF Outputs, Own
  <2>. QED BY <2>1, <2>3, <2>4 DEF Checked, ReadsOneInput
<1>. QED BY <1>1, Invariance, PTL

\* SimulationInterceptor::notify and onSimulationEnd: since the process has
\* started, no file and no scaling that was due is missing.
THEOREM AllIsDone == Spec => []NothingMissed
<1>1. IInv => NothingMissed
  <2>. SUFFICES ASSUME IInv, pc \in {"loop", "finished"}
                PROVE  NothingMissed
    BY DEF NothingMissed
  <2>1. ASSUME NEW format \in Formats,
               NEW i \in MultiplesSinceStart(Period[format])
                         \cup (IF pc = "finished" THEN {iteration} ELSE {})
        PROVE  i \in DOMAIN files[format] /\ files[format][i].complete
    <3>1. DueDone(format, iteration) /\ (pc = "finished" => Has(format, iteration))
      BY DEF IInv, WrittenWhenDue
    <3>2. Has(format, i)
      BY <2>1, <3>1 DEF DueDone, MultiplesSinceStart
    <3>. QED BY <3>2 DEF Has
  <2>2. {i \in particles.scaled : i > start_iteration} = MultiplesSinceStart(Period["THERMOSTAT"])
    BY DEF IInv, ScaledWhenDue, ScaledSince
  <2>. QED BY <2>1, <2>2 DEF NothingMissed
<1>. QED BY <1>1, Invariance, PTL

-----------------------------------------------------------------------------
(***************************************************************************)
(* Saved progress                                                          *)
(***************************************************************************)

\* A set of natural numbers that is bounded has a largest element.
LEMMA LargestExists ==
  ASSUME NEW B \in Nat, NEW S \in SUBSET (0 .. B), S # {}
  PROVE  \E x \in S : \A y \in S : x >= y
<1>. DEFINE Less == OpToRel(<, Nat)
            Distances == {n \in 0 .. B : B - n \in S}
<1>1. IsWellFoundedOn(Less, Nat)
  BY NatLessThanWellFounded
<1>2. \A m, n \in Nat : <<m, n>> \in Less <=> m < n
  BY DEF OpToRel
<1>. HIDE DEF Less
<1>3. Distances \subseteq Nat
  OBVIOUS
<1>4. Distances # {}
  <2>1. PICK x \in S : x \in 0 .. B
    OBVIOUS
  <2>2. B - x \in 0 .. B /\ B - (B - x) = x
    BY <2>1
  <2>. QED BY <2>2
<1>5. PICK n \in Distances : \A m \in Distances : <<m, n>> \notin Less
  <2>. HIDE DEF Distances
  <2>. QED BY <1>1, <1>3, <1>4, WFMin
<1>6. B - n \in S /\ n \in Nat
  BY <1>3, <1>5
<1>7. ASSUME NEW y \in S PROVE B - n >= y
  <2>1. y \in 0 .. B /\ B - y \in 0 .. B /\ B - (B - y) = y
    BY <1>7
  <2>2. B - y \in Distances /\ B - y \in Nat
    BY <2>1
  <2>3. ~(B - y < n)
    BY <1>2, <1>5, <1>6, <2>2
  <2>. QED BY <1>6, <2>1, <2>3
<1>. QED BY <1>6, <1>7

LastIterations == {0} \cup {i \in DOMAIN Checkpoints : Checkpoints[i].complete}

LEMMA MaxIsLargest ==
  ASSUME NEW B \in Nat, NEW S \in SUBSET (0 .. B), S # {}
  PROVE  Max(S) \in S /\ Max(S) \in Nat /\ \A i \in S : Max(S) >= i
<1>1. \E x \in S : \A y \in S : x >= y
  BY LargestExists
<1>2. Max(S) \in S /\ \A y \in S : Max(S) >= y
  BY <1>1, Zenon DEF Max
<1>3. Max(S) \in 0 .. B
  BY <1>2, Zenon
<1>4. \A n \in 0 .. B : n \in Nat
  OBVIOUS
<1>. QED BY <1>2, <1>3, <1>4, Zenon

\* No step of a continued simulation takes a complete checkpoint away, but for
\* the last one that is opened again at the end, unless particles are mixed.
LEMMA CompleteStays ==
  ASSUME IInv, [Next]_vars, start_iteration # 0, NEW n \in LastIterations,
         ~(pc = "ending" /\ iteration = n),
         ~particles.mixed, ~Checkpoints[n].particles.mixed
  PROVE  n \in LastIterations'
<1>1. /\ TypeOK /\ Phases /\ Continued /\ \A format \in Formats : Outputs(format)
      /\ start_iteration \in Nat /\ iteration \in Nat /\ start_iteration > 0
  BY DEF IInv, TypeOK, Iterations
<1>2. CASE files' = files
  BY <1>2 DEF LastIterations, Checkpoints
<1>3. CASE RemoveFile
  <2>1. PICK i \in Stale(Interceptors[turn]) :
          files' = [files EXCEPT ![Interceptors[turn]] = Restrict(@, DOMAIN @ \ {i})]
    BY <1>3 DEF RemoveFile
  <2>2. Interceptors[turn] \in Formats /\ pc = "starting"
    BY <1>3 DEF RemoveFile, Writer, Calling
  <2>3. CASE Interceptors[turn] # "CHKPT"
    <3>1. Checkpoints' = Checkpoints
      BY <1>1, <2>1, <2>2, <2>3, RemoveFacts DEF Checkpoints, Formats
    <3>. QED BY <3>1 DEF LastIterations
  <2>4. CASE Interceptors[turn] = "CHKPT" /\ n \in DOMAIN Checkpoints
    <3>1. i > start_iteration /\ n \in Nat
      BY <1>1, <2>1, <2>4, FileFacts DEF Stale, Checkpoints, Formats
    <3>2. n <= start_iteration
      BY <1>1, <2>2, <2>4 DEF Continued
    <3>3. n # i
      BY <1>1, <3>1, <3>2
    <3>4. n \in DOMAIN Checkpoints' /\ Checkpoints'[n] = Checkpoints[n]
      <4>1. /\ "CHKPT" \in Formats
            /\ files' = [files EXCEPT !["CHKPT"] = Restrict(@, DOMAIN @ \ {i})]
        BY <2>1, <2>4 DEF Formats
      <4>2. /\ DOMAIN files'["CHKPT"] = DOMAIN files["CHKPT"] \ {i}
            /\ \A j \in DOMAIN files["CHKPT"] : j # i => files'["CHKPT"][j] = files["CHKPT"][j]
        <5>1. TypeOK
          BY <1>1
        <5>. QED BY ONLY <4>1, <5>1, RemoveFacts
      <4>. QED BY <2>4, <3>3, <4>2 DEF Checkpoints
    <3>. QED BY <3>4 DEF LastIterations
  <2>. QED BY <2>3, <2>4 DEF LastIterations
<1>4. CASE OpenFile
  <2>1. /\ Interceptors[turn] \in Formats /\ files' = Put(Interceptors[turn], iteration, Torn)
        /\ pc \in {"notifying", "ending"} /\ ~open /\ turn <= 2
    BY <1>1, <1>4, Turns DEF OpenFile, WritesFile, Writer, Calling
  <2>2. CASE Interceptors[turn] # "CHKPT"
    <3>1. Checkpoints' = Checkpoints
      BY <1>1, <2>1, <2>2, PutFacts DEF Checkpoints, Formats
    <3>. QED BY <3>1 DEF LastIterations
  <2>3. CASE Interceptors[turn] = "CHKPT" /\ n # 0
    <3>1. turn = TurnOf("CHKPT")
      BY <1>1, <2>1, <2>3, Turns
    <3>2. n # iteration
      <4>1. pc = "notifying" => \A i \in DOMAIN files["CHKPT"] : i < iteration
        BY <1>1, <2>1, <3>1, Turns DEF Outputs, Writing, Formats
      <4>2. n \in DOMAIN files["CHKPT"]
        BY <2>3 DEF LastIterations, Checkpoints
      <4>. QED BY <1>1, <2>1, <4>1, <4>2
    <3>. QED BY <1>1, <2>1, <2>3, <3>2, PutFacts DEF LastIterations, Checkpoints
  <2>. QED BY <2>2, <2>3 DEF LastIterations
<1>5. CASE CloseFile
  <2>1. Interceptors[turn] \in Formats /\ files' = Put(Interceptors[turn], iteration, Content)
    BY <1>1, <1>5, Turns DEF CloseFile, Phases
  <2>2. CASE Interceptors[turn] # "CHKPT"
    <3>1. Checkpoints' = Checkpoints
      BY <1>1, <2>1, <2>2, PutFacts DEF Checkpoints, Formats
    <3>. QED BY <3>1 DEF LastIterations
  <2>3. CASE Interceptors[turn] = "CHKPT"
    <3>1. Content.complete
      BY DEF Content
    <3>. QED BY <1>1, <2>1, <2>3, <3>1, PutFacts DEF LastIterations, Checkpoints
  <2>. QED BY <2>2, <2>3
<1>6. files' = files \/ RemoveFile \/ OpenFile \/ CloseFile
  BY DEF Next, vars, ProcessStep, Start, HashInput, Examines, FindCheckpoint, SkipCheckpoint,
         FailToRead, FindNone, Continue, StartOver, InitialForces, ScaleTemperature,
         PassTurn, Step, LeaveLoop, Crash, EditInput, Over
<1>. QED BY <1>2, <1>3, <1>4, <1>5, <1>6

\* A crash costs no progress that a checkpoint has saved, unless it comes while
\* the last checkpoint is written for the second time (CheckPointWriter), the
\* simulation starts from scratch, or a process has seen the input file edited
\* while it was reading it.
THEOREM ProgressKept == Spec => ProgressIsKept
<1>. DEFINE Allowed == \/ start_iteration = 0
                       \/ pc = "ending" /\ iteration = Saved
                       \/ particles.mixed \/ Checkpoints[Saved].particles.mixed
<1>1. IInv /\ IInv' /\ [Next]_vars => [Saved' < Saved => Allowed]_vars
  <2>. SUFFICES ASSUME IInv, IInv', [Next]_vars, ~Allowed PROVE ~(Saved' < Saved)
    OBVIOUS
  <2>1. /\ LastIterations \in SUBSET (0 .. EndIteration + 1) /\ LastIterations # {}
        /\ LastIterations' \in SUBSET (0 .. EndIteration + 1) /\ LastIterations' # {}
        /\ EndIteration + 1 \in Nat
    BY DEF IInv, TypeOK, LastIterations, Checkpoints, Formats, Iterations
  <2>2. Saved = Max(LastIterations) /\ Saved' = Max(LastIterations')
    BY DEF Saved, LastIterations
  <2>3. /\ Saved \in LastIterations /\ Saved \in Nat
        /\ Saved' \in Nat /\ \A i \in LastIterations' : Saved' >= i
    BY <2>1, <2>2, MaxIsLargest
  <2>4. Saved \in LastIterations'
    BY <2>3, CompleteStays
  <2>. QED BY <2>3, <2>4
<1>. QED BY <1>1, Invariance, PTL DEF ProgressIsKept, Spec

-----------------------------------------------------------------------------
(***************************************************************************)
(* Torn checkpoints                                                        *)
(***************************************************************************)

\* A checkpoint that is opened by every start is torn.
TornAhead == \E i \in DOMAIN Checkpoints : i > 0 /\ ~Checkpoints[i].complete

\* No process runs the simulation, and none gets past reading the checkpoints.
Before == {"down", "parsed", "searching", "failed"}

Broken == pc \in Before /\ TornAhead

LEMMA SearchFails ==
  ASSUME IInv, [Next]_vars, pc = "searching", pc' \in {"asking", "constructed", "failed"}
  PROVE  /\ pc' = "failed" <=> TornAhead
         /\ UNCHANGED files
<1>1. /\ TypeOK /\ Search
      /\ \A i \in DOMAIN Checkpoints : i \in Nat
  BY FileFacts DEF IInv, Checkpoints, Formats
<1>2. \/ FindCheckpoint /\ pc' = "asking"
      \/ FindNone /\ pc' = "constructed"
      \/ FailToRead /\ pc' = "failed"
  BY DEF Next, vars, process, ProcessStep, Start, HashInput, FindCheckpoint, SkipCheckpoint,
         FailToRead, FindNone, Continue, StartOver, InitialForces, RemoveFile,
         OpenFile, CloseFile, WritesFile, Scales, ScaleTemperature, PassTurn, Step, LeaveLoop,
         Calling, Crash, EditInput, Over, IInv, Phases
<1>3. CASE FindCheckpoint /\ pc' = "asking"
  <2>1. PICK i \in Remaining : Examines(i) /\ HashValid(i)
    BY <1>3 DEF FindCheckpoint
  <2>2. ~TornAhead
    BY <2>1, FoundIsReadable DEF TornAhead, HashValid
  <2>. QED BY <1>3, <2>1, <2>2 DEF Examines
<1>4. CASE FindNone /\ pc' = "constructed"
  <2>1. \A i \in DOMAIN Checkpoints : i > 0 => entry <= i
    BY <1>1, <1>4 DEF FindNone, Remaining, TypeOK
  <2>2. ~TornAhead
    BY <1>1, <2>1 DEF TornAhead, Search, Passes
  <2>. QED BY <1>4, <2>2 DEF FindNone
<1>5. CASE FailToRead /\ pc' = "failed"
  BY <1>5 DEF FailToRead, Examines, Remaining, TornAhead
<1>. QED BY <1>2, <1>3, <1>4, <1>5

\* XMLFileReader: a process fails in its search exactly if a checkpoint behind
\* iteration 0 is torn, whatever the input file says by now: the newest checkpoint
\* is always opened, and only that one can be torn.
THEOREM FailsIfTorn ==
  Spec => [][pc = "searching" /\ pc' \in {"asking", "constructed", "failed"}
               => (pc' = "failed" <=> TornAhead)]_vars
<1>1. IInv /\ [Next]_vars =>
        [pc = "searching" /\ pc' \in {"asking", "constructed", "failed"}
           => (pc' = "failed" <=> TornAhead)]_vars
  BY SearchFails
<1>. QED BY <1>1, Invariance, PTL DEF Spec

\* Where a step leads from a process that does not run the simulation, and from
\* where one leads there.
LEMMA OutsideSteps ==
  ASSUME IInv, [Next]_vars, pc \in Before \cup {"finished"}
  PROVE  /\ UNCHANGED files
         /\ pc \in Before =>
              pc' \in Before \/ (pc = "searching" /\ pc' \in {"asking", "constructed"})
  BY DEF Before, Next, vars, process, ProcessStep, Start, HashInput, Examines, FindCheckpoint, SkipCheckpoint,
         FailToRead, FindNone, Continue, StartOver, InitialForces, RemoveFile,
         OpenFile, CloseFile, WritesFile, Scales, ScaleTemperature, PassTurn, Step, LeaveLoop,
         Calling, Crash, EditInput, Over, IInv, Phases, Started

LEMMA InsideSteps ==
  ASSUME IInv, [Next]_vars, pc \notin Before, pc' \in Before
  PROVE  UNCHANGED files /\ (Crash \/ pc = "finished")
<1>1. CASE Crash
  BY <1>1 DEF Crash
<1>2. CASE Start
  BY <1>2 DEF Start, Before
<1>3. CASE ~Start /\ ~Crash
  <2>1. NextTurn => pc' \notin Before
    BY DEF NextTurn, Before
  <2>. QED
    BY <1>3, <2>1
       DEF Before, Next, vars, process, ProcessStep, HashInput, Examines, FindCheckpoint, SkipCheckpoint,
           FailToRead, FindNone, Continue, StartOver, InitialForces, RemoveFile,
           OpenFile, CloseFile, ScaleTemperature, PassTurn, Step, LeaveLoop, EditInput, Over
<1>. QED BY <1>1, <1>2, <1>3

LEMMA BrokenStays ==
  ASSUME IInv, [Next]_vars, Broken
  PROVE  Broken'
<1>1. UNCHANGED files /\ TornAhead /\ pc \in Before
  BY OutsideSteps DEF Broken
<1>2. ~(pc = "searching" /\ pc' \in {"asking", "constructed"})
  BY <1>1, SearchFails
<1>3. pc' \in Before
  BY <1>1, <1>2, OutsideSteps
<1>. QED BY <1>1, <1>3 DEF Broken, TornAhead, Checkpoints

LEMMA BrokenByCrash ==
  ASSUME IInv, [Next]_vars, ~Broken, Broken'
  PROVE  Crash /\ Writing("CHKPT") /\ iteration > 0
<1>1. Phases /\ TornNow
  BY DEF IInv
<1>2. pc \notin Before
  <2>. SUFFICES ASSUME pc \in Before PROVE FALSE
    OBVIOUS
  <2>1. UNCHANGED files
    BY OutsideSteps
  <2>. QED BY <2>1 DEF Broken, TornAhead, Checkpoints
<1>3. UNCHANGED files /\ (Crash \/ pc = "finished")
  BY <1>2, InsideSteps DEF Broken
<1>4. PICK i \in DOMAIN Checkpoints : i > 0 /\ ~Checkpoints[i].complete
  BY <1>3 DEF Broken, TornAhead, Checkpoints
<1>5. Writing("CHKPT") /\ i = iteration
  BY <1>1, <1>2, <1>4 DEF TornNow, Before
<1>6. pc # "finished"
  BY <1>1, <1>5 DEF Writing, Phases
<1>. QED BY <1>3, <1>4, <1>5, <1>6

\* What a torn checkpoint means (ChkptPointFileReader, writeFile): only a process that
\* dies while a checkpoint behind iteration 0 is being written leaves a folder in which no
\* process gets to its simulation, and there none ever does.
THEOREM TornForever ==
  Spec => /\ [][Broken => Broken']_vars
          /\ [][~Broken /\ Broken' => Crash /\ Writing("CHKPT") /\ iteration > 0]_vars
          /\ [](pc = "failed" => Broken)
<1>1. IInv /\ [Next]_vars => [Broken => Broken']_vars
  BY BrokenStays
<1>2. IInv /\ [Next]_vars =>
        [~Broken /\ Broken' => Crash /\ Writing("CHKPT") /\ iteration > 0]_vars
  BY BrokenByCrash
<1>3. Init => (pc = "failed" => Broken)
  BY DEF Init
<1>4. IInv /\ [Next]_vars /\ (pc = "failed" => Broken) => (pc = "failed" => Broken)'
  <2>. SUFFICES ASSUME IInv, [Next]_vars, pc = "failed" => Broken, pc' = "failed"
                PROVE  Broken'
    OBVIOUS
  <2>1. CASE pc = "failed"
    BY <2>1, BrokenStays
  <2>2. CASE pc = "searching"
    <3>1. TornAhead
      BY <2>2, SearchFails
    <3>. QED BY <2>2, <3>1, BrokenStays DEF Broken, Before
  <2>3. CASE pc \notin {"searching", "failed"}
    <3>1. NextTurn => pc' # "failed"
      BY <2>3 DEF NextTurn
    <3>. QED
      BY <2>3, <3>1
         DEF Next, vars, process, ProcessStep, Start, HashInput, Examines, FindCheckpoint, SkipCheckpoint,
             FailToRead, FindNone, Continue, StartOver, InitialForces, RemoveFile,
             OpenFile, CloseFile, ScaleTemperature, PassTurn, Step, LeaveLoop, EditInput, Over,
             Crash, Calling, WritesFile, Scales
  <2>. QED BY <2>1, <2>2, <2>3
<1>. QED BY <1>1, <1>2, <1>3, <1>4, Invariance, PTL DEF Spec

-----------------------------------------------------------------------------
(***************************************************************************)
(* Progress                                                                *)
(***************************************************************************)

\* What a process has ahead of it, from the outermost level to the innermost:
\* the parts of main and runSimulation, the checkpoints it may still open or the
\* halves of its iterations, the turns of the interceptors, the file of this turn,
\* and the files to be removed.
StagesAhead ==
    CASE pc = "parsed" -> 7
      [] pc = "searching" -> 6
      [] pc = "asking" -> 5
      [] pc = "constructed" -> 4
      [] pc = "starting" -> 3
      [] pc \in {"loop", "notifying"} -> 2
      [] pc = "ending" -> 1
      [] OTHER -> 0

RoundsAhead ==
    CASE pc = "searching" -> entry
      [] pc = "loop" -> 2 * (EndIteration + 1 - iteration)
      [] pc = "notifying" -> 2 * (EndIteration + 1 - iteration) + 1
      [] OTHER -> 0

TurnsAhead == 3 - turn

FileAhead == IF open THEN 0 ELSE 1

RemovalsAhead ==
    IF pc = "starting" /\ Writer THEN Cardinality(Stale(Interceptors[turn])) ELSE 0

Ahead == <<StagesAhead, RoundsAhead, TurnsAhead, FileAhead, RemovalsAhead>>

\* The lexicographic order.
Less(s, t) == \E k \in 1 .. 5 : s[k] < t[k] /\ \A j \in 1 .. k - 1 : s[j] = t[j]

\* The levels at which a step may go on.
LEMMA LessAt ==
  ASSUME NEW s1, NEW s2, NEW s3, NEW s4, NEW s5, NEW t1, NEW t2, NEW t3, NEW t4, NEW t5,
         \/ s1 < t1
         \/ s1 = t1 /\ s2 < t2
         \/ s1 = t1 /\ s2 = t2 /\ s3 < t3
         \/ s1 = t1 /\ s2 = t2 /\ s3 = t3 /\ s4 < t4
         \/ s1 = t1 /\ s2 = t2 /\ s3 = t3 /\ s4 = t4 /\ s5 < t5
  PROVE  Less(<<s1, s2, s3, s4, s5>>, <<t1, t2, t3, t4, t5>>)
<1>. DEFINE s == <<s1, s2, s3, s4, s5>>
            t == <<t1, t2, t3, t4, t5>>
<1>. SUFFICES \E k \in 1 .. 5 : s[k] < t[k] /\ \A j \in 1 .. k - 1 : s[j] = t[j]
  BY DEF Less
<1>1. CASE s1 < t1
  BY <1>1
<1>2. CASE s1 = t1 /\ s2 < t2
  <2>1. s[2] < t[2] /\ \A j \in 1 .. 2 - 1 : s[j] = t[j]
    BY <1>2
  <2>. QED BY <2>1
<1>3. CASE s1 = t1 /\ s2 = t2 /\ s3 < t3
  <2>1. s[3] < t[3] /\ \A j \in 1 .. 3 - 1 : s[j] = t[j]
    BY <1>3
  <2>. QED BY <2>1
<1>4. CASE s1 = t1 /\ s2 = t2 /\ s3 = t3 /\ s4 < t4
  <2>1. s[4] < t[4] /\ \A j \in 1 .. 4 - 1 : s[j] = t[j]
    BY <1>4
  <2>. QED BY <2>1
<1>5. CASE s1 = t1 /\ s2 = t2 /\ s3 = t3 /\ s4 = t4 /\ s5 < t5
  <2>1. s[5] < t[5] /\ \A j \in 1 .. 5 - 1 : s[j] = t[j]
    BY <1>5
  <2>. QED BY <2>1
<1>. QED BY <1>1, <1>2, <1>3, <1>4, <1>5

\* The lists with the least entry at a level.
LEMMA LeastAt ==
  ASSUME NEW S \in SUBSET [1 .. 5 -> Nat], S # {}, NEW k \in 1 .. 5
  PROVE  \E m \in S : \A s \in S : m[k] <= s[k]
<1>. DEFINE Below == OpToRel(<, Nat)
            T == {s[k] : s \in S}
<1>1. IsWellFoundedOn(Below, Nat)
  BY NatLessThanWellFounded
<1>2. \A m, n \in Nat : <<m, n>> \in Below <=> m < n
  BY DEF OpToRel
<1>. HIDE DEF Below
<1>3. T \subseteq Nat /\ T # {}
  OBVIOUS
<1>4. PICK n \in T : \A m \in T : <<m, n>> \notin Below
  <2>. HIDE DEF T
  <2>. QED BY <1>1, <1>3, WFMin
<1>5. \A m \in T : n <= m
  <2>. HIDE DEF T
  <2>1. \A m \in T : m \in Nat /\ n \in Nat /\ ~(m < n)
    <3>1. n \in Nat /\ \A m \in T : m \in Nat
      BY <1>3, Zenon
    <3>2. \A m \in T : <<m, n>> \notin Below
      BY <1>4
    <3>. QED BY <1>2, <3>1, <3>2, Zenon
  <2>2. \A a, b \in Nat : ~(a < b) => b <= a
    OBVIOUS
  <2>. QED BY <2>1, <2>2, Zenon
<1>6. \A s \in S : s[k] \in T
  OBVIOUS
<1>7. PICK m \in S : n = m[k]
  OBVIOUS
<1>. QED BY <1>5, <1>6, <1>7, Zenon

\* The order has no infinite descent: a set of such lists has a least one.
LEMMA LessWellFounded ==
  ASSUME NEW S \in SUBSET [1 .. 5 -> Nat], S # {}
  PROVE  \E m \in S : \A s \in S : ~Less(s, m)
<1>1. PICK m1 \in S : \A s \in S : m1[1] <= s[1]
  <2>1. 1 \in 1 .. 5
    OBVIOUS
  <2>. QED BY <2>1, LeastAt, Zenon
<1>. DEFINE S2 == {s \in S : s[1] = m1[1]}
<1>2. PICK m2 \in S2 : \A s \in S2 : m2[2] <= s[2]
  <2>1. 2 \in 1 .. 5 /\ S2 \in SUBSET [1 .. 5 -> Nat] /\ m1 \in S2
    OBVIOUS
  <2>2. S2 # {}
    BY <2>1, Zenon
  <2>. HIDE DEF S2
  <2>. QED BY <2>1, <2>2, LeastAt, Zenon
<1>. DEFINE S3 == {s \in S2 : s[2] = m2[2]}
<1>3. PICK m3 \in S3 : \A s \in S3 : m3[3] <= s[3]
  <2>1. 3 \in 1 .. 5 /\ S3 \in SUBSET [1 .. 5 -> Nat] /\ m2 \in S3
    OBVIOUS
  <2>2. S3 # {}
    BY <2>1, Zenon
  <2>. HIDE DEF S3
  <2>. QED BY <2>1, <2>2, LeastAt, Zenon
<1>. DEFINE S4 == {s \in S3 : s[3] = m3[3]}
<1>4. PICK m4 \in S4 : \A s \in S4 : m4[4] <= s[4]
  <2>1. 4 \in 1 .. 5 /\ S4 \in SUBSET [1 .. 5 -> Nat] /\ m3 \in S4
    OBVIOUS
  <2>2. S4 # {}
    BY <2>1, Zenon
  <2>. HIDE DEF S4
  <2>. QED BY <2>1, <2>2, LeastAt, Zenon
<1>. DEFINE S5 == {s \in S4 : s[4] = m4[4]}
<1>5. PICK m \in S5 : \A s \in S5 : m[5] <= s[5]
  <2>1. 5 \in 1 .. 5 /\ S5 \in SUBSET [1 .. 5 -> Nat] /\ m4 \in S5
    OBVIOUS
  <2>2. S5 # {}
    BY <2>1, Zenon
  <2>. HIDE DEF S5
  <2>. QED BY <2>1, <2>2, LeastAt, Zenon
<1>6. /\ m \in S /\ m[1] = m1[1] /\ m[2] = m2[2] /\ m[3] = m3[3] /\ m[4] = m4[4]
  BY <1>5
<1>7. ASSUME NEW s \in S, Less(s, m) PROVE FALSE
  <2>1. PICK k \in 1 .. 5 : s[k] < m[k] /\ \A j \in 1 .. k - 1 : s[j] = m[j]
    BY <1>7 DEF Less
  <2>2. s \in [1 .. 5 -> Nat] /\ m \in [1 .. 5 -> Nat]
    BY <1>6
  <2>3. CASE k = 1
    BY <1>1, <1>6, <2>1, <2>2, <2>3
  <2>4. CASE k = 2
    <3>1. s[1] = m[1]
      BY <2>1, <2>4
    <3>2. m[2] <= s[2]
      BY <1>2, <1>6, <3>1
    <3>. QED BY <2>1, <2>2, <2>4, <3>2
  <2>5. CASE k = 3
    <3>1. s[1] = m[1] /\ s[2] = m[2]
      BY <2>1, <2>5
    <3>2. m[3] <= s[3]
      BY <1>3, <1>6, <3>1
    <3>. QED BY <2>1, <2>2, <2>5, <3>2
  <2>6. CASE k = 4
    <3>1. s[1] = m[1] /\ s[2] = m[2] /\ s[3] = m[3]
      BY <2>1, <2>6
    <3>2. m[4] <= s[4]
      BY <1>4, <1>6, <3>1
    <3>. QED BY <2>1, <2>2, <2>6, <3>2
  <2>7. CASE k = 5
    <3>1. s[1] = m[1] /\ s[2] = m[2] /\ s[3] = m[3] /\ s[4] = m[4]
      BY <2>1, <2>7
    <3>2. m[5] <= s[5]
      BY <1>5, <1>6, <3>1
    <3>. QED BY <2>1, <2>2, <2>7, <3>2
  <2>. QED BY <2>1, <2>3, <2>4, <2>5, <2>6, <2>7
<1>. QED BY <1>6, <1>7

LEMMA StaleFinite ==
  ASSUME TypeOK, NEW format \in Formats
  PROVE  IsFiniteSet(Stale(format))
<1>1. Stale(format) \subseteq 0 .. EndIteration + 1
  BY DEF TypeOK, Stale, Iterations
<1>2. IsFiniteSet(0 .. EndIteration + 1)
  BY FS_Interval
<1>. QED BY <1>1, <1>2, FS_Subset

LEMMA AheadType ==
  ASSUME IInv
  PROVE  /\ StagesAhead \in Nat /\ RoundsAhead \in Nat /\ TurnsAhead \in Nat
         /\ FileAhead \in Nat /\ RemovalsAhead \in Nat
<1>1. TypeOK
  BY DEF IInv
<1>2. turn \in 1 .. 3 /\ (Writer => Interceptors[turn] \in Formats)
  BY <1>1, Turns
<1>3. RemovalsAhead \in Nat
  BY <1>1, <1>2, StaleFinite, FS_CardinalityType DEF RemovalsAhead
<1>4. RoundsAhead \in Nat
  BY <1>1 DEF TypeOK, Iterations, RoundsAhead
<1>5. StagesAhead \in Nat /\ FileAhead \in Nat
  BY DEF StagesAhead, FileAhead
<1>. QED BY <1>2, <1>3, <1>4, <1>5 DEF TurnsAhead

\* The end of a turn.
LEMMA TurnAdvances ==
  ASSUME IInv, NextTurn, pc \in {"starting", "notifying", "ending"}, iteration' = iteration
  PROVE  Less(Ahead', Ahead)
<1>1. TypeOK
  BY DEF IInv
<1>2. turn \in 1 .. 3 /\ iteration \in 0 .. EndIteration + 1
  BY <1>1, Turns DEF TypeOK, Iterations
<1>3. \/ turn < 3 /\ turn' = turn + 1 /\ pc' = pc
      \/ turn = 3 /\ turn' = 1 /\ pc = "ending" /\ pc' = "finished"
      \/ turn = 3 /\ turn' = 1 /\ pc # "ending" /\ pc' = "loop"
  BY <1>1, NextTurnCases
<1>4. CASE turn < 3 /\ turn' = turn + 1 /\ pc' = pc
  <2>1. StagesAhead' = StagesAhead /\ RoundsAhead' = RoundsAhead
    BY <1>4 DEF StagesAhead, RoundsAhead
  <2>2. TurnsAhead' < TurnsAhead
    BY <1>2, <1>4 DEF TurnsAhead
  <2>. QED BY <2>1, <2>2, LessAt DEF Ahead
<1>5. CASE turn = 3 /\ turn' = 1 /\ pc = "ending" /\ pc' = "finished"
  <2>1. StagesAhead' < StagesAhead
    BY <1>5 DEF StagesAhead
  <2>. QED BY <2>1, LessAt DEF Ahead
<1>6. CASE turn = 3 /\ turn' = 1 /\ pc = "starting" /\ pc' = "loop"
  <2>1. StagesAhead' < StagesAhead
    BY <1>6 DEF StagesAhead
  <2>. QED BY <2>1, LessAt DEF Ahead
<1>7. CASE turn = 3 /\ turn' = 1 /\ pc = "notifying" /\ pc' = "loop"
  <2>1. StagesAhead' = StagesAhead
    BY <1>7 DEF StagesAhead
  <2>2. RoundsAhead' < RoundsAhead
    BY <1>2, <1>7 DEF RoundsAhead
  <2>. QED BY <2>1, <2>2, LessAt DEF Ahead
<1>. QED BY <1>3, <1>4, <1>5, <1>6, <1>7

LEMMA RemovalAdvances ==
  ASSUME IInv, RemoveFile
  PROVE  Less(Ahead', Ahead)
<1>1. /\ TypeOK /\ pc = "starting" /\ Writer
      /\ UNCHANGED <<writers, pc, start_iteration, iteration, turn, open>>
  BY DEF IInv, RemoveFile, Calling, process
<1>2. /\ UNCHANGED <<StagesAhead, RoundsAhead, TurnsAhead, FileAhead>>
      /\ Interceptors' = Interceptors /\ Writer'
  BY <1>1 DEF StagesAhead, RoundsAhead, TurnsAhead, FileAhead, Interceptors, Writer
<1>3. PICK format \in Formats : format = Interceptors[turn]
  BY <1>1 DEF Writer
<1>4. PICK i \in Stale(format) :
         files' = [files EXCEPT ![format] = Restrict(@, DOMAIN @ \ {i})]
  BY <1>3 DEF RemoveFile
<1>5. DOMAIN files'[format] = DOMAIN files[format] \ {i}
  BY <1>1, <1>4, RemoveFacts
<1>6. Stale(format)' = Stale(format) \ {i}
  BY <1>1, <1>5 DEF Stale
<1>7. RemovalsAhead' < RemovalsAhead
  <2>1. IsFiniteSet(Stale(format))
    BY <1>1, StaleFinite
  <2>2. Cardinality(Stale(format) \ {i}) = Cardinality(Stale(format)) - 1
    BY <1>4, <2>1, FS_RemoveElement
  <2>3. Cardinality(Stale(format)) \in Nat
    BY <2>1, FS_CardinalityType
  <2>4. /\ RemovalsAhead = Cardinality(Stale(format))
        /\ RemovalsAhead' = Cardinality(Stale(format)')
    BY <1>1, <1>2, <1>3 DEF RemovalsAhead
  <2>. QED BY <1>6, <2>2, <2>3, <2>4
<1>. QED BY <1>2, <1>7, LessAt DEF Ahead

LEMMA StepAdvances ==
  ASSUME IInv, ProcessStep
  PROVE  Less(Ahead', Ahead)
<1>1. CASE \/ HashInput \/ FindCheckpoint \/ FailToRead \/ FindNone
           \/ Continue \/ StartOver \/ InitialForces \/ LeaveLoop
  <2>1. StagesAhead' < StagesAhead
    BY <1>1 DEF HashInput, FindCheckpoint, FailToRead, FindNone, Examines,
                Continue, StartOver, InitialForces, LeaveLoop, StagesAhead
  <2>. QED BY <2>1, LessAt DEF Ahead
<1>6. CASE SkipCheckpoint
  <2>1. pc = "searching" /\ pc' = pc /\ StagesAhead' = StagesAhead
    BY <1>6 DEF SkipCheckpoint, Examines, StagesAhead
  <2>2. entry' < entry
    <3>1. PICK i \in Remaining : Examines(i)
      BY <1>6 DEF SkipCheckpoint
    <3>. QED BY <3>1, ExaminesFacts DEF Examines
  <2>3. RoundsAhead' < RoundsAhead
    BY <2>1, <2>2 DEF RoundsAhead
  <2>. QED BY <2>1, <2>3, LessAt DEF Ahead
<1>2. CASE RemoveFile
  BY <1>2, RemovalAdvances
<1>3. CASE OpenFile
  <2>1. UNCHANGED <<pc, entry, iteration, turn>> /\ ~open /\ open'
    BY <1>3 DEF OpenFile, WritesFile, Calling
  <2>2. UNCHANGED <<StagesAhead, RoundsAhead, TurnsAhead>> /\ FileAhead' < FileAhead
    BY <2>1 DEF StagesAhead, RoundsAhead, TurnsAhead, FileAhead
  <2>. QED BY <2>2, LessAt DEF Ahead
<1>4. CASE CloseFile \/ ScaleTemperature \/ PassTurn
  <2>1. pc \in {"starting", "notifying", "ending"}
    <3>1. open => pc \in {"starting", "notifying", "ending"}
      BY DEF IInv, Phases, TypeOK
    <3>. QED BY <1>4, <3>1 DEF CloseFile, ScaleTemperature, Scales, PassTurn, Calling
  <2>2. NextTurn /\ iteration' = iteration
    BY <1>4 DEF CloseFile, ScaleTemperature, PassTurn
  <2>. QED BY <2>1, <2>2, TurnAdvances
<1>5. CASE Step
  <2>1. StagesAhead' = StagesAhead
    BY <1>5 DEF Step, StagesAhead
  <2>2. RoundsAhead' < RoundsAhead
    BY <1>5 DEF Step, RoundsAhead, IInv, TypeOK, Iterations
  <2>. QED BY <2>1, <2>2, LessAt DEF Ahead
<1>. QED BY <1>1, <1>2, <1>3, <1>4, <1>5, <1>6 DEF ProcessStep

\* main and runSimulation come to an end: whatever is in the output folder, every step of
\* a process leaves less ahead of it, in an order without infinite descent.  Only another
\* start begins anew, and starts are what the bounds limit.
THEOREM EveryStepAdvances ==
  Spec => /\ [](Ahead \in [1 .. 5 -> Nat])
          /\ [][ProcessStep => Less(Ahead', Ahead)]_vars
<1>1. IInv => Ahead \in [1 .. 5 -> Nat]
  BY AheadType DEF Ahead
<1>2. IInv /\ [Next]_vars => [ProcessStep => Less(Ahead', Ahead)]_vars
  BY StepAdvances
<1>. QED BY <1>1, <1>2, Invariance, PTL DEF Spec

=============================================================================
