--------------------------- MODULE SubSimulations ---------------------------
(***************************************************************************)
(* prepareParticles of XMLFileReader: an input file names sub simulations, *)
(* which are read, run and saved in a folder of their own before their     *)
(* result is loaded, and which are not run again as long as that folder    *)
(* holds a checkpoint of the present content of their file.                *)
(*                                                                         *)
(* The recursion is a stack of calls.  A content of a file is a version,   *)
(* and stands for its hash.  The particles are groups: those one call of   *)
(* prepareParticles has spawned.  A group is known by the simulations it   *)
(* has been in, the present one last, with the steps made in each.         *)
(*                                                                         *)
(* A simulation is reduced to its steps and the checkpoints it writes;     *)
(* CheckpointRestart has its other interceptors.  allow_recursion is true, *)
(* as in main; names of sub simulations of one file are distinct.          *)
(***************************************************************************)
EXTENDS Integers, Sequences, SequencesExt, FiniteSets, FiniteSetsExt, Functions

CONSTANTS
    Files, Main,      \* the input files, and the one the program is started with
    Subs,             \* the sub_simulation elements of each file
    Versions,         \* contents of a file
    WriterChoices,    \* the sets of files that may have a FrameWriter of checkpoints
    EndIteration,     \* steps of each simulation
    MaxStarts,        \* bound: how often the program is started
    MaxEdits          \* bound: how often a file is edited

ASSUME SubSimulationsAssumption ==
    /\ IsFiniteSet(Files) /\ Main \in Files
    /\ Subs \in [Files -> Seq(Files)] /\ \A file \in Files : IsInjective(Subs[file])
    \* Files that name each other in a circle are read without end.
    /\ \E depth \in [Files -> 0 .. Cardinality(Files)] :
         \A file \in Files : \A sub \in Range(Subs[file]) : depth[sub] < depth[file]
    /\ Versions # {} /\ WriterChoices \subseteq SUBSET Files
    /\ EndIteration \in Nat \ {0} /\ MaxStarts \in Nat /\ MaxEdits \in Nat

VARIABLES
    content,        \* the version of each input file
    disk,           \* folder -> iteration -> checkpoint
    writers,        \* the files with a FrameWriter of checkpoints
    stack,          \* the calls of prepareParticles, innermost first
    fresh,          \* the option --fresh
    pc,             \* the process: "down", "up", "finished", "failed"
    completed,      \* history: folder -> the version whose result it holds
    starts, edits   \* counters for the bounds

vars == <<content, disk, writers, stack, fresh, pc, completed, starts, edits>>

-----------------------------------------------------------------------------
(***************************************************************************)
(* Folders and checkpoints                                                 *)
(***************************************************************************)

\* A folder is the path of names below `output`.
In(folder) == IF folder \in DOMAIN disk THEN disk[folder] ELSE <<>>

With(folder, checkpoints) ==
    [g \in DOMAIN disk \cup {folder} |-> IF g = folder THEN checkpoints ELSE disk[g]]

HashValid(c) == c.complete /\ c.hash = content[c.file]

\* loadLatestValidCheckpointFromFolder: the checkpoints it opens, from the last
\* one down to the first valid one, and the one it returns.
Examined(folder) ==
    {i \in DOMAIN In(folder) :
        i > 0 /\ \A j \in DOMAIN In(folder) : j > i => ~HashValid(In(folder)[j])}

\* Mutant: a checkpoint of another content ends the program.
ThrowsIfChanged(folder) == \E i \in Examined(folder) : ~HashValid(In(folder)[i])

Throws(folder) == \E i \in Examined(folder) : ~In(folder)[i].complete

Latest(folder) == {In(folder)[i] : i \in {j \in Examined(folder) : HashValid(In(folder)[j])}}

-----------------------------------------------------------------------------
(***************************************************************************)
(* Calls                                                                   *)
(***************************************************************************)

Leg(call) == [file |-> call.file, version |-> call.version, steps |-> 0]

\* A call whose `configuration(...)` has just been parsed.
NewCall(file, folder) ==
    [file |-> file, folder |-> folder, version |-> content[file], hash |-> content[file],
     phase |-> "parsed", todo |-> Subs[file], particles |-> <<>>,
     start_iteration |-> 0, iteration |-> 0, open |-> FALSE]

top == stack[1]
IsSub == Len(stack) > 1
Top(call) == stack' = [stack EXCEPT ![1] = call]

\* loadCheckpointFile behind the particles there are.
Load(call, c) ==
    [call EXCEPT !.particles = @ \o [k \in DOMAIN c.particles |->
                                       Append(c.particles[k], Leg(call))]]

\* The folder in which a call looks for a simulation to continue: constructed by
\* SimulationParams from the output folder of a sub simulation and its name.
QuestionFolder == IF IsSub THEN Append(top.folder, top.file) ELSE top.folder

\* Mutant: output_dir_path of a sub simulation is left as SimulationParams made it.
OwnFolder == QuestionFolder

\* output_dir_path when the simulation runs.
OutputFolder == top.folder

Process(phase) == pc = "up" /\ top.phase = phase /\ ~top.open

Fail == pc' = "failed" /\ stack' = <<>>

-----------------------------------------------------------------------------
(***************************************************************************)
(* prepareParticles                                                        *)
(***************************************************************************)

Init ==
    /\ content \in [Files -> {CHOOSE v \in Versions : TRUE}]
    /\ disk = <<>>
    /\ writers \in WriterChoices
    /\ stack = <<>>
    /\ fresh = FALSE
    /\ pc = "down"
    /\ completed = <<>>
    /\ starts = 0 /\ edits = 0

\* main parses the input file.
Start ==
    /\ pc # "up"
    /\ starts < MaxStarts
    /\ starts' = starts + 1
    /\ pc' = "up"
    /\ fresh' \in BOOLEAN
    /\ stack' = <<NewCall(Main, <<Main>>)>>
    /\ UNCHANGED <<content, disk, writers, completed, edits>>

\* SimulationParams reads the input file once more, to compute its hash.
CalculateHash ==
    /\ Process("parsed")
    /\ Top([top EXCEPT !.hash = content[top.file], !.phase = "params"])
    /\ UNCHANGED <<content, disk, writers, fresh, pc, completed, starts, edits>>

\* Mutant: a continued simulation keeps its sub simulations and spawners.
ContinueAndSpawn ==
    /\ Process("params") /\ ~Throws(QuestionFolder)
    /\ \E c \in Latest(QuestionFolder) :
         Top([top EXCEPT !.particles = c.particles, !.start_iteration = c.iteration,
                         !.phase = "sources"])
    /\ UNCHANGED <<content, disk, writers, fresh, pc, completed, starts, edits>>

\* "Continue from checkpoint": nothing is spawned and no sub simulation is used.
\* The particles go on with the leg of the checkpoint.
Continue ==
    /\ Process("params") /\ ~Throws(QuestionFolder)
    /\ \E c \in Latest(QuestionFolder) :
         Top([top EXCEPT !.particles = c.particles, !.start_iteration = c.iteration,
                         !.todo = <<>>, !.phase = "sources"])
    /\ UNCHANGED <<content, disk, writers, fresh, pc, completed, starts, edits>>

\* "Start from scratch", or there is nothing to continue.  The spawners of the
\* file come first.
Spawn ==
    /\ Process("params") /\ ~Throws(QuestionFolder)
    /\ Top([top EXCEPT !.particles = <<<<Leg(top)>>>>, !.phase = "sources"])
    /\ UNCHANGED <<content, disk, writers, fresh, pc, completed, starts, edits>>

\* A torn checkpoint throws an xml_schema::exception nobody but readFile catches.
CheckpointThrows ==
    /\ \/ Process("params") /\ Throws(QuestionFolder)
       \/ Process("sources") /\ top.todo # <<>> /\ ~fresh /\ Throws(Append(top.folder, Head(top.todo)))
    /\ Fail
    /\ UNCHANGED <<content, disk, writers, fresh, completed, starts, edits>>

Cached(folder) == IF fresh THEN {} ELSE Latest(folder)

\* "Using cached result for sub simulation"
UseCached ==
    /\ Process("sources") /\ top.todo # <<>>
    /\ LET folder == Append(top.folder, Head(top.todo)) IN
         /\ ~Throws(folder)
         /\ \E c \in Cached(folder) : Top([Load(top, c) EXCEPT !.todo = Tail(@)])
    /\ UNCHANGED <<content, disk, writers, fresh, pc, completed, starts, edits>>

\* The recursive call, from loadConfig on.
StartSubSimulation ==
    /\ Process("sources") /\ top.todo # <<>>
    /\ LET folder == Append(top.folder, Head(top.todo)) IN
         /\ fresh \/ ~Throws(folder)
         /\ Cached(folder) = {}
         /\ stack' = <<NewCall(Head(top.todo), folder)>>
                     \o [stack EXCEPT ![1].todo = Tail(@)]
    /\ UNCHANGED <<content, disk, writers, fresh, pc, completed, starts, edits>>

-----------------------------------------------------------------------------
(***************************************************************************)
(* The simulation of the innermost call                                    *)
(***************************************************************************)

\* Mutant: the iteration counter starts at 0, also of a continued simulation.
StartFromZero ==
    /\ Process("sources") /\ top.todo = <<>>
    /\ Top([top EXCEPT !.phase = IF top.file \in writers THEN "starting" ELSE "loop"])
    /\ UNCHANGED <<content, disk, writers, fresh, pc, completed, starts, edits>>

StartSimulation ==
    /\ Process("sources") /\ top.todo = <<>>
    /\ Top([top EXCEPT !.iteration = top.start_iteration,
                       !.phase = IF top.file \in writers THEN "starting" ELSE "loop"])
    /\ UNCHANGED <<content, disk, writers, fresh, pc, completed, starts, edits>>

Stale == {i \in DOMAIN In(OutputFolder) : top.start_iteration = 0 \/ i > top.start_iteration}

\* A FileOutputHandler is constructed by the frame writer, and once more for the
\* result of a sub simulation.
RemoveFile ==
    /\ Process("starting") \/ Process("result")
    /\ \E i \in Stale :
         disk' = With(OutputFolder, Restrict(In(OutputFolder), DOMAIN In(OutputFolder) \ {i}))
    /\ completed' = Restrict(completed, DOMAIN completed \ {top.folder})
    /\ UNCHANGED <<content, writers, stack, fresh, pc, starts, edits>>

\* onSimulationStart of a continued simulation writes nothing.
SkipFirstFile ==
    /\ Process("starting") /\ Stale = {} /\ top.start_iteration > 0
    /\ Top([top EXCEPT !.phase = "loop"])
    /\ UNCHANGED <<content, disk, writers, fresh, pc, completed, starts, edits>>

Checkpoint(complete) ==
    [complete |-> complete, file |-> top.file, hash |-> top.hash,
     iteration |-> top.iteration, particles |-> top.particles]

\* The result replaces the file the frame writer has written at the end, which
\* its FileOutputHandler has removed.
Writes ==
    \/ Process("starting") /\ Stale = {} /\ top.start_iteration = 0
    \/ Process("result") /\ Stale = {}
    \/ Process("notifying") \/ Process("ending")

Write(complete) ==
    With(OutputFolder, [i \in DOMAIN In(OutputFolder) \cup {top.iteration} |->
                          IF i = top.iteration THEN Checkpoint(complete)
                          ELSE In(OutputFolder)[i]])

OpenFile ==
    /\ Writes
    /\ disk' = Write(FALSE)
    /\ Top([top EXCEPT !.open = TRUE])
    /\ UNCHANGED <<content, writers, fresh, pc, completed, starts, edits>>

CloseFile ==
    /\ pc = "up" /\ top.open /\ top.phase \in {"starting", "notifying"}
    /\ disk' = Write(TRUE)
    /\ Top([top EXCEPT !.open = FALSE, !.phase = "loop"])
    /\ UNCHANGED <<content, writers, fresh, pc, completed, starts, edits>>

Moved(group) == [group EXCEPT ![Len(group)].steps = @ + 1]

Step ==
    /\ Process("loop") /\ top.iteration < EndIteration
    /\ Top([top EXCEPT !.iteration = @ + 1,
                       !.particles = [k \in DOMAIN @ |-> Moved(@[k])],
                       !.phase = IF top.file \in writers THEN "notifying" ELSE "loop"])
    /\ UNCHANGED <<content, disk, writers, fresh, pc, completed, starts, edits>>

\* runSimulation returns to main, or to prepareParticles of the caller.
Return ==
    IF IsSub THEN pc' = pc /\ Top([top EXCEPT !.open = FALSE, !.phase = "result"])
    ELSE pc' = "finished" /\ stack' = <<>>

LeaveLoop ==
    /\ Process("loop") /\ top.iteration = EndIteration
    /\ \/ top.file \in writers /\ Top([top EXCEPT !.phase = "ending"]) /\ UNCHANGED pc
       \/ top.file \notin writers /\ Return
    /\ UNCHANGED <<content, disk, writers, fresh, completed, starts, edits>>

\* The file of the frame writer at the end is complete.
CloseLastFile ==
    /\ pc = "up" /\ top.open /\ top.phase = "ending"
    /\ disk' = Write(TRUE)
    /\ Return
    /\ UNCHANGED <<content, writers, fresh, completed, starts, edits>>

\* The result of the sub simulation is complete, and the caller loads it.
LoadResult ==
    /\ pc = "up" /\ top.open /\ top.phase = "result"
    /\ disk' = Write(TRUE)
    /\ completed' = [g \in DOMAIN completed \cup {top.folder} |->
                       IF g = top.folder THEN top.hash ELSE completed[g]]
    /\ stack' = <<Load(stack[2], Checkpoint(TRUE))>> \o SubSeq(stack, 3, Len(stack))
    /\ UNCHANGED <<content, writers, fresh, pc, starts, edits>>

-----------------------------------------------------------------------------
(***************************************************************************)
(* The world around the process                                            *)
(***************************************************************************)

Crash ==
    /\ pc = "up"
    /\ starts < MaxStarts
    /\ pc' = "down" /\ stack' = <<>>
    /\ UNCHANGED <<content, disk, writers, fresh, completed, starts, edits>>

\* The user edits an input file, at any time.
EditFile ==
    /\ edits < MaxEdits
    /\ edits' = edits + 1
    /\ \E file \in Files, v \in Versions :
         v # content[file] /\ content' = [content EXCEPT ![file] = v]
    /\ UNCHANGED <<disk, writers, stack, fresh, pc, completed, starts>>

Over == pc \in {"finished", "failed"} /\ starts = MaxStarts /\ UNCHANGED vars

ProcessStep ==
    \/ CalculateHash
    \/ Continue
    \/ Spawn
    \/ CheckpointThrows
    \/ UseCached
    \/ StartSubSimulation
    \/ StartSimulation
    \/ RemoveFile
    \/ SkipFirstFile
    \/ OpenFile
    \/ CloseFile
    \/ Step
    \/ LeaveLoop
    \/ CloseLastFile
    \/ LoadResult

Next == Start \/ ProcessStep \/ Crash \/ EditFile \/ Over

Spec == Init /\ [][Next]_vars

\* The process is scheduled, the question is answered somehow, and a simulation
\* that is not finished is started again.
Fairness == WF_vars(ProcessStep) /\ WF_vars(pc # "finished" /\ Start)

FairSpec == Spec /\ Fairness

-----------------------------------------------------------------------------
(***************************************************************************)
(* Properties                                                              *)
(***************************************************************************)

\* What the simulation of a file consists of after its first n sub simulations:
\* its own spawners, and behind them everything these sub simulations consist of,
\* in their order.
OriginsWith[file \in Files] ==
    [n \in 0 .. Len(Subs[file]) |->
        IF n = 0 THEN <<<<file>>>>
        ELSE LET sub == Subs[file][n]
                 origins == OriginsWith[sub][Len(Subs[sub])]
             IN  OriginsWith[file][n - 1]
                     \o [k \in DOMAIN origins |-> Append(origins[k], file)]]

Origins(file) == OriginsWith[file][Len(Subs[file])]

\* All the simulations there are: in a complete checkpoint, or running.
Simulations ==
    (UNION {{c \in Range(In(folder)) : c.complete} : folder \in DOMAIN disk})
    \cup {call \in Range(stack) :
               call.phase \notin {"parsed", "params", "sources"}}

\* Every simulation consists of exactly what its input files say, in their
\* order: nothing is missing and nothing there twice, whether it comes from a
\* run, from a cached result, or with a checkpoint that is continued.
NothingLostOrDoubled ==
    \A c \in Simulations :
        [k \in DOMAIN c.particles |-> [l \in DOMAIN c.particles[k] |-> c.particles[k][l].file]]
            = Origins(c.file)

RunToEnd(c, ran) ==
    \A k \in DOMAIN c.particles :
        LET group == c.particles[k] IN
            /\ group[Len(group)].steps = c.iteration
            /\ \A l \in 1 .. Len(group) - 1 :
                 group[l].file \in ran => group[l].steps = EndIteration

\* A simulation starts from sub simulations that have been run to their end, if
\* they do not write checkpoints of their own, and its particles have made as
\* many steps as its iteration says: across crashes of the outer simulations
\* and of the inner ones, and with results that other files share.
ResultsAreFinal == \A c \in Simulations : RunToEnd(c, Files \ writers)

\* A result that has been saved spares its simulation: as long as the file is
\* what it was, no later start runs the sub simulation again.
ResultsAreReused ==
    [][\A file \in Files :
         (Len(stack') > Len(stack) /\ pc = "up" /\ stack'[1].file = file) =>
            \/ fresh
            \/ stack'[1].folder \notin DOMAIN completed
            \/ completed[stack'[1].folder] # content[file]]_vars

\* With finitely many crashes and edits the program comes to its end, unless a
\* torn checkpoint is in the way.
FinishesUnlessTorn ==
    \/ <>[](pc = "finished")
    \/ <>(pc = "failed" /\ \E folder \in DOMAIN disk : \E i \in DOMAIN In(folder) :
                             ~In(folder)[i].complete)

\* docs/InputFileFormats.md says of sub simulations: "run recursively and then
\* copied into the main simulation".
SubSimulationsAreRun == \A c \in Simulations : RunToEnd(c, Files)

=============================================================================
