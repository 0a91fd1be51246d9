------------------------- MODULE SubSimulationsProofs -------------------------
(***************************************************************************)
(* Proofs about SubSimulations, for every finite set of input files, every *)
(* number of steps and any number of crashes, edits and starts: the        *)
(* results of sub simulations are final, they are used again, and every    *)
(* simulation has exactly the particles its input files say.               *)
(***************************************************************************)
EXTENDS SubSimulations, FiniteSetTheorems, WellFoundedInduction, TLAPS

Legs == [file : Files, version : Versions, steps : Nat]
Groups == Seq(Legs) \ {<<>>}

CallPhases ==
    {"parsed", "params", "sources", "starting", "loop", "notifying", "ending", "result"}
Calls ==
    [file : Files, folder : Seq(Files), version : Versions, hash : Versions,
     phase : CallPhases, todo : Seq(Files), particles : Seq(Groups),
     start_iteration : Nat, iteration : Nat, open : BOOLEAN]
StoredCheckpoints ==
    [complete : BOOLEAN, file : Files, hash : Versions, iteration : Nat,
     particles : Seq(Groups)]

\* A folder below `output`: every name is a sub simulation of the one before.
IsPath(folder) ==
    /\ folder \in Seq(Files) /\ folder # <<>>
    /\ \A n \in 1 .. Len(folder) - 1 : folder[n + 1] \in Range(Subs[folder[n]])

FileOf(folder) == folder[Len(folder)]

\* The last leg of a group is one of `file` with n steps, and the legs before it
\* that were run without a writer of checkpoints are complete.
Ends(group, file, n, W) ==
    /\ group[Len(group)].file = file
    /\ group[Len(group)].steps = n
    /\ \A l \in 1 .. Len(group) - 1 : group[l].file \notin W => group[l].steps = EndIteration

AllEnd(groups, file, n, W) ==
    /\ groups \in Seq(Groups)
    /\ \A k \in DOMAIN groups : Ends(groups[k], file, n, W)

\* The checkpoint that is stored as iteration i of a folder.  Without a writer
\* there are results only.
Stored(c, folder, i, W) ==
    /\ c \in StoredCheckpoints
    /\ c.file = FileOf(folder)
    /\ c.iteration = i /\ i \in 0 .. EndIteration
    /\ c.file \notin W => i = EndIteration
    /\ AllEnd(c.particles, c.file, i, W)

DiskOK(d, W) ==
    \A folder \in DOMAIN d :
        /\ IsPath(folder)
        /\ \A i \in DOMAIN d[folder] : Stored(d[folder][i], folder, i, W)

\* A call, by what it has done so far.
CallOK(call, W) ==
    /\ call \in Calls
    /\ IsPath(call.folder) /\ call.file = FileOf(call.folder)
    /\ \A k \in DOMAIN call.todo : call.todo[k] \in Range(Subs[call.file])
    /\ call.phase \in {"parsed", "params"} => call.start_iteration = 0
    /\ call.phase = "sources" =>
         /\ call.todo # <<>> => call.start_iteration = 0
         /\ AllEnd(call.particles, call.file, call.start_iteration, W)
    /\ call.phase \notin {"parsed", "params", "sources"} =>
         AllEnd(call.particles, call.file, call.iteration, W)
    /\ call.start_iteration <= EndIteration /\ call.iteration <= EndIteration
    /\ call.phase \in {"starting", "notifying", "ending"} => call.file \in W
    /\ call.phase \in {"ending", "result"} => call.iteration = EndIteration
    /\ call.open => call.phase \in {"starting", "notifying", "ending", "result"}

\* The innermost call runs, the others wait for it.  Only main's simulation is
\* ever continued.
StackOK(st, W) ==
    /\ st \in Seq(Calls)
    /\ \A n \in DOMAIN st :
         /\ CallOK(st[n], W)
         /\ n > 1 => st[n].phase = "sources" /\ st[n].start_iteration = 0
         /\ n = Len(st) => st[n].folder = <<Main>> /\ st[n].phase # "result"
         /\ n < Len(st) => Len(st[n].folder) > 1 /\ st[n].start_iteration = 0

Types ==
    /\ content \in [Files -> Versions]
    /\ fresh \in BOOLEAN
    /\ pc \in {"down", "up", "finished", "failed"}
    /\ pc = "up" <=> stack # <<>>

\* A result that counts as saved is in its folder.
ResultsSaved ==
    \A folder \in DOMAIN completed :
        /\ Len(folder) > 1
        /\ folder \in DOMAIN disk
        /\ \E i \in DOMAIN disk[folder] :
             i > 0 /\ disk[folder][i].complete /\ disk[folder][i].hash = completed[folder]

\* While a call writes to its folder, nothing there counts as saved.
Overwriting(call) ==
    \/ call.open
    \/ call.phase \in {"notifying", "ending"}
    \/ call.phase = "loop" /\ call.file \in writers

FolderIsFree ==
    stack # <<>> => (Overwriting(top) => top.folder \notin DOMAIN completed)

IInv ==
    /\ Types
    /\ DiskOK(disk, writers)
    /\ StackOK(stack, writers)
    /\ ResultsSaved
    /\ FolderIsFree

-----------------------------------------------------------------------------
(***************************************************************************)
(* Groups of particles                                                     *)
(***************************************************************************)

LEMMA EndIterationNat == EndIteration \in Nat /\ EndIteration > 0
  BY SubSimulationsAssumption

\* A longer group keeps its legs, and the new one is the last.
LEMMA AppendLeg ==
  ASSUME NEW group \in Groups, NEW leg \in Legs
  PROVE  /\ Append(group, leg) \in Groups
         /\ Len(Append(group, leg)) = Len(group) + 1
         /\ Append(group, leg)[Len(group) + 1] = leg
         /\ \A l \in 1 .. Len(group) : Append(group, leg)[l] = group[l]
  BY DEF Groups

\* What prepareParticles has just spawned.
LEMMA SpawnedEnd ==
  ASSUME NEW leg \in Legs, leg.steps = 0, NEW W
  PROVE  AllEnd(<<<<leg>>>>, leg.file, 0, W)
<1>. DEFINE group == <<leg>>
<1>1. group \in Groups /\ Len(group) = 1 /\ group[1] = leg
  BY DEF Groups
<1>2. Ends(group, leg.file, 0, W)
  BY <1>1 DEF Ends
<1>. HIDE DEF group
<1>3. <<group>> \in Seq(Groups) /\ DOMAIN <<group>> = {1} /\ <<group>>[1] = group
  BY <1>1
<1>4. AllEnd(<<group>>, leg.file, 0, W)
  BY <1>2, <1>3 DEF AllEnd
<1>. QED
  BY <1>4 DEF group

\* Loaded groups start another leg behind the finished one.
LEMMA LoadedEnd ==
  ASSUME NEW W, NEW leg \in Legs, leg.steps = 0,
         NEW groups, AllEnd(groups, leg.file, 0, W),
         NEW more, NEW file, NEW n, AllEnd(more, file, n, W),
         file \notin W => n = EndIteration
  PROVE  AllEnd(groups \o [k \in DOMAIN more |-> Append(more[k], leg)], leg.file, 0, W)
<1>. DEFINE loaded == [k \in DOMAIN more |-> Append(more[k], leg)]
<1>1. groups \in Seq(Groups) /\ more \in Seq(Groups)
  BY DEF AllEnd
<1>2. \A k \in DOMAIN more : more[k] \in Groups /\ Ends(more[k], file, n, W)
  BY <1>1 DEF AllEnd
<1>3. ASSUME NEW k \in DOMAIN more
      PROVE  Append(more[k], leg) \in Groups /\ Ends(Append(more[k], leg), leg.file, 0, W)
  <2>. DEFINE old == more[k]
              longer == Append(old, leg)
  <2>1. old \in Groups /\ Ends(old, file, n, W)
    BY <1>2
  <2>2. Len(old) \in Nat
    BY <2>1 DEF Groups
  <2>. HIDE DEF old
  <2>3. /\ longer \in Groups /\ Len(longer) = Len(old) + 1
        /\ longer[Len(old) + 1] = leg
        /\ \A l \in 1 .. Len(old) : longer[l] = old[l]
    BY <2>1, AppendLeg
  <2>. HIDE DEF longer
  <2>4. ASSUME NEW l \in 1 .. Len(longer) - 1, longer[l].file \notin W
        PROVE  longer[l].steps = EndIteration
    <3>1. l \in 1 .. Len(old) /\ longer[l] = old[l]
      BY <2>2, <2>3
    <3>2. CASE l = Len(old)
      BY <2>1, <2>4, <3>1, <3>2 DEF Ends
    <3>3. CASE l # Len(old)
      <4>1. l \in 1 .. Len(old) - 1
        BY <2>2, <3>1, <3>3
      <4>. QED
        BY <2>1, <2>4, <3>1, <4>1 DEF Ends
    <3>. QED
      BY <3>2, <3>3
  <2>5. Ends(longer, leg.file, 0, W)
    BY <2>3, <2>4 DEF Ends
  <2>. QED
    BY <2>3, <2>5 DEF longer, old
<1>4. loaded \in Seq(Groups) /\ Len(loaded) = Len(more) /\ Len(more) \in Nat
  <2>1. Len(more) \in Nat /\ DOMAIN more = 1 .. Len(more)
    BY <1>1
  <2>2. \A k \in 1 .. Len(more) : loaded[k] \in Groups
    BY <1>3, <2>1
  <2>3. loaded = [k \in 1 .. Len(more) |-> loaded[k]]
    BY <2>1
  <2>. HIDE DEF loaded
  <2>4. loaded \in [1 .. Len(more) -> Groups]
    BY <2>2, <2>3
  <2>. QED
    BY <2>1, <2>4
<1>5. \A k \in 1 .. Len(loaded) : Ends(loaded[k], leg.file, 0, W)
  BY <1>1, <1>3, <1>4
<1>. HIDE DEF loaded
<1>6. groups \o loaded \in Seq(Groups)
  BY <1>1, <1>4
<1>7. ASSUME NEW k \in DOMAIN (groups \o loaded)
      PROVE  Ends((groups \o loaded)[k], leg.file, 0, W)
  <2>1. Len(groups) \in Nat /\ Len(loaded) \in Nat /\ DOMAIN groups = 1 .. Len(groups)
    BY <1>1, <1>4
  <2>2. k \in 1 .. Len(groups) + Len(loaded)
    BY <1>1, <1>4
  <2>3. CASE k <= Len(groups)
    <3>1. k \in DOMAIN groups /\ (groups \o loaded)[k] = groups[k]
      BY <1>1, <1>4, <2>1, <2>2, <2>3
    <3>. QED
      BY <3>1 DEF AllEnd
  <2>4. CASE k > Len(groups)
    <3>1. /\ k - Len(groups) \in 1 .. Len(loaded)
          /\ (groups \o loaded)[k] = loaded[k - Len(groups)]
      BY <1>1, <1>4, <2>1, <2>2, <2>4
    <3>. QED
      BY <1>5, <3>1
  <2>. QED
    BY <2>1, <2>2, <2>3, <2>4
<1>8. AllEnd(groups \o loaded, leg.file, 0, W)
  BY <1>6, <1>7 DEF AllEnd
<1>. QED
  BY <1>8 DEF loaded

\* A step moves all groups.
LEMMA MovedEnd ==
  ASSUME NEW W, NEW file, NEW n \in Nat, NEW groups, AllEnd(groups, file, n, W)
  PROVE  AllEnd([k \in DOMAIN groups |-> Moved(groups[k])], file, n + 1, W)
<1>1. groups \in Seq(Groups)
  BY DEF AllEnd
<1>2. ASSUME NEW k \in DOMAIN groups
      PROVE  Moved(groups[k]) \in Groups /\ Ends(Moved(groups[k]), file, n + 1, W)
  <2>1. PICK old : old = groups[k]
    OBVIOUS
  <2>2. old \in Groups /\ Ends(old, file, n, W)
    BY <1>1, <2>1 DEF AllEnd
  <2>3. old \in Seq(Legs) /\ Len(old) \in Nat \ {0} /\ Len(old) \in DOMAIN old
    BY <2>2 DEF Groups
  <2>4. PICK last : last = old[Len(old)]
    OBVIOUS
  <2>5. last \in Legs
    BY <2>3, <2>4
  <2>6. PICK leg : leg = [last EXCEPT !.steps = @ + 1]
    OBVIOUS
  <2>7. leg \in Legs /\ leg.file = last.file /\ leg.steps = last.steps + 1
    <3>1. last.steps \in Nat /\ leg = [last EXCEPT !.steps = last.steps + 1]
      BY <2>5, <2>6 DEF Legs
    <3>2. last.steps + 1 \in Nat
      BY <3>1
    <3>. QED
      BY <2>5, <3>1, <3>2 DEF Legs
  <2>8. Moved(old) = [old EXCEPT ![Len(old)] = leg]
    BY <2>4, <2>6 DEF Moved
  <2>9. PICK new : new = [old EXCEPT ![Len(old)] = leg]
    OBVIOUS
  <2>10. /\ new \in Seq(Legs) /\ Len(new) = Len(old) /\ new[Len(old)] = leg
         /\ \A l \in 1 .. Len(old) - 1 : new[l] = old[l]
    <3>1. PICK m : m = Len(old)
      OBVIOUS
    <3>2. m \in Nat \ {0} /\ DOMAIN old = 1 .. m /\ old \in [1 .. m -> Legs]
      BY <2>3, <3>1
    <3>3. new \in [1 .. m -> Legs] /\ new[m] = leg /\ \A l \in 1 .. m - 1 : new[l] = old[l]
      BY <2>7, <2>9, <3>1, <3>2
    <3>4. new \in Seq(Legs) /\ Len(new) = m
      BY <3>2, <3>3
    <3>. QED
      BY <3>1, <3>3, <3>4
  <2>11. new # <<>>
    BY <2>3, <2>10
  <2>12. Ends(new, file, n + 1, W)
    BY <2>2, <2>4, <2>7, <2>10 DEF Ends
  <2>. QED
    BY <2>1, <2>8, <2>9, <2>10, <2>11, <2>12 DEF Groups
<1>3. [k \in DOMAIN groups |-> Moved(groups[k])] \in Seq(Groups)
  BY <1>1, <1>2
<1>. QED
  BY <1>2, <1>3 DEF AllEnd

-----------------------------------------------------------------------------
(***************************************************************************)
(* Calls                                                                   *)
(***************************************************************************)

Replaced(st, call) == [st EXCEPT ![1] = call]

\* The innermost call is replaced by another one of the same folder.
LEMMA ReplaceTop ==
  ASSUME NEW W, NEW st, StackOK(st, W), st # <<>>,
         NEW call, CallOK(call, W), call.folder = st[1].folder,
         Len(st) = 1 \/ call.start_iteration = st[1].start_iteration,
         call.phase = "result" => Len(st) # 1,
         NEW new, new = Replaced(st, call)
  PROVE  StackOK(new, W) /\ new # <<>> /\ new[1] = call /\ Len(new) = Len(st)
<1>1. st \in Seq(Calls) /\ Len(st) \in Nat \ {0} /\ DOMAIN st = 1 .. Len(st)
  BY DEF StackOK
<1>2. call \in Calls
  BY DEF CallOK
<1>4. /\ new \in Seq(Calls) /\ Len(new) = Len(st) /\ DOMAIN new = 1 .. Len(st)
      /\ new[1] = call /\ \A n \in 2 .. Len(st) : new[n] = st[n]
  BY <1>1, <1>2 DEF Replaced
<1>5. ASSUME NEW n \in DOMAIN new
      PROVE  /\ CallOK(new[n], W)
             /\ n > 1 => new[n].phase = "sources" /\ new[n].start_iteration = 0
             /\ n = Len(new) => new[n].folder = <<Main>> /\ new[n].phase # "result"
             /\ n < Len(new) => Len(new[n].folder) > 1 /\ new[n].start_iteration = 0
  <2>1. CASE n = 1
    BY <1>1, <1>4, <2>1 DEF StackOK
  <2>2. CASE n # 1
    <3>1. n \in 2 .. Len(st) /\ new[n] = st[n]
      BY <1>1, <1>4, <2>2
    <3>. QED
      BY <1>1, <1>4, <3>1 DEF StackOK
  <2>. QED
    BY <2>1, <2>2
<1>6. StackOK(new, W)
  BY <1>4, <1>5 DEF StackOK
<1>7. new # <<>>
  BY <1>1, <1>4
<1>. QED
  BY <1>4, <1>6, <1>7

\* What is known of the innermost call.
LEMMA TopFacts ==
  ASSUME IInv, pc = "up"
  PROVE  /\ stack # <<>> /\ stack \in Seq(Calls) /\ Len(stack) \in Nat \ {0}
         /\ StackOK(stack, writers)
         /\ CallOK(top, writers) /\ top \in Calls
         /\ IsSub => Len(top.folder) > 1 /\ top.start_iteration = 0
         /\ ~IsSub => top.folder = <<Main>> /\ top.phase # "result" /\ Len(stack) = 1
         /\ Overwriting(top) => top.folder \notin DOMAIN completed
<1>1. stack # <<>> /\ StackOK(stack, writers)
  BY DEF IInv, Types
<1>2. stack \in Seq(Calls) /\ Len(stack) \in Nat \ {0} /\ DOMAIN stack = 1 .. Len(stack)
  BY <1>1 DEF StackOK
<1>3. 1 \in DOMAIN stack
  BY <1>2
<1>4. CallOK(stack[1], writers)
  BY <1>1, <1>3 DEF StackOK
<1>5. stack[1] \in Calls
  BY <1>4 DEF CallOK
<1>6. IsSub => Len(stack[1].folder) > 1 /\ stack[1].start_iteration = 0
  BY <1>1, <1>2, <1>3 DEF StackOK, IsSub
<1>7. ~IsSub => stack[1].folder = <<Main>> /\ stack[1].phase # "result" /\ Len(stack) = 1
  BY <1>1, <1>2, <1>3 DEF StackOK, IsSub
<1>. QED
  BY <1>1, <1>2, <1>4, <1>5, <1>6, <1>7 DEF IInv, FolderIsFree, top

\* The innermost call goes on.
LEMMA TopStep ==
  ASSUME IInv, pc = "up",
         NEW call, CallOK(call, writers), call.folder = top.folder,
         ~IsSub \/ call.start_iteration = top.start_iteration,
         call.phase = "result" => IsSub,
         Top(call), UNCHANGED <<content, writers, fresh, pc>>,
         DiskOK(disk', writers), ResultsSaved',
         Overwriting(call) => top.folder \notin DOMAIN completed'
  PROVE  IInv'
<1>1. /\ stack # <<>> /\ StackOK(stack, writers) /\ Len(stack) \in Nat \ {0}
      /\ ~IsSub => Len(stack) = 1
  BY TopFacts
<1>2. /\ StackOK(stack', writers)
      /\ stack' # <<>> /\ stack'[1] = call
  <2>1. PICK st, W, new : st = stack /\ W = writers /\ new = Replaced(st, call)
    OBVIOUS
  <2>2. stack' = new
    BY <2>1 DEF Top, Replaced
  <2>3. Len(st) = 1 \/ call.start_iteration = st[1].start_iteration
    BY <1>1, <2>1 DEF top
  <2>4. call.phase = "result" => Len(st) # 1
    <3>1. IsSub => Len(stack) # 1
      <4>1. \A n \in Nat : n > 1 => n # 1
        OBVIOUS
      <4>. QED
        BY <1>1, <4>1 DEF IsSub
    <3>. QED
      BY <2>1, <3>1, Zenon
  <2>5. call.folder = st[1].folder /\ CallOK(call, W)
    BY <2>1 DEF top
  <2>6. StackOK(st, W) /\ st # <<>>
    BY <1>1, <2>1
  <2>7. new = Replaced(st, call)
    BY <2>1
  <2>8. StackOK(new, W) /\ new # <<>> /\ new[1] = call
    BY ONLY <2>3, <2>4, <2>5, <2>6, <2>7, ReplaceTop
  <2>. QED
    BY <2>1, <2>2, <2>8
<1>3. Types'
  BY <1>1, <1>2 DEF IInv, Types
<1>4. FolderIsFree'
  BY <1>2 DEF FolderIsFree, Overwriting, top
<1>. QED
  BY <1>2, <1>3, <1>4 DEF IInv

LEMMA TopOnly ==
  ASSUME IInv, pc = "up",
         NEW call, CallOK(call, writers), call.folder = top.folder,
         ~IsSub \/ call.start_iteration = top.start_iteration,
         call.phase = "result" => IsSub,
         Top(call), UNCHANGED <<content, disk, writers, fresh, pc, completed>>,
         Overwriting(call) => top.folder \notin DOMAIN completed
  PROVE  IInv'
<1>1. DiskOK(disk', writers)
  BY DEF IInv
<1>2. ResultsSaved'
  BY DEF IInv, ResultsSaved
<1>. QED
  BY <1>1, <1>2, TopStep

\* All calls are gone.
LEMMA NoCalls ==
  ASSUME IInv, stack' = <<>>, pc' \in {"down", "finished", "failed"},
         UNCHANGED <<content, writers, fresh>>, DiskOK(disk', writers), ResultsSaved'
  PROVE  IInv'
<1>1. StackOK(stack', writers)
  BY DEF StackOK
<1>2. Types'
  BY DEF IInv, Types
<1>. QED
  BY <1>1, <1>2 DEF IInv, FolderIsFree

-----------------------------------------------------------------------------
(***************************************************************************)
(* The initial state, and the steps of prepareParticles                    *)
(***************************************************************************)

LEMMA Initially ==
  ASSUME Init
  PROVE  IInv
<1>1. (CHOOSE v \in Versions : TRUE) \in Versions
  BY SubSimulationsAssumption
<1>2. content \in [Files -> Versions]
  BY <1>1 DEF Init
<1>3. DiskOK(disk, writers)
  BY DEF Init, DiskOK
<1>4. StackOK(stack, writers)
  BY DEF Init, StackOK
<1>5. Types /\ FolderIsFree
  BY <1>2 DEF Init, Types, FolderIsFree
<1>6. ResultsSaved
  <2>1. DOMAIN completed = {}
    BY DEF Init
  <2>. QED
    BY <2>1 DEF ResultsSaved
<1>. QED
  BY <1>3, <1>4, <1>5, <1>6 DEF IInv

LEMMA HashInv ==
  ASSUME IInv, CalculateHash
  PROVE  IInv'
<1>1. PICK call : call = [top EXCEPT !.hash = content[top.file], !.phase = "params"]
  OBVIOUS
<1>2. pc = "up" /\ top.phase = "parsed" /\ ~top.open /\ Top(call)
  BY <1>1 DEF CalculateHash, Process
<1>3. top \in Calls /\ content[top.file] \in Versions /\ CallOK(top, writers)
  BY <1>2, TopFacts DEF IInv, Types, Calls
<1>4. /\ call \in Calls /\ call.phase = "params" /\ call.open = top.open
      /\ call.folder = top.folder /\ call.file = top.file /\ call.todo = top.todo
      /\ call.start_iteration = top.start_iteration /\ call.iteration = top.iteration
  BY <1>1, <1>3 DEF Calls, CallPhases
<1>5. CallOK(call, writers)
  BY <1>2, <1>3, <1>4 DEF CallOK
<1>6. ~Overwriting(call)
  BY <1>2, <1>4 DEF Overwriting
<1>. QED
  BY <1>2, <1>4, <1>5, <1>6, TopOnly DEF CalculateHash

LEMMA SpawnInv ==
  ASSUME IInv, Spawn
  PROVE  IInv'
<1>1. PICK call : call = [top EXCEPT !.particles = <<<<Leg(top)>>>>, !.phase = "sources"]
  OBVIOUS
<1>2. pc = "up" /\ top.phase = "params" /\ ~top.open /\ Top(call)
  BY <1>1 DEF Spawn, Process
<1>3. top \in Calls /\ CallOK(top, writers) /\ top.start_iteration = 0
  BY <1>2, TopFacts DEF CallOK
<1>4. Leg(top) \in Legs /\ Leg(top).steps = 0 /\ Leg(top).file = top.file
  BY <1>3 DEF Leg, Legs, Calls
<1>5. AllEnd(<<<<Leg(top)>>>>, top.file, 0, writers)
  BY <1>4, SpawnedEnd
<1>6. <<<<Leg(top)>>>> \in Seq(Groups)
  BY <1>5 DEF AllEnd
<1>7. /\ call \in Calls /\ call.phase = "sources" /\ call.open = top.open
      /\ call.folder = top.folder /\ call.file = top.file /\ call.todo = top.todo
      /\ call.start_iteration = top.start_iteration /\ call.iteration = top.iteration
      /\ call.particles = <<<<Leg(top)>>>>
  BY <1>1, <1>3, <1>6 DEF Calls, CallPhases
<1>8. CallOK(call, writers)
  BY <1>2, <1>3, <1>5, <1>7 DEF CallOK
<1>9. ~Overwriting(call)
  BY <1>2, <1>7 DEF Overwriting
<1>. QED
  BY <1>2, <1>7, <1>8, <1>9, TopOnly DEF Spawn

\* A folder and those below it.
LEMMA SubFolder ==
  ASSUME NEW folder, IsPath(folder), NEW file \in Files,
         file \in Range(Subs[FileOf(folder)])
  PROVE  /\ IsPath(Append(folder, file)) /\ FileOf(Append(folder, file)) = file
         /\ Len(Append(folder, file)) > 1
<1>1. PICK m : m = Len(folder)
  OBVIOUS
<1>2. folder \in Seq(Files) /\ m \in Nat \ {0}
  BY <1>1 DEF IsPath
<1>3. PICK longer : longer = Append(folder, file)
  OBVIOUS
<1>4. /\ longer \in Seq(Files) /\ Len(longer) = m + 1 /\ longer[m + 1] = file
      /\ \A n \in 1 .. m : longer[n] = folder[n]
  BY <1>1, <1>2, <1>3
<1>5. longer # <<>>
  BY <1>2, <1>4
<1>6. ASSUME NEW n \in 1 .. Len(longer) - 1
      PROVE  longer[n + 1] \in Range(Subs[longer[n]])
  <2>1. n \in 1 .. m /\ longer[n] = folder[n]
    BY <1>2, <1>4
  <2>2. CASE n = m
    BY <1>1, <1>4, <2>1, <2>2 DEF FileOf
  <2>3. CASE n # m
    <3>1. n \in 1 .. m - 1 /\ n + 1 \in 1 .. m
      BY <1>2, <2>1, <2>3
    <3>2. longer[n + 1] = folder[n + 1]
      BY <1>4, <3>1
    <3>. QED
      BY <1>1, <2>1, <3>1, <3>2 DEF IsPath
  <2>. QED
    BY <2>2, <2>3
<1>7. IsPath(longer)
  BY <1>4, <1>5, <1>6 DEF IsPath
<1>8. FileOf(longer) = file /\ Len(longer) > 1
  BY <1>2, <1>4 DEF FileOf
<1>. QED
  BY <1>3, <1>7, <1>8

LEMMA LastOfPath ==
  ASSUME NEW folder \in Seq(Files), folder # <<>>, NEW file \in Files,
         IsPath(Append(folder, file))
  PROVE  file \in Range(Subs[FileOf(folder)])
<1>1. PICK m : m = Len(folder)
  OBVIOUS
<1>2. m \in Nat \ {0}
  BY <1>1
<1>3. PICK longer : longer = Append(folder, file)
  OBVIOUS
<1>4. Len(longer) = m + 1 /\ longer[m + 1] = file /\ longer[m] = folder[m]
  BY <1>1, <1>2, <1>3
<1>5. m \in 1 .. Len(longer) - 1
  BY <1>2, <1>4
<1>6. longer[m + 1] \in Range(Subs[longer[m]])
  BY <1>3, <1>5 DEF IsPath
<1>. QED
  BY <1>1, <1>4, <1>6 DEF FileOf

\* What a call gets from a folder.
LEMMA ReadCheckpoint ==
  ASSUME DiskOK(disk, writers), NEW folder, NEW c \in Latest(folder)
  PROVE  IsPath(folder) /\ \E i \in 0 .. EndIteration : Stored(c, folder, i, writers)
<1>1. PICK i \in DOMAIN In(folder) : c = In(folder)[i]
  BY DEF Latest, Examined
<1>2. folder \in DOMAIN disk /\ In(folder) = disk[folder]
  BY <1>1 DEF In
<1>3. IsPath(folder) /\ Stored(c, folder, i, writers)
  BY <1>1, <1>2 DEF DiskOK
<1>. QED
  BY <1>3 DEF Stored

\* Only main finds its own folder: that of a sub simulation is left by a file
\* that names itself.
LEMMA OnlyMain ==
  ASSUME IInv, pc = "up", IsPath(QuestionFolder)
  PROVE  ~IsSub /\ QuestionFolder = top.folder /\ FileOf(top.folder) = top.file
<1>1. top \in Calls /\ CallOK(top, writers)
  BY TopFacts
<1>2. /\ top.folder \in Seq(Files) /\ top.folder # <<>> /\ top.file \in Files
      /\ top.file = FileOf(top.folder)
  BY <1>1 DEF CallOK, IsPath, Calls
<1>3. ASSUME IsSub PROVE FALSE
  <2>1. IsPath(Append(top.folder, top.file))
    BY <1>3 DEF QuestionFolder
  <2>2. top.file \in Range(Subs[top.file])
    BY <1>2, <2>1, LastOfPath
  <2>. QED BY <1>2, <2>2, SubSimulationsAssumption
<1>. QED BY <1>2, <1>3 DEF QuestionFolder

LEMMA ContinueInv ==
  ASSUME IInv, Continue
  PROVE  IInv'
<1>1. PICK c \in Latest(QuestionFolder) :
        Top([top EXCEPT !.particles = c.particles, !.start_iteration = c.iteration,
                        !.todo = <<>>, !.phase = "sources"])
  BY DEF Continue
<1>2. PICK call : call = [top EXCEPT !.particles = c.particles, !.start_iteration = c.iteration,
                                     !.todo = <<>>, !.phase = "sources"]
  OBVIOUS
<1>3. pc = "up" /\ top.phase = "params" /\ ~top.open /\ Top(call)
  BY <1>1, <1>2 DEF Continue, Process
<1>4. top \in Calls /\ CallOK(top, writers)
  BY <1>3, TopFacts
<1>5. /\ top.folder \in Seq(Files) /\ top.folder # <<>> /\ top.file \in Files
      /\ top.file = FileOf(top.folder)
  BY <1>4 DEF CallOK, IsPath, Calls
<1>6. DiskOK(disk, writers)
  BY DEF IInv
<1>7. PICK i \in 0 .. EndIteration : Stored(c, QuestionFolder, i, writers)
  BY <1>6, ReadCheckpoint
<1>8. IsPath(QuestionFolder)
  BY <1>6, ReadCheckpoint
<1>9. ~IsSub
  BY <1>3, <1>8, OnlyMain
<1>10. /\ AllEnd(c.particles, top.file, i, writers) /\ c.iteration = i
       /\ c.particles \in Seq(Groups)
  BY <1>5, <1>7, <1>9 DEF Stored, QuestionFolder, AllEnd
<1>11. i \in Nat /\ i <= EndIteration
  BY EndIterationNat
<1>12. /\ call \in Calls /\ call.phase = "sources" /\ call.open = top.open
       /\ call.folder = top.folder /\ call.file = top.file /\ call.todo = <<>>
       /\ call.start_iteration = i /\ call.iteration = top.iteration
       /\ call.particles = c.particles
  <2>1. PICK nothing, particles, iteration0 :
          nothing = <<>> /\ particles = c.particles /\ iteration0 = c.iteration
    OBVIOUS
  <2>2. nothing \in Seq(Files) /\ particles \in Seq(Groups) /\ iteration0 \in Nat
    BY <1>10, <1>11, <2>1
  <2>3. call = [top EXCEPT !.particles = particles, !.start_iteration = iteration0,
                           !.todo = nothing, !.phase = "sources"]
    BY <1>2, <2>1
  <2>. QED
    BY <1>4, <1>10, <2>1, <2>2, <2>3 DEF Calls, CallPhases
<1>13. CallOK(call, writers)
  BY <1>3, <1>4, <1>10, <1>11, <1>12 DEF CallOK
<1>14. ~Overwriting(call)
  BY <1>3, <1>12 DEF Overwriting
<1>. QED
  BY <1>3, <1>9, <1>12, <1>13, <1>14, TopOnly DEF Continue

\* What is known when the next sub simulation is due.
LEMMA NextSub ==
  ASSUME IInv, Process("sources"), top.todo # <<>>
  PROVE  /\ pc = "up" /\ top \in Calls /\ CallOK(top, writers) /\ top.phase = "sources"
         /\ ~top.open /\ top.start_iteration = 0
         /\ Head(top.todo) \in Files
         /\ IsPath(Append(top.folder, Head(top.todo)))
         /\ FileOf(Append(top.folder, Head(top.todo))) = Head(top.todo)
         /\ Len(Append(top.folder, Head(top.todo))) > 1
         /\ Tail(top.todo) \in Seq(Files)
         /\ \A k \in DOMAIN Tail(top.todo) : Tail(top.todo)[k] \in Range(Subs[top.file])
<1>1. pc = "up" /\ top.phase = "sources" /\ ~top.open
  BY DEF Process
<1>2. top \in Calls /\ CallOK(top, writers)
  BY <1>1, TopFacts
<1>3. PICK todo : todo = top.todo
  OBVIOUS
<1>4. todo \in Seq(Files) /\ todo # <<>> /\ \A k \in DOMAIN todo : todo[k] \in Range(Subs[top.file])
  BY <1>2, <1>3 DEF CallOK, Calls
<1>5. /\ Head(todo) \in Files /\ Head(todo) = todo[1] /\ 1 \in DOMAIN todo
      /\ Tail(todo) \in Seq(Files)
  BY <1>4
<1>6. ASSUME NEW k \in DOMAIN Tail(todo)
      PROVE  Tail(todo)[k] \in Range(Subs[top.file])
  <2>1. k + 1 \in DOMAIN todo /\ Tail(todo)[k] = todo[k + 1]
    BY <1>4
  <2>. QED
    BY <1>4, <2>1
<1>7. IsPath(top.folder) /\ top.file = FileOf(top.folder)
  BY <1>2 DEF CallOK
<1>8. Head(todo) \in Range(Subs[FileOf(top.folder)])
  BY <1>4, <1>5, <1>7
<1>9. PICK file : file = Head(todo)
  OBVIOUS
<1>10. file \in Files /\ file \in Range(Subs[FileOf(top.folder)])
  BY <1>5, <1>8, <1>9
<1>11. /\ IsPath(Append(top.folder, file)) /\ FileOf(Append(top.folder, file)) = file
       /\ Len(Append(top.folder, file)) > 1
  BY <1>7, <1>10, SubFolder
<1>12. top.start_iteration = 0
  BY <1>1, <1>2, <1>3, <1>4 DEF CallOK
<1>. QED
  BY <1>1, <1>2, <1>3, <1>5, <1>6, <1>9, <1>11, <1>12

\* A call loads a result.
LEMMA Loaded ==
  ASSUME NEW W, NEW call, CallOK(call, W), call.phase = "sources", call.start_iteration = 0,
         NEW c, NEW more, c.particles = more,
         NEW from, NEW i, AllEnd(more, from, i, W), from \notin W => i = EndIteration
  PROVE  /\ CallOK(Load(call, c), W) /\ Load(call, c) \in Calls
         /\ Load(call, c).phase = "sources" /\ Load(call, c).folder = call.folder
         /\ Load(call, c).start_iteration = 0 /\ Load(call, c).open = call.open
         /\ Load(call, c).todo = call.todo /\ Load(call, c).file = call.file
<1>1. call \in Calls /\ AllEnd(call.particles, call.file, 0, W)
  BY DEF CallOK
<1>2. PICK leg : leg = Leg(call)
  OBVIOUS
<1>3. leg \in Legs /\ leg.steps = 0 /\ leg.file = call.file
  BY <1>1, <1>2 DEF Leg, Legs, Calls
<1>4. PICK particles :
        particles = call.particles \o [k \in DOMAIN c.particles |-> Append(c.particles[k], leg)]
  OBVIOUS
<1>5. AllEnd(particles, call.file, 0, W)
  <2>3. AllEnd(call.particles, leg.file, 0, W)
    BY <1>1, <1>3
  <2>4. PICK groups : groups = call.particles
    OBVIOUS
  <2>5. AllEnd(groups, leg.file, 0, W)
    BY <2>3, <2>4
  <2>6. AllEnd(groups \o [k \in DOMAIN more |-> Append(more[k], leg)], leg.file, 0, W)
    BY <1>3, <2>5, LoadedEnd
  <2>. QED
    BY <1>3, <1>4, <2>4, <2>6
<1>6. particles \in Seq(Groups)
  BY <1>5 DEF AllEnd
<1>7. Load(call, c) = [call EXCEPT !.particles = particles]
  BY <1>2, <1>4 DEF Load
<1>8. PICK new : new = [call EXCEPT !.particles = particles]
  OBVIOUS
<1>9. /\ new \in Calls /\ new.phase = call.phase /\ new.folder = call.folder
      /\ new.start_iteration = 0 /\ new.open = call.open /\ new.todo = call.todo
      /\ new.file = call.file /\ new.particles = particles /\ new.iteration = call.iteration
  BY <1>1, <1>6, <1>8 DEF Calls
<1>10. CallOK(new, W)
  BY <1>5, <1>9 DEF CallOK
<1>. QED
  BY <1>7, <1>8, <1>9, <1>10

\* A call goes on with the next sub simulation.
LEMMA NextTodo ==
  ASSUME NEW W, NEW call, CallOK(call, W), call.phase = "sources", call.start_iteration = 0,
         NEW todo \in Seq(Files), \A k \in DOMAIN todo : todo[k] \in Range(Subs[call.file])
  PROVE  /\ CallOK([call EXCEPT !.todo = todo], W)
         /\ [call EXCEPT !.todo = todo].phase = "sources"
         /\ [call EXCEPT !.todo = todo].folder = call.folder
         /\ [call EXCEPT !.todo = todo].start_iteration = 0
         /\ [call EXCEPT !.todo = todo].open = call.open
<1>1. call \in Calls
  BY DEF CallOK
<1>2. PICK new : new = [call EXCEPT !.todo = todo]
  OBVIOUS
<1>3. /\ new \in Calls /\ new.phase = call.phase /\ new.folder = call.folder
      /\ new.start_iteration = 0 /\ new.open = call.open /\ new.todo = todo
      /\ new.file = call.file /\ new.particles = call.particles
      /\ new.iteration = call.iteration
  BY <1>1, <1>2 DEF Calls
<1>4. CallOK(new, W)
  BY <1>3 DEF CallOK
<1>. QED
  BY <1>2, <1>3, <1>4

LEMMA UseCachedInv ==
  ASSUME IInv, UseCached
  PROVE  IInv'
<1>1. PICK folder, file, todo :
        file = Head(top.todo) /\ folder = Append(top.folder, file) /\ todo = Tail(top.todo)
  OBVIOUS
<1>2. Process("sources") /\ top.todo # <<>>
  BY DEF UseCached
<1>3. PICK c \in Latest(folder) : Top([Load(top, c) EXCEPT !.todo = Tail(@)])
  BY <1>1 DEF UseCached, Cached
<1>4. /\ pc = "up" /\ CallOK(top, writers) /\ top.phase = "sources" /\ ~top.open
      /\ top.start_iteration = 0 /\ todo \in Seq(Files)
      /\ \A k \in DOMAIN todo : todo[k] \in Range(Subs[top.file])
  BY <1>1, <1>2, NextSub
<1>5. DiskOK(disk, writers)
  BY DEF IInv
<1>6. PICK i \in 0 .. EndIteration : Stored(c, folder, i, writers)
  BY <1>5, ReadCheckpoint
<1>7. AllEnd(c.particles, c.file, i, writers) /\ (c.file \notin writers => i = EndIteration)
  BY <1>6 DEF Stored
<1>8. PICK loaded : loaded = Load(top, c)
  OBVIOUS
<1>9. /\ CallOK(loaded, writers) /\ loaded \in Calls /\ loaded.phase = "sources"
      /\ loaded.folder = top.folder /\ loaded.start_iteration = 0 /\ loaded.open = top.open
      /\ loaded.todo = top.todo /\ loaded.file = top.file
  <2>1. /\ CallOK(Load(top, c), writers) /\ Load(top, c) \in Calls
        /\ Load(top, c).phase = "sources" /\ Load(top, c).folder = top.folder
        /\ Load(top, c).start_iteration = 0 /\ Load(top, c).open = top.open
        /\ Load(top, c).todo = top.todo /\ Load(top, c).file = top.file
    <3>1. PICK more, from : more = c.particles /\ from = c.file
      OBVIOUS
    <3>2. AllEnd(more, from, i, writers) /\ (from \notin writers => i = EndIteration)
      BY <1>7, <3>1
    <3>3. c.particles = more
      BY <3>1
    <3>. QED
      BY <1>4, <3>2, <3>3, Loaded, ZenonT(40)
  <2>. QED
    BY <1>8, <2>1
<1>10. PICK call : call = [loaded EXCEPT !.todo = todo]
  OBVIOUS
<1>11. Top(call)
  <2>1. [loaded EXCEPT !.todo = Tail(@)] = [loaded EXCEPT !.todo = Tail(loaded.todo)]
    BY <1>9 DEF Calls
  <2>. QED
    BY <1>1, <1>3, <1>8, <1>9, <1>10, <2>1
<1>12. /\ CallOK(call, writers) /\ call.phase = "sources" /\ call.folder = top.folder
       /\ call.start_iteration = 0 /\ call.open = top.open
  BY <1>4, <1>9, <1>10, NextTodo
<1>13. ~Overwriting(call)
  BY <1>4, <1>12 DEF Overwriting
<1>. QED
  BY <1>4, <1>11, <1>12, <1>13, TopOnly DEF UseCached

\* The recursive call, in front of the waiting ones.
LEMMA Pushed ==
  ASSUME NEW W, NEW st, StackOK(st, W), st # <<>>,
         st[1].phase = "sources", st[1].start_iteration = 0,
         NEW call, CallOK(call, W), Len(call.folder) > 1, call.start_iteration = 0
  PROVE  /\ StackOK(<<call>> \o st, W) /\ <<call>> \o st # <<>> /\ (<<call>> \o st)[1] = call
<1>1. st \in Seq(Calls) /\ call \in Calls
  BY DEF StackOK, CallOK
<1>2. PICK m : m = Len(st)
  OBVIOUS
<1>3. m \in Nat \ {0} /\ DOMAIN st = 1 .. m
  BY <1>1, <1>2
<1>4. PICK new : new = <<call>> \o st
  OBVIOUS
<1>5. /\ new \in Seq(Calls) /\ Len(new) = m + 1 /\ DOMAIN new = 1 .. m + 1 /\ new[1] = call
      /\ \A n \in 2 .. m + 1 : new[n] = st[n - 1]
  BY <1>1, <1>2, <1>3, <1>4
<1>6. ASSUME NEW n \in DOMAIN new
      PROVE  /\ CallOK(new[n], W)
             /\ n > 1 => new[n].phase = "sources" /\ new[n].start_iteration = 0
             /\ n = Len(new) => new[n].folder = <<Main>> /\ new[n].phase # "result"
             /\ n < Len(new) => Len(new[n].folder) > 1 /\ new[n].start_iteration = 0
  <2>1. CASE n = 1
    BY <1>3, <1>5, <2>1
  <2>2. CASE n # 1
    <3>1. n \in 2 .. m + 1 /\ n - 1 \in 1 .. m /\ new[n] = st[n - 1]
      BY <1>3, <1>5, <2>2
    <3>2. PICK l : l = n - 1
      OBVIOUS
    <3>3. /\ l \in DOMAIN st /\ new[n] = st[l] /\ (n = Len(new) <=> l = m)
          /\ (n < Len(new) <=> l < m) /\ (l = 1 \/ l > 1)
      BY <1>3, <1>5, <3>1, <3>2
    <3>4. /\ CallOK(st[l], W)
          /\ l > 1 => st[l].phase = "sources" /\ st[l].start_iteration = 0
          /\ l = m => st[l].folder = <<Main>> /\ st[l].phase # "result"
          /\ l < m => Len(st[l].folder) > 1 /\ st[l].start_iteration = 0
      BY <1>2, <3>3 DEF StackOK
    <3>. QED
      BY <3>3, <3>4
  <2>. QED
    BY <2>1, <2>2
<1>7. StackOK(new, W)
  BY <1>5, <1>6 DEF StackOK
<1>8. new # <<>>
  BY <1>3, <1>5
<1>. QED
  BY <1>4, <1>5, <1>7, <1>8

LEMMA NewCallOK ==
  ASSUME IInv, NEW folder, IsPath(folder), NEW file \in Files, FileOf(folder) = file
  PROVE  /\ CallOK(NewCall(file, folder), writers)
         /\ NewCall(file, folder).folder = folder /\ NewCall(file, folder).file = file
         /\ NewCall(file, folder).start_iteration = 0
         /\ NewCall(file, folder).phase = "parsed" /\ ~NewCall(file, folder).open
<1>1. content[file] \in Versions
  BY DEF IInv, Types
<1>2. Subs[file] \in Seq(Files)
  BY SubSimulationsAssumption
<1>3. folder \in Seq(Files)
  BY DEF IsPath
<1>4. PICK nothing : nothing = <<>>
  OBVIOUS
<1>5. nothing \in Seq(Groups)
  BY <1>4
<1>6. PICK call : call =
        [file |-> file, folder |-> folder, version |-> content[file], hash |-> content[file],
         phase |-> "parsed", todo |-> Subs[file], particles |-> nothing,
         start_iteration |-> 0, iteration |-> 0, open |-> FALSE]
  OBVIOUS
<1>7. call = NewCall(file, folder)
  BY <1>4, <1>6 DEF NewCall
<1>8. call \in Calls
  BY <1>1, <1>2, <1>3, <1>5, <1>6 DEF Calls, CallPhases
<1>9. \A k \in DOMAIN call.todo : call.todo[k] \in Range(Subs[call.file])
  BY <1>6 DEF Range
<1>10. CallOK(call, writers)
  BY <1>6, <1>8, <1>9, EndIterationNat DEF CallOK
<1>. QED
  BY <1>6, <1>7, <1>10

LEMMA StartSubInv ==
  ASSUME IInv, StartSubSimulation
  PROVE  IInv'
<1>1. PICK folder, file, todo :
        file = Head(top.todo) /\ folder = Append(top.folder, file) /\ todo = Tail(top.todo)
  OBVIOUS
<1>2. Process("sources") /\ top.todo # <<>>
  BY DEF StartSubSimulation
<1>3. /\ pc = "up" /\ CallOK(top, writers) /\ top.phase = "sources" /\ ~top.open
      /\ top.start_iteration = 0 /\ todo \in Seq(Files) /\ top \in Calls
      /\ \A k \in DOMAIN todo : todo[k] \in Range(Subs[top.file])
      /\ file \in Files /\ IsPath(folder) /\ FileOf(folder) = file /\ Len(folder) > 1
  BY <1>1, <1>2, NextSub
<1>4. PICK waiting : waiting = [top EXCEPT !.todo = todo]
  OBVIOUS
<1>5. /\ CallOK(waiting, writers) /\ waiting.phase = "sources" /\ waiting.folder = top.folder
      /\ waiting.start_iteration = 0
  BY <1>3, <1>4, NextTodo
<1>6. /\ stack # <<>> /\ StackOK(stack, writers) /\ stack \in Seq(Calls)
      /\ Len(stack) \in Nat \ {0}
  BY <1>3, TopFacts
<1>7. PICK st : st = Replaced(stack, waiting)
  OBVIOUS
<1>8. StackOK(st, writers) /\ st # <<>> /\ st[1] = waiting
  <2>1. PICK old, W : old = stack /\ W = writers
    OBVIOUS
  <2>2. StackOK(old, W) /\ old # <<>> /\ CallOK(waiting, W) /\ st = Replaced(old, waiting)
    BY <1>5, <1>6, <1>7, <2>1
  <2>3. /\ waiting.folder = old[1].folder /\ waiting.phase # "result"
        /\ waiting.start_iteration = old[1].start_iteration
    BY <1>3, <1>5, <2>1 DEF top
  <2>4. StackOK(st, W) /\ st # <<>> /\ st[1] = waiting
    BY ONLY <2>2, <2>3, ReplaceTop
  <2>. QED
    BY <2>1, <2>4
<1>9. PICK call : call = NewCall(file, folder)
  OBVIOUS
<1>10. /\ CallOK(call, writers) /\ call.folder = folder /\ call.start_iteration = 0
       /\ call.phase = "parsed" /\ ~call.open
  BY <1>3, <1>9, NewCallOK
<1>11. stack' = <<call>> \o st
  <2>1. [stack EXCEPT ![1].todo = Tail(@)] = [stack EXCEPT ![1] = [stack[1] EXCEPT !.todo = Tail(stack[1].todo)]]
    BY <1>3, <1>6 DEF top, Calls
  <2>. QED
    BY <1>1, <1>4, <1>7, <1>9, <2>1 DEF StartSubSimulation, Replaced, top
<1>12. StackOK(stack', writers) /\ stack' # <<>> /\ stack'[1] = call
  <2>1. PICK W : W = writers
    OBVIOUS
  <2>2. /\ StackOK(<<call>> \o st, W) /\ <<call>> \o st # <<>> /\ (<<call>> \o st)[1] = call
    BY <1>3, <1>5, <1>8, <1>10, <2>1, Pushed
  <2>. QED
    BY <1>11, <2>1, <2>2
<1>13. UNCHANGED <<content, disk, writers, fresh, pc, completed>>
  BY DEF StartSubSimulation
<1>14. Types' /\ ResultsSaved'
  BY <1>3, <1>12, <1>13 DEF IInv, Types, ResultsSaved
<1>15. FolderIsFree'
  BY <1>10, <1>12 DEF FolderIsFree, Overwriting, top
<1>. QED
  BY <1>12, <1>13, <1>14, <1>15 DEF IInv

LEMMA StartInv ==
  ASSUME IInv, Start
  PROVE  IInv'
<1>1. PICK folder : folder = <<Main>>
  OBVIOUS
<1>2. Main \in Files
  BY SubSimulationsAssumption
<1>3. folder \in Seq(Files) /\ Len(folder) = 1 /\ folder[1] = Main /\ folder # <<>>
  BY <1>1, <1>2
<1>4. IsPath(folder) /\ FileOf(folder) = Main
  BY <1>3 DEF IsPath, FileOf
<1>5. PICK call : call = NewCall(Main, folder)
  OBVIOUS
<1>6. /\ CallOK(call, writers) /\ call.folder = folder /\ call.start_iteration = 0
      /\ call.phase = "parsed" /\ ~call.open
  BY <1>2, <1>4, <1>5, NewCallOK
<1>7. stack' = <<call>> /\ UNCHANGED <<content, disk, writers, completed>>
  BY <1>1, <1>5 DEF Start
<1>8. PICK st : st = <<call>>
  OBVIOUS
<1>9. call \in Calls
  BY <1>6 DEF CallOK
<1>10. /\ st \in Seq(Calls) /\ DOMAIN st = {1} /\ Len(st) = 1 /\ st[1] = call /\ st # <<>>
  BY <1>8, <1>9
<1>11. StackOK(st, writers)
  BY <1>1, <1>6, <1>10 DEF StackOK
<1>12. Types' /\ ResultsSaved'
  BY <1>7, <1>8, <1>10 DEF Start, IInv, Types, ResultsSaved
<1>13. FolderIsFree'
  BY <1>6, <1>7, <1>8, <1>10 DEF FolderIsFree, Overwriting, top
<1>. QED
  BY <1>7, <1>8, <1>11, <1>12, <1>13 DEF IInv

\* A simulation that does not run can end in any way.
LEMMA ThrowInv ==
  ASSUME IInv, CheckpointThrows \/ Crash
  PROVE  IInv'
<1>1. stack' = <<>> /\ pc' \in {"down", "failed"}
  BY DEF CheckpointThrows, Crash, Fail
<1>2. UNCHANGED <<content, disk, writers, fresh, completed>>
  BY DEF CheckpointThrows, Crash
<1>3. DiskOK(disk', writers) /\ ResultsSaved'
  BY <1>2 DEF IInv, ResultsSaved
<1>. QED
  BY <1>1, <1>2, <1>3, NoCalls

-----------------------------------------------------------------------------
(***************************************************************************)
(* The steps of the innermost simulation                                   *)
(***************************************************************************)

LEMMA StartSimulationInv ==
  ASSUME IInv, StartSimulation
  PROVE  IInv'
<1>1. PICK call : call =
        [top EXCEPT !.iteration = top.start_iteration,
                    !.phase = IF top.file \in writers THEN "starting" ELSE "loop"]
  OBVIOUS
<1>2. pc = "up" /\ top.phase = "sources" /\ ~top.open /\ Top(call)
  BY <1>1 DEF StartSimulation, Process
<1>3. top \in Calls /\ CallOK(top, writers)
  BY <1>2, TopFacts
<1>4. /\ call \in Calls /\ call.open = top.open
      /\ call.phase = (IF top.file \in writers THEN "starting" ELSE "loop")
      /\ call.folder = top.folder /\ call.file = top.file /\ call.todo = top.todo
      /\ call.start_iteration = top.start_iteration
      /\ call.iteration = top.start_iteration /\ call.particles = top.particles
  BY <1>1, <1>3 DEF Calls, CallPhases
<1>5. CallOK(call, writers)
  BY <1>2, <1>3, <1>4 DEF CallOK
<1>6. ~Overwriting(call) /\ call.phase # "result"
  BY <1>2, <1>4 DEF Overwriting
<1>. QED
  BY <1>2, <1>4, <1>5, <1>6, TopOnly DEF StartSimulation

LEMMA SkipInv ==
  ASSUME IInv, SkipFirstFile
  PROVE  IInv'
<1>1. PICK call : call = [top EXCEPT !.phase = "loop"]
  OBVIOUS
<1>2. /\ pc = "up" /\ top.phase = "starting" /\ ~top.open /\ Top(call)
      /\ top.start_iteration > 0
  BY <1>1 DEF SkipFirstFile, Process
<1>3. /\ top \in Calls /\ CallOK(top, writers)
      /\ IsSub => top.start_iteration = 0
      /\ ~IsSub => top.folder = <<Main>>
  BY <1>2, TopFacts
<1>4. /\ call \in Calls /\ call.open = top.open /\ call.phase = "loop"
      /\ call.folder = top.folder /\ call.file = top.file /\ call.todo = top.todo
      /\ call.start_iteration = top.start_iteration
      /\ call.iteration = top.iteration /\ call.particles = top.particles
  BY <1>1, <1>3 DEF Calls, CallPhases
<1>5. CallOK(call, writers)
  BY <1>2, <1>3, <1>4 DEF CallOK
<1>6. top.folder \notin DOMAIN completed
  <2>1. Len(top.folder) = 1
    <3>1. ~IsSub
      BY <1>2, <1>3
    <3>. QED
      BY <1>3, <3>1
  <2>2. ~(Len(top.folder) > 1)
    BY <2>1
  <2>. QED
    BY <2>2 DEF IInv, ResultsSaved
<1>. QED
  BY <1>2, <1>4, <1>5, <1>6, TopOnly DEF SkipFirstFile

LEMMA StepInv ==
  ASSUME IInv, Step
  PROVE  IInv'
<1>1. PICK particles, phase :
        /\ particles = [k \in DOMAIN top.particles |-> Moved(top.particles[k])]
        /\ phase = (IF top.file \in writers THEN "notifying" ELSE "loop")
  OBVIOUS
<1>2. PICK call : call =
        [top EXCEPT !.iteration = top.iteration + 1, !.particles = particles, !.phase = phase]
  OBVIOUS
<1>3. /\ pc = "up" /\ top.phase = "loop" /\ ~top.open /\ top.iteration < EndIteration
  BY DEF Step, Process
<1>4. top \in Calls /\ CallOK(top, writers) /\ top.iteration \in Nat
      /\ (Overwriting(top) => top.folder \notin DOMAIN completed)
  BY <1>3, TopFacts DEF Calls
<1>5. Top(call)
  BY <1>1, <1>2, <1>4 DEF Step, Calls
<1>6. AllEnd(particles, top.file, top.iteration + 1, writers)
  <2>1. PICK groups, n : groups = top.particles /\ n = top.iteration
    OBVIOUS
  <2>2. AllEnd(groups, top.file, n, writers) /\ n \in Nat
    BY <1>3, <1>4, <2>1 DEF CallOK
  <2>3. AllEnd([k \in DOMAIN groups |-> Moved(groups[k])], top.file, n + 1, writers)
    BY <2>2, MovedEnd
  <2>. QED
    BY <1>1, <2>1, <2>3
<1>7. particles \in Seq(Groups)
  BY <1>6 DEF AllEnd
<1>8. top.iteration + 1 \in Nat /\ top.iteration + 1 <= EndIteration
  BY <1>3, <1>4, EndIterationNat
<1>9. phase \in CallPhases
  BY <1>1 DEF CallPhases
<1>10. /\ call \in Calls /\ call.open = top.open /\ call.phase = phase
       /\ call.folder = top.folder /\ call.file = top.file /\ call.todo = top.todo
       /\ call.start_iteration = top.start_iteration
       /\ call.iteration = top.iteration + 1 /\ call.particles = particles
  BY <1>2, <1>4, <1>7, <1>8, <1>9 DEF Calls
<1>11. CallOK(call, writers)
  BY <1>1, <1>3, <1>4, <1>6, <1>8, <1>10 DEF CallOK
<1>12. Overwriting(call) => top.folder \notin DOMAIN completed
  BY <1>1, <1>3, <1>4, <1>10 DEF Overwriting
<1>13. call.phase # "result"
  BY <1>1, <1>10
<1>. QED
  BY <1>3, <1>5, <1>10, <1>11, <1>12, <1>13, TopOnly DEF Step

\* What With does to the folders.
LEMMA WithFolders ==
  ASSUME NEW folder, NEW checkpoints, disk' = With(folder, checkpoints)
  PROVE  /\ DOMAIN disk' = DOMAIN disk \cup {folder} /\ disk'[folder] = checkpoints
         /\ \A g \in DOMAIN disk : g # folder => disk'[g] = disk[g]
  BY DEF With

LEMMA RemoveInv ==
  ASSUME IInv, RemoveFile
  PROVE  IInv'
<1>1. pc = "up" /\ ~top.open
  BY DEF RemoveFile, Process
<1>2. PICK i \in Stale :
        disk' = With(top.folder, Restrict(In(top.folder), DOMAIN In(top.folder) \ {i}))
  BY DEF RemoveFile, OutputFolder
<1>3. PICK folder, old, new :
        /\ folder = top.folder /\ old = In(folder)
        /\ new = Restrict(old, DOMAIN old \ {i})
  OBVIOUS
<1>4. folder \in DOMAIN disk /\ old = disk[folder]
  BY <1>2, <1>3 DEF Stale, In, OutputFolder
<1>5. DOMAIN new \subseteq DOMAIN old /\ \A j \in DOMAIN new : new[j] = old[j]
  BY <1>3 DEF Restrict
<1>6. /\ DOMAIN disk' = DOMAIN disk /\ disk'[folder] = new
      /\ \A g \in DOMAIN disk : g # folder => disk'[g] = disk[g]
  <2>1. disk' = With(folder, new)
    BY <1>2, <1>3
  <2>. QED
    BY <1>4, <2>1, WithFolders
<1>7. DiskOK(disk', writers)
  <2>1. ASSUME NEW g \in DOMAIN disk'
        PROVE  IsPath(g) /\ \A j \in DOMAIN disk'[g] : Stored(disk'[g][j], g, j, writers)
    <3>1. g \in DOMAIN disk /\ IsPath(g)
          /\ \A j \in DOMAIN disk[g] : Stored(disk[g][j], g, j, writers)
      BY <1>6 DEF IInv, DiskOK
    <3>2. CASE g = folder
      BY <1>4, <1>5, <1>6, <3>1, <3>2
    <3>3. CASE g # folder
      BY <1>6, <3>1, <3>3
    <3>. QED
      BY <3>2, <3>3
  <2>. QED
    BY <2>1 DEF DiskOK
<1>8. /\ DOMAIN completed' = DOMAIN completed \ {folder}
      /\ \A g \in DOMAIN completed' : completed'[g] = completed[g]
  BY <1>3 DEF RemoveFile, Restrict
<1>9. ResultsSaved'
  <2>1. ASSUME NEW g \in DOMAIN completed'
        PROVE  /\ Len(g) > 1 /\ g \in DOMAIN disk'
               /\ \E j \in DOMAIN disk'[g] :
                    j > 0 /\ disk'[g][j].complete /\ disk'[g][j].hash = completed'[g]
    <3>1. g \in DOMAIN completed /\ g # folder /\ completed'[g] = completed[g]
      BY <1>8
    <3>2. /\ Len(g) > 1 /\ g \in DOMAIN disk
          /\ \E j \in DOMAIN disk[g] :
               j > 0 /\ disk[g][j].complete /\ disk[g][j].hash = completed[g]
      BY <3>1 DEF IInv, ResultsSaved
    <3>3. disk'[g] = disk[g] /\ g \in DOMAIN disk'
      BY <1>6, <3>1, <3>2
    <3>. QED
      BY <3>1, <3>2, <3>3
  <2>. QED
    BY <2>1 DEF ResultsSaved
<1>10. UNCHANGED <<content, writers, stack, fresh, pc>>
  BY DEF RemoveFile
<1>11. Types' /\ StackOK(stack', writers)
  BY <1>10 DEF IInv, Types
<1>12. FolderIsFree'
  BY <1>8, <1>10 DEF IInv, FolderIsFree, Overwriting, top
<1>. QED
  BY <1>7, <1>9, <1>10, <1>11, <1>12 DEF IInv

LEMMA EditInv ==
  ASSUME IInv, EditFile
  PROVE  IInv'
<1>1. content' \in [Files -> Versions]
  BY DEF IInv, Types, EditFile
<1>2. UNCHANGED <<disk, writers, stack, fresh, pc, completed>>
  BY DEF EditFile
<1>3. Types' /\ ResultsSaved' /\ FolderIsFree'
  BY <1>1, <1>2 DEF IInv, Types, ResultsSaved, FolderIsFree, Overwriting, top
<1>. QED
  BY <1>2, <1>3 DEF IInv

-----------------------------------------------------------------------------
(***************************************************************************)
(* The steps that write checkpoints                                        *)
(***************************************************************************)

\* The checkpoint that is written belongs where it is stored, and nothing else
\* changes.
LEMMA WriteFolders ==
  ASSUME IInv, pc = "up", NEW complete \in BOOLEAN, disk' = Write(complete),
         top.phase \in {"starting", "notifying", "ending", "result"}
  PROVE  /\ DiskOK(disk', writers)
         /\ top.folder \in DOMAIN disk' /\ top.iteration \in DOMAIN disk'[top.folder]
         /\ disk'[top.folder][top.iteration] = Checkpoint(complete)
         /\ \A g \in DOMAIN disk : g # top.folder => g \in DOMAIN disk' /\ disk'[g] = disk[g]
<1>1. top \in Calls /\ CallOK(top, writers)
  BY TopFacts
<1>2. /\ top.iteration \in Nat /\ top.iteration <= EndIteration
      /\ top.file = FileOf(top.folder) /\ IsPath(top.folder)
      /\ top.file \notin writers => top.iteration = EndIteration
      /\ AllEnd(top.particles, top.file, top.iteration, writers)
  BY <1>1 DEF CallOK, Calls
<1>3. PICK c : c = Checkpoint(complete)
  OBVIOUS
<1>4. /\ c \in StoredCheckpoints /\ c.file = top.file /\ c.iteration = top.iteration
      /\ c.particles = top.particles
  BY <1>1, <1>3 DEF Checkpoint, StoredCheckpoints, Calls
<1>5. top.iteration \in 0 .. EndIteration
  BY <1>2, EndIterationNat
<1>6. Stored(c, top.folder, top.iteration, writers)
  BY <1>2, <1>4, <1>5 DEF Stored
<1>7. PICK folder, old, n, new :
        /\ folder = top.folder /\ old = In(folder) /\ n = top.iteration
        /\ new = [i \in DOMAIN old \cup {n} |-> IF i = n THEN c ELSE old[i]]
  OBVIOUS
<1>8. disk' = With(folder, new)
  BY <1>3, <1>7 DEF Write, OutputFolder
<1>9. /\ DOMAIN disk' = DOMAIN disk \cup {folder} /\ disk'[folder] = new
      /\ \A g \in DOMAIN disk : g # folder => disk'[g] = disk[g]
  BY <1>8, WithFolders
<1>10. /\ DOMAIN new = DOMAIN old \cup {n} /\ new[n] = c
       /\ \A i \in DOMAIN old : i # n => new[i] = old[i]
  BY <1>7
<1>11. DiskOK(disk', writers)
  <2>1. ASSUME NEW g \in DOMAIN disk'
        PROVE  IsPath(g) /\ \A j \in DOMAIN disk'[g] : Stored(disk'[g][j], g, j, writers)
    <3>1. CASE g = folder
      <4>1. ASSUME NEW j \in DOMAIN new PROVE Stored(new[j], folder, j, writers)
        <5>1. CASE j = n
          BY <1>6, <1>7, <1>10, <5>1
        <5>2. CASE j # n
          <6>1. j \in DOMAIN old /\ new[j] = old[j]
            BY <1>10, <5>2
          <6>2. folder \in DOMAIN disk /\ old = disk[folder]
            BY <1>7, <6>1 DEF In
          <6>. QED
            BY <6>1, <6>2 DEF IInv, DiskOK
        <5>. QED
          BY <5>1, <5>2
      <4>. QED
        BY <1>2, <1>7, <1>9, <3>1, <4>1
    <3>2. CASE g # folder
      <4>1. g \in DOMAIN disk /\ disk'[g] = disk[g]
        BY <1>9, <3>2
      <4>. QED
        BY <4>1 DEF IInv, DiskOK
    <3>. QED
      BY <3>1, <3>2
  <2>. QED
    BY <2>1 DEF DiskOK
<1>. QED
  BY <1>3, <1>7, <1>9, <1>10, <1>11

\* What is saved in other folders stays.
LEMMA SavedStay ==
  ASSUME IInv, pc = "up", NEW complete \in BOOLEAN, disk' = Write(complete),
         top.phase \in {"starting", "notifying", "ending", "result"},
         top.folder \notin DOMAIN completed, UNCHANGED completed
  PROVE  ResultsSaved'
<1>1. \A g \in DOMAIN disk : g # top.folder => g \in DOMAIN disk' /\ disk'[g] = disk[g]
  BY WriteFolders
<1>2. ASSUME NEW g \in DOMAIN completed'
      PROVE  /\ Len(g) > 1 /\ g \in DOMAIN disk'
             /\ \E j \in DOMAIN disk'[g] :
                  j > 0 /\ disk'[g][j].complete /\ disk'[g][j].hash = completed'[g]
  <2>1. g \in DOMAIN completed /\ g # top.folder
    BY <1>2
  <2>2. /\ Len(g) > 1 /\ g \in DOMAIN disk
        /\ \E j \in DOMAIN disk[g] :
             j > 0 /\ disk[g][j].complete /\ disk[g][j].hash = completed[g]
    BY <2>1 DEF IInv, ResultsSaved
  <2>3. g \in DOMAIN disk' /\ disk'[g] = disk[g]
    BY <1>1, <2>1, <2>2
  <2>. QED
    BY <2>2, <2>3
<1>. QED
  BY <1>2 DEF ResultsSaved

\* A file is only opened in a folder without a saved result: a FileOutputHandler
\* has emptied it, or has been there before.
LEMMA OpensFree ==
  ASSUME IInv, Writes
  PROVE  /\ pc = "up" /\ ~top.open
         /\ top.phase \in {"starting", "notifying", "ending", "result"}
         /\ top.folder \notin DOMAIN completed
<1>1. /\ pc = "up" /\ ~top.open
      /\ top.phase \in {"starting", "notifying", "ending", "result"}
  <2>1. \/ Process("starting") \/ Process("result")
        \/ Process("notifying") \/ Process("ending")
    BY DEF Writes
  <2>. QED
    BY <2>1 DEF Process
<1>2. /\ CallOK(top, writers)
      /\ IsSub => top.start_iteration = 0
      /\ ~IsSub => top.folder = <<Main>> /\ top.phase # "result"
      /\ Overwriting(top) => top.folder \notin DOMAIN completed
  BY <1>1, TopFacts
<1>3. CASE top.phase \in {"notifying", "ending"}
  BY <1>1, <1>2, <1>3 DEF Overwriting
<1>4. CASE top.phase \in {"starting", "result"}
  <2>1. Stale = {}
    BY <1>4 DEF Writes, Process
  <2>2. top.start_iteration = 0
    BY <1>2, <1>4 DEF Writes, Process
  <2>3. DOMAIN In(top.folder) = {}
    BY <2>1, <2>2 DEF Stale, OutputFolder
  <2>4. ASSUME top.folder \in DOMAIN completed PROVE FALSE
    <3>1. top.folder \in DOMAIN disk /\ \E i \in DOMAIN disk[top.folder] : i > 0
      BY <2>4 DEF IInv, ResultsSaved
    <3>2. In(top.folder) = disk[top.folder]
      BY <3>1 DEF In
    <3>. QED
      BY <2>3, <3>1, <3>2
  <2>. QED
    BY <1>1, <2>4
<1>. QED
  BY <1>1, <1>3, <1>4

LEMMA OpenInv ==
  ASSUME IInv, OpenFile
  PROVE  IInv'
<1>1. PICK call : call = [top EXCEPT !.open = TRUE]
  OBVIOUS
<1>2. /\ pc = "up" /\ ~top.open
      /\ top.phase \in {"starting", "notifying", "ending", "result"}
      /\ top.folder \notin DOMAIN completed
  BY OpensFree DEF OpenFile
<1>3. /\ top \in Calls /\ CallOK(top, writers)
      /\ ~IsSub => top.phase # "result"
  BY <1>2, TopFacts
<1>4. Top(call) /\ disk' = Write(FALSE)
  BY <1>1 DEF OpenFile
<1>5. /\ call \in Calls /\ call.open /\ call.phase = top.phase
      /\ call.folder = top.folder /\ call.file = top.file /\ call.todo = top.todo
      /\ call.start_iteration = top.start_iteration
      /\ call.iteration = top.iteration /\ call.particles = top.particles
  BY <1>1, <1>3 DEF Calls
<1>6. CallOK(call, writers)
  BY <1>2, <1>3, <1>5 DEF CallOK
<1>7. UNCHANGED <<content, writers, fresh, pc, completed>>
  BY DEF OpenFile
<1>8. DiskOK(disk', writers)
  BY <1>2, <1>4, WriteFolders
<1>9. ResultsSaved'
  BY <1>2, <1>4, <1>7, SavedStay
<1>. QED
  BY <1>2, <1>3, <1>4, <1>5, <1>6, <1>7, <1>8, <1>9, TopStep

LEMMA CloseInv ==
  ASSUME IInv, CloseFile
  PROVE  IInv'
<1>1. PICK call : call = [top EXCEPT !.open = FALSE, !.phase = "loop"]
  OBVIOUS
<1>2. /\ pc = "up" /\ top.open /\ top.phase \in {"starting", "notifying"}
      /\ Top(call) /\ disk' = Write(TRUE)
  BY <1>1 DEF CloseFile
<1>3. /\ top \in Calls /\ CallOK(top, writers)
      /\ Overwriting(top) => top.folder \notin DOMAIN completed
  BY <1>2, TopFacts
<1>4. top.folder \notin DOMAIN completed
  BY <1>2, <1>3 DEF Overwriting
<1>5. /\ call \in Calls /\ ~call.open /\ call.phase = "loop"
      /\ call.folder = top.folder /\ call.file = top.file /\ call.todo = top.todo
      /\ call.start_iteration = top.start_iteration
      /\ call.iteration = top.iteration /\ call.particles = top.particles
  BY <1>1, <1>3 DEF Calls, CallPhases
<1>6. CallOK(call, writers)
  BY <1>2, <1>3, <1>5 DEF CallOK
<1>7. UNCHANGED <<content, writers, fresh, pc, completed>>
  BY DEF CloseFile
<1>8. DiskOK(disk', writers)
  BY <1>2, WriteFolders
<1>9. ResultsSaved'
  BY <1>2, <1>4, <1>7, SavedStay
<1>. QED
  BY <1>2, <1>4, <1>5, <1>6, <1>7, <1>8, <1>9, TopStep

LEMMA ReturnInv ==
  ASSUME IInv, pc = "up", Return, top.phase \in {"loop", "ending"},
         top.iteration = EndIteration, UNCHANGED <<content, writers, fresh>>,
         DiskOK(disk', writers), ResultsSaved'
  PROVE  IInv'
<1>1. CASE ~IsSub
  <2>1. pc' = "finished" /\ stack' = <<>>
    BY <1>1 DEF Return
  <2>. QED
    BY <2>1, NoCalls
<1>2. CASE IsSub
  <2>1. PICK call : call = [top EXCEPT !.open = FALSE, !.phase = "result"]
    OBVIOUS
  <2>2. Top(call) /\ pc' = pc
    BY <1>2, <2>1 DEF Return
  <2>3. top \in Calls /\ CallOK(top, writers)
    BY TopFacts
  <2>4. /\ call \in Calls /\ ~call.open /\ call.phase = "result"
        /\ call.folder = top.folder /\ call.file = top.file /\ call.todo = top.todo
        /\ call.start_iteration = top.start_iteration
        /\ call.iteration = top.iteration /\ call.particles = top.particles
    BY <2>1, <2>3 DEF Calls, CallPhases
  <2>5. CallOK(call, writers)
    BY <2>3, <2>4 DEF CallOK
  <2>6. ~Overwriting(call)
    BY <2>4 DEF Overwriting
  <2>. QED
    BY <1>2, <2>2, <2>4, <2>5, <2>6, TopStep
<1>. QED
  BY <1>1, <1>2

LEMMA LeaveInv ==
  ASSUME IInv, LeaveLoop
  PROVE  IInv'
<1>1. /\ pc = "up" /\ top.phase = "loop" /\ ~top.open /\ top.iteration = EndIteration
      /\ UNCHANGED <<content, disk, writers, fresh, completed>>
  BY DEF LeaveLoop, Process
<1>2. /\ top \in Calls /\ CallOK(top, writers)
      /\ Overwriting(top) => top.folder \notin DOMAIN completed
  BY <1>1, TopFacts
<1>3. ASSUME top.file \in writers, Top([top EXCEPT !.phase = "ending"]), UNCHANGED pc
      PROVE  IInv'
  <2>1. PICK call : call = [top EXCEPT !.phase = "ending"]
    OBVIOUS
  <2>2. /\ call \in Calls /\ ~call.open /\ call.phase = "ending"
        /\ call.folder = top.folder /\ call.file = top.file /\ call.todo = top.todo
        /\ call.start_iteration = top.start_iteration
        /\ call.iteration = top.iteration /\ call.particles = top.particles
    BY <1>1, <1>2, <2>1 DEF Calls, CallPhases
  <2>3. CallOK(call, writers)
    BY <1>1, <1>2, <1>3, <2>2 DEF CallOK
  <2>4. top.folder \notin DOMAIN completed
    BY <1>1, <1>2, <1>3 DEF Overwriting
  <2>5. Top(call)
    BY <1>3, <2>1
  <2>. QED
    BY <1>1, <1>3, <2>2, <2>3, <2>4, <2>5, TopOnly
<1>4. ASSUME Return PROVE IInv'
  <2>1. DiskOK(disk', writers) /\ ResultsSaved'
    BY <1>1 DEF IInv, ResultsSaved
  <2>. QED
    BY <1>1, <1>4, <2>1, ReturnInv
<1>. QED
  BY <1>3, <1>4 DEF LeaveLoop

LEMMA CloseLastInv ==
  ASSUME IInv, CloseLastFile
  PROVE  IInv'
<1>1. /\ pc = "up" /\ top.open /\ top.phase = "ending" /\ disk' = Write(TRUE) /\ Return
      /\ UNCHANGED <<content, writers, fresh, completed>>
  BY DEF CloseLastFile
<1>2. /\ CallOK(top, writers)
      /\ Overwriting(top) => top.folder \notin DOMAIN completed
  BY <1>1, TopFacts
<1>3. top.folder \notin DOMAIN completed /\ top.iteration = EndIteration
  BY <1>1, <1>2 DEF Overwriting, CallOK
<1>4. DiskOK(disk', writers)
  BY <1>1, WriteFolders
<1>5. ResultsSaved'
  BY <1>1, <1>3, SavedStay
<1>. QED
  BY <1>1, <1>3, <1>4, <1>5, ReturnInv

\* The caller of the innermost call is the innermost one again.
LEMMA Popped ==
  ASSUME NEW W, NEW st, StackOK(st, W), Len(st) > 1,
         NEW call, CallOK(call, W), call.phase = "sources",
         call.folder = st[2].folder, call.start_iteration = 0
  PROVE  /\ StackOK(<<call>> \o SubSeq(st, 3, Len(st)), W)
         /\ <<call>> \o SubSeq(st, 3, Len(st)) # <<>>
         /\ (<<call>> \o SubSeq(st, 3, Len(st)))[1] = call
<1>1. st \in Seq(Calls) /\ call \in Calls
  BY DEF StackOK, CallOK
<1>2. PICK m : m = Len(st)
  OBVIOUS
<1>3. m \in Nat /\ m > 1 /\ DOMAIN st = 1 .. m
  BY <1>1, <1>2
<1>4. PICK rest : rest = SubSeq(st, 3, m)
  OBVIOUS
<1>5. /\ rest \in Seq(Calls) /\ Len(rest) = m - 2
      /\ \A n \in 1 .. m - 2 : rest[n] = st[n + 2]
  <2>1. CASE m = 2
    <3>1. rest = <<>>
      BY <1>1, <1>4, <2>1
    <3>. QED
      BY <2>1, <3>1
  <2>2. CASE m > 2
    <3>1. rest \in Seq(Calls) /\ Len(rest) = m - 2
      BY <1>1, <1>2, <1>3, <1>4, <2>2
    <3>2. ASSUME NEW n \in 1 .. m - 2 PROVE rest[n] = st[n + 2]
      BY <1>1, <1>2, <1>3, <1>4, <2>2
    <3>. QED
      BY <3>1, <3>2
  <2>. QED
    BY <1>3, <2>1, <2>2
<1>6. PICK new : new = <<call>> \o rest
  OBVIOUS
<1>7. /\ new \in Seq(Calls) /\ Len(new) = m - 1 /\ DOMAIN new = 1 .. m - 1 /\ new[1] = call
      /\ \A n \in 2 .. m - 1 : new[n] = st[n + 1]
  <2>1. new \in Seq(Calls) /\ Len(new) = 1 + (m - 2) /\ new[1] = call
    BY <1>1, <1>3, <1>5, <1>6
  <2>2. ASSUME NEW n \in 2 .. m - 1 PROVE new[n] = st[n + 1]
    <3>1. new[n] = rest[n - 1]
      BY <1>1, <1>3, <1>5, <1>6
    <3>2. n - 1 \in 1 .. m - 2 /\ (n - 1) + 2 = n + 1
      BY <1>3
    <3>. QED
      BY <1>5, <3>1, <3>2
  <2>. QED
    BY <1>3, <2>1, <2>2
<1>8. ASSUME NEW n \in DOMAIN new
      PROVE  /\ CallOK(new[n], W)
             /\ n > 1 => new[n].phase = "sources" /\ new[n].start_iteration = 0
             /\ n = Len(new) => new[n].folder = <<Main>> /\ new[n].phase # "result"
             /\ n < Len(new) => Len(new[n].folder) > 1 /\ new[n].start_iteration = 0
  <2>1. PICK l : l = n + 1
    OBVIOUS
  <2>2. /\ l \in DOMAIN st /\ l > 1 /\ (n = Len(new) <=> l = m) /\ (n < Len(new) <=> l < m)
    BY <1>3, <1>7, <2>1
  <2>3. /\ CallOK(st[l], W)
        /\ st[l].phase = "sources" /\ st[l].start_iteration = 0
        /\ l = m => st[l].folder = <<Main>> /\ st[l].phase # "result"
        /\ l < m => Len(st[l].folder) > 1 /\ st[l].start_iteration = 0
    BY <1>2, <2>2 DEF StackOK
  <2>4. CASE n = 1
    <3>1. new[n] = call /\ l = 2 /\ ~(n > 1)
      BY <1>7, <2>1, <2>4
    <3>. QED
      BY <2>2, <2>3, <3>1
  <2>5. CASE n # 1
    <3>1. new[n] = st[l]
      BY <1>3, <1>7, <2>1, <2>5
    <3>. QED
      BY <2>2, <2>3, <3>1
  <2>. QED
    BY <2>4, <2>5
<1>9. StackOK(new, W)
  BY <1>7, <1>8 DEF StackOK
<1>10. new # <<>>
  BY <1>3, <1>7
<1>. QED
  BY <1>2, <1>4, <1>6, <1>7, <1>9, <1>10

LEMMA LoadInv ==
  ASSUME IInv, LoadResult
  PROVE  IInv'
<1>1. /\ pc = "up" /\ top.open /\ top.phase = "result" /\ disk' = Write(TRUE)
      /\ UNCHANGED <<content, writers, fresh, pc>>
  BY DEF LoadResult
<1>2. /\ top \in Calls /\ CallOK(top, writers)
      /\ stack # <<>> /\ StackOK(stack, writers) /\ Len(stack) \in Nat \ {0}
      /\ IsSub => Len(top.folder) > 1
      /\ ~IsSub => top.phase # "result"
      /\ Overwriting(top) => top.folder \notin DOMAIN completed
  BY <1>1, TopFacts
<1>3. IsSub /\ Len(top.folder) > 1
  BY <1>1, <1>2
<1>4. /\ top.folder \notin DOMAIN completed /\ top.iteration = EndIteration
      /\ AllEnd(top.particles, top.file, top.iteration, writers)
  BY <1>1, <1>2 DEF Overwriting, CallOK
<1>5. PICK caller : caller = stack[2]
  OBVIOUS
<1>6. /\ CallOK(caller, writers) /\ caller.phase = "sources" /\ caller.start_iteration = 0
  <2>1. 2 \in DOMAIN stack
    BY <1>2, <1>3 DEF StackOK, IsSub
  <2>. QED
    BY <1>2, <1>5, <2>1 DEF StackOK
<1>7. PICK c : c = Checkpoint(TRUE)
  OBVIOUS
<1>8. PICK call : call = Load(caller, c)
  OBVIOUS
<1>9. /\ CallOK(call, writers) /\ call.phase = "sources" /\ call.folder = caller.folder
      /\ call.start_iteration = 0
  <2>1. PICK more, from, n : more = top.particles /\ from = top.file /\ n = top.iteration
    OBVIOUS
  <2>2. AllEnd(more, from, n, writers) /\ (from \notin writers => n = EndIteration)
    BY <1>4, <2>1
  <2>3. c.particles = more
    BY <1>7, <2>1 DEF Checkpoint
  <2>. QED
    BY <1>6, <1>8, <2>2, <2>3, Loaded
<1>10. StackOK(stack', writers) /\ stack' # <<>> /\ stack'[1] = call
  <2>1. PICK W, st : W = writers /\ st = stack
    OBVIOUS
  <2>2. /\ StackOK(st, W) /\ Len(st) > 1 /\ CallOK(call, W) /\ call.folder = st[2].folder
    BY <1>2, <1>3, <1>5, <1>9, <2>1 DEF IsSub
  <2>3. /\ StackOK(<<call>> \o SubSeq(st, 3, Len(st)), W)
        /\ <<call>> \o SubSeq(st, 3, Len(st)) # <<>>
        /\ (<<call>> \o SubSeq(st, 3, Len(st)))[1] = call
    BY <1>9, <2>2, Popped
  <2>4. stack' = <<call>> \o SubSeq(st, 3, Len(st))
    BY <1>5, <1>7, <1>8, <2>1 DEF LoadResult
  <2>. QED
    BY <2>1, <2>3, <2>4
<1>11. /\ DiskOK(disk', writers)
       /\ top.folder \in DOMAIN disk' /\ top.iteration \in DOMAIN disk'[top.folder]
       /\ disk'[top.folder][top.iteration] = c
       /\ \A g \in DOMAIN disk : g # top.folder => g \in DOMAIN disk' /\ disk'[g] = disk[g]
  BY <1>1, <1>7, WriteFolders
<1>12. c.complete /\ c.hash = top.hash
  BY <1>7 DEF Checkpoint
<1>13. /\ DOMAIN completed' = DOMAIN completed \cup {top.folder}
       /\ completed'[top.folder] = top.hash
       /\ \A g \in DOMAIN completed : g # top.folder => completed'[g] = completed[g]
  BY DEF LoadResult
<1>14. ASSUME NEW g \in DOMAIN completed'
       PROVE  /\ Len(g) > 1 /\ g \in DOMAIN disk'
              /\ \E j \in DOMAIN disk'[g] :
                   j > 0 /\ disk'[g][j].complete /\ disk'[g][j].hash = completed'[g]
  <2>1. CASE g = top.folder
    <3>1. top.iteration > 0
      BY <1>4, EndIterationNat
    <3>. QED
      BY <1>3, <1>11, <1>12, <1>13, <2>1, <3>1
  <2>2. CASE g # top.folder
    <3>1. g \in DOMAIN completed /\ completed'[g] = completed[g]
      BY <1>13, <2>2
    <3>2. /\ Len(g) > 1 /\ g \in DOMAIN disk
          /\ \E j \in DOMAIN disk[g] :
               j > 0 /\ disk[g][j].complete /\ disk[g][j].hash = completed[g]
      BY <3>1 DEF IInv, ResultsSaved
    <3>3. g \in DOMAIN disk' /\ disk'[g] = disk[g]
      BY <1>11, <2>2, <3>2
    <3>. QED
      BY <3>1, <3>2, <3>3
  <2>. QED
    BY <2>1, <2>2
<1>15. ResultsSaved'
  BY <1>14 DEF ResultsSaved
<1>16. Types'
  BY <1>1, <1>10 DEF IInv, Types
<1>17. FolderIsFree'
  <2>1. ~call.open
    BY <1>9 DEF CallOK
  <2>. QED
    BY <1>9, <1>10, <2>1 DEF FolderIsFree, Overwriting, top
<1>. QED
  BY <1>1, <1>10, <1>11, <1>15, <1>16, <1>17 DEF IInv

-----------------------------------------------------------------------------
(***************************************************************************)
(* The invariant                                                           *)
(***************************************************************************)

LEMMA NextInv ==
  ASSUME IInv, [Next]_vars
  PROVE  IInv'
<1>1. CASE UNCHANGED vars
  BY <1>1 DEF vars, IInv, Types, ResultsSaved, FolderIsFree, Overwriting, top
<1>2. CASE Start
  BY <1>2, StartInv
<1>3. CASE ProcessStep
  <2>1. CASE CalculateHash
    BY <2>1, HashInv
  <2>2. CASE Continue
    BY <2>2, ContinueInv
  <2>3. CASE Spawn
    BY <2>3, SpawnInv
  <2>4. CASE CheckpointThrows
    BY <2>4, ThrowInv
  <2>5. CASE UseCached
    BY <2>5, UseCachedInv
  <2>6. CASE StartSubSimulation
    BY <2>6, StartSubInv
  <2>7. CASE StartSimulation
    BY <2>7, StartSimulationInv
  <2>8. CASE RemoveFile
    BY <2>8, RemoveInv
  <2>9. CASE SkipFirstFile
    BY <2>9, SkipInv
  <2>10. CASE OpenFile
    BY <2>10, OpenInv
  <2>11. CASE CloseFile
    BY <2>11, CloseInv
  <2>12. CASE Step
    BY <2>12, StepInv
  <2>13. CASE LeaveLoop
    BY <2>13, LeaveInv
  <2>14. CASE CloseLastFile
    BY <2>14, CloseLastInv
  <2>15. CASE LoadResult
    BY <2>15, LoadInv
  <2>. QED
    BY <1>3, <2>1, <2>2, <2>3, <2>4, <2>5, <2>6, <2>7, <2>8, <2>9, <2>10, <2>11, <2>12,
       <2>13, <2>14, <2>15 DEF ProcessStep
<1>4. CASE Crash
  BY <1>4, ThrowInv
<1>5. CASE EditFile
  BY <1>5, EditInv
<1>6. CASE Over
  BY <1>1, <1>6 DEF Over
<1>. QED
  BY <1>1, <1>2, <1>3, <1>4, <1>5, <1>6 DEF Next

\* Every checkpoint is where it belongs, the calls wait for each other, and no
\* saved result is in a folder that is being written: in every behaviour of
\* prepareParticles and the simulations it runs.
THEOREM Invariance == Spec => []IInv
<1>1. Init => IInv
  BY Initially
<1>2. IInv /\ [Next]_vars => IInv'
  BY NextInv
<1>. QED
  BY <1>1, <1>2, PTL DEF Spec

\* What the invariant says of one simulation.
LEMMA EndReached ==
  ASSUME NEW c, NEW W, NEW groups, c.particles = groups, NEW file,
         NEW n, c.iteration = n, AllEnd(groups, file, n, W)
  PROVE  RunToEnd(c, Files \ W)
<1>1. \A k \in DOMAIN groups : groups[k][Len(groups[k])].steps = n
  BY DEF AllEnd, Ends
<1>2. \A k \in DOMAIN groups : \A l \in 1 .. Len(groups[k]) - 1 :
        groups[k][l].file \in Files \ W => groups[k][l].steps = EndIteration
  BY DEF AllEnd, Ends
<1>. QED
  BY <1>1, <1>2 DEF RunToEnd

LEMMA FinalIfInv ==
  ASSUME IInv
  PROVE  ResultsAreFinal
<1>1. ASSUME NEW folder \in DOMAIN disk, NEW c \in Range(In(folder))
      PROVE  RunToEnd(c, Files \ writers)
  <2>1. PICK i \in DOMAIN disk[folder] : c = disk[folder][i]
    BY <1>1 DEF Range, In
  <2>2. Stored(c, folder, i, writers)
    BY <2>1 DEF IInv, DiskOK
  <2>3. PICK groups, file : groups = c.particles /\ file = c.file
    OBVIOUS
  <2>4. c.particles = groups /\ c.iteration = i /\ AllEnd(groups, file, i, writers)
    BY <2>2, <2>3 DEF Stored
  <2>5. PICK W : W = writers
    OBVIOUS
  <2>. QED
    BY <2>4, EndReached
<1>2. ASSUME NEW call \in Range(stack), call.phase \notin {"parsed", "params", "sources"}
      PROVE  RunToEnd(call, Files \ writers)
  <2>1. PICK n \in DOMAIN stack : call = stack[n]
    BY <1>2 DEF Range
  <2>2. CallOK(call, writers)
    BY <2>1 DEF IInv, StackOK
  <2>3. PICK groups, file, i : groups = call.particles /\ file = call.file /\ i = call.iteration
    OBVIOUS
  <2>4. call.particles = groups /\ call.iteration = i /\ AllEnd(groups, file, i, writers)
    BY <1>2, <2>2, <2>3 DEF CallOK
  <2>. QED
    BY <2>4, EndReached
<1>3. ASSUME NEW one \in Simulations PROVE RunToEnd(one, Files \ writers)
  <2>1. \/ one \in UNION {{c \in Range(In(folder)) : c.complete} : folder \in DOMAIN disk}
        \/ one \in {call \in Range(stack) : call.phase \notin {"parsed", "params", "sources"}}
    BY <1>3, Zenon DEF Simulations
  <2>2. ASSUME one \in UNION {{c \in Range(In(folder)) : c.complete} : folder \in DOMAIN disk}
        PROVE  RunToEnd(one, Files \ writers)
    <3>1. PICK folder \in DOMAIN disk : one \in {c \in Range(In(folder)) : c.complete}
      BY <2>2, Zenon
    <3>. QED
      BY <1>1, <3>1, Zenon
  <2>3. ASSUME one \in {call \in Range(stack) : call.phase \notin {"parsed", "params", "sources"}}
        PROVE  RunToEnd(one, Files \ writers)
    BY <1>2, <2>3, Zenon
  <2>. QED
    BY <2>1, <2>2, <2>3, Zenon
<1>. QED
  BY <1>3 DEF ResultsAreFinal

\* A simulation starts from sub simulations that have been run to their end.
THEOREM ResultsFinal == Spec => []ResultsAreFinal
<1>1. IInv => ResultsAreFinal
  BY FinalIfInv
<1>. QED
  BY <1>1, Invariance, PTL

-----------------------------------------------------------------------------
(***************************************************************************)
(* Results are used again                                                  *)
(***************************************************************************)

LEMMA LargestExists ==
  ASSUME NEW B \in Nat, NEW S \in SUBSET (0 .. B), S # {}
  PROVE  \E x \in S : \A y \in S : x >= y
<1>. DEFINE Less == OpToRel(<, Nat)
            Distances == {n \in 0 .. B : B - n \in S}
<1>1. IsWellFoundedOn(Less, Nat)
  BY NatLessThanWellFounded
<1>2. \A m, n \in Nat : <<m, n>> \in Less <=> m < n
  BY DEF OpToRel
<1>. HIDE DEF Less
<1>3. Distances \subseteq Nat
  OBVIOUS
<1>4. Distances # {}
  <2>1. PICK x \in S : x \in 0 .. B
    OBVIOUS
  <2>2. B - x \in 0 .. B /\ B - (B - x) = x
    BY <2>1
  <2>. QED BY <2>2
<1>5. PICK n \in Distances : \A m \in Distances : <<m, n>> \notin Less
  <2>. HIDE DEF Distances
  <2>. QED BY <1>1, <1>3, <1>4, WFMin
<1>6. B - n \in S /\ n \in Nat
  BY <1>3, <1>5
<1>7. ASSUME NEW y \in S PROVE B - n >= y
  <2>1. y \in 0 .. B /\ B - y \in 0 .. B /\ B - (B - y) = y
    BY <1>7
  <2>2. B - y \in Distances
    BY <1>7, <2>1
  <2>3. ~(B - y < n)
    BY <1>2, <1>3, <1>5, <2>2
  <2>. QED BY <1>6, <2>1, <2>3
<1>. QED BY <1>6, <1>7

\* A valid checkpoint in a folder is found, or a later one.
LEMMA ValidIsFound ==
  ASSUME NEW folder, DOMAIN In(folder) \subseteq 0 .. EndIteration,
         NEW i \in DOMAIN In(folder), i > 0, HashValid(In(folder)[i])
  PROVE  Latest(folder) # {}
<1>. DEFINE Valid == {j \in DOMAIN In(folder) : HashValid(In(folder)[j])}
<1>1. Valid \subseteq 0 .. EndIteration /\ i \in Valid
  OBVIOUS
<1>2. PICK x \in Valid : \A y \in Valid : x >= y
  <2>. HIDE DEF Valid
  <2>1. Valid # {} /\ Valid \in SUBSET (0 .. EndIteration)
    BY <1>1
  <2>. QED
    BY <2>1, EndIterationNat, LargestExists
<1>3. x \in Nat /\ x >= i /\ i \in Nat /\ x \in DOMAIN In(folder) /\ HashValid(In(folder)[x])
  BY <1>1, <1>2, EndIterationNat
<1>4. ASSUME NEW j \in DOMAIN In(folder), j > x PROVE ~HashValid(In(folder)[j])
  <2>1. j \in Nat /\ ~(x >= j)
    BY <1>3, <1>4
  <2>. QED
    BY <1>2, <2>1
<1>5. x > 0
  BY <1>3
<1>6. x \in Examined(folder)
  BY <1>3, <1>4, <1>5 DEF Examined
<1>. QED
  BY <1>3, <1>6 DEF Latest

\* The actions that leave no more calls than there were.
LEMMA TopKeepsLength ==
  ASSUME IInv, pc = "up", NEW call, Top(call)
  PROVE  ~(Len(stack') > Len(stack))
<1>1. Len(stack) \in Nat /\ stack \in Seq(Calls)
  BY TopFacts
<1>2. PICK m, S : m = Len(stack) /\ S = Calls \cup {call}
  OBVIOUS
<1>3. m \in Nat /\ stack \in [1 .. m -> S] /\ call \in S
  BY <1>1, <1>2
<1>4. stack' \in [1 .. m -> S]
  BY <1>3 DEF Top
<1>5. Len(stack') = m
  BY <1>3, <1>4
<1>. QED
  BY <1>2, <1>3, <1>5

LEMMA ReusedStep ==
  ASSUME IInv, StartSubSimulation, ~fresh,
         stack'[1].folder \in DOMAIN completed,
         completed[stack'[1].folder] = content[stack'[1].file]
  PROVE  FALSE
<1>1. PICK folder, file : file = Head(top.todo) /\ folder = Append(top.folder, file)
  OBVIOUS
<1>2. Process("sources") /\ top.todo # <<>>
  BY DEF StartSubSimulation
<1>3. /\ pc = "up" /\ file \in Files /\ IsPath(folder) /\ FileOf(folder) = file
  BY <1>1, <1>2, NextSub
<1>4. stack'[1].folder = folder /\ stack'[1].file = file
  <2>1. PICK call, st : call = NewCall(file, folder) /\ st = [stack EXCEPT ![1].todo = Tail(@)]
    OBVIOUS
  <2>2. call.folder = folder /\ call.file = file
    BY <2>1 DEF NewCall
  <2>3. call \in Calls
    BY <1>3, <2>1, NewCallOK DEF CallOK
  <2>4. stack \in Seq(Calls) /\ top \in Calls
    BY <1>3, TopFacts
  <2>5. stack' = <<call>> \o st
    BY <1>1, <2>1 DEF StartSubSimulation
  <2>6. stack'[1] = call
    BY <2>5
  <2>. QED
    BY <2>2, <2>6
<1>5. /\ folder \in DOMAIN disk
      /\ \E i \in DOMAIN disk[folder] :
           i > 0 /\ disk[folder][i].complete /\ disk[folder][i].hash = content[file]
  BY <1>4 DEF IInv, ResultsSaved
<1>6. In(folder) = disk[folder]
  BY <1>5 DEF In
<1>7. \A i \in DOMAIN disk[folder] : disk[folder][i].file = file /\ i \in 0 .. EndIteration
  BY <1>3, <1>5 DEF IInv, DiskOK, Stored
<1>8. PICK i \in DOMAIN In(folder) : i > 0 /\ HashValid(In(folder)[i])
  BY <1>5, <1>6, <1>7 DEF HashValid
<1>9. Latest(folder) # {}
  BY <1>6, <1>7, <1>8, ValidIsFound
<1>10. Cached(folder) = {}
  BY <1>1 DEF StartSubSimulation
<1>. QED
  BY <1>9, <1>10 DEF Cached

LEMMA OnlyStartsGrow ==
  ASSUME IInv, [Next]_vars, Len(stack') > Len(stack), pc = "up"
  PROVE  StartSubSimulation
<1>1. CASE UNCHANGED vars
  <2>1. stack' = stack /\ Len(stack) \in Nat
    BY <1>1, TopFacts DEF vars
  <2>. QED
    BY <2>1
<1>2. CASE ProcessStep
  <2>1. ASSUME NEW call, Top(call) PROVE FALSE
    BY <2>1, TopKeepsLength
  <2>2. ASSUME stack' = <<>> PROVE FALSE
    <3>1. Len(stack) \in Nat /\ Len(stack') = 0
      BY <2>2, TopFacts
    <3>. QED
      BY <3>1
  <2>3. ASSUME Return PROVE FALSE
    BY <2>1, <2>2, <2>3 DEF Return
  <2>4. ASSUME stack' = stack PROVE FALSE
    <3>1. Len(stack) \in Nat
      BY TopFacts
    <3>. QED
      BY <2>4, <3>1
  <2>5. CASE CalculateHash
    BY <2>1, <2>5 DEF CalculateHash
  <2>6. CASE Continue
    BY <2>1, <2>6 DEF Continue
  <2>7. CASE Spawn
    BY <2>1, <2>7 DEF Spawn
  <2>8. CASE CheckpointThrows
    BY <2>2, <2>8 DEF CheckpointThrows, Fail
  <2>9. CASE UseCached
    BY <2>1, <2>9 DEF UseCached
  <2>10. CASE StartSimulation
    BY <2>1, <2>10 DEF StartSimulation
  <2>11. CASE RemoveFile
    BY <2>4, <2>11 DEF RemoveFile
  <2>12. CASE SkipFirstFile
    BY <2>1, <2>12 DEF SkipFirstFile
  <2>13. CASE OpenFile
    BY <2>1, <2>13 DEF OpenFile
  <2>14. CASE CloseFile
    BY <2>1, <2>14 DEF CloseFile
  <2>15. CASE Step
    BY <2>1, <2>15 DEF Step
  <2>16. CASE LeaveLoop
    BY <2>1, <2>3, <2>16 DEF LeaveLoop
  <2>17. CASE CloseLastFile
    BY <2>3, <2>17 DEF CloseLastFile
  <2>18. CASE LoadResult
    <3>1. PICK m, first : m = Len(stack) /\ first = Load(stack[2], Checkpoint(TRUE))
      OBVIOUS
    <3>2. m \in Nat /\ m > 1 /\ stack \in Seq(Calls)
      <4>1. ~IsSub => top.phase # "result"
        BY TopFacts
      <4>2. IsSub
        BY <2>18, <4>1 DEF LoadResult
      <4>. QED
        BY <3>1, <4>2, TopFacts DEF IsSub
    <3>3. PICK S : S = Calls \cup {first}
      OBVIOUS
    <3>4. SubSeq(stack, 3, m) \in Seq(S) /\ Len(SubSeq(stack, 3, m)) = m - 2
      <4>1. CASE m = 2
        <5>1. SubSeq(stack, 3, m) = <<>>
          BY <3>1, <3>2, <4>1
        <5>. QED
          BY <4>1, <5>1
      <4>2. CASE m > 2
        <5>1. stack \in Seq(S)
          BY <3>2, <3>3
        <5>. QED
          BY <3>1, <3>2, <4>2, <5>1
      <4>. QED
        BY <3>2, <4>1, <4>2
    <3>5. PICK rest : rest = SubSeq(stack, 3, m)
      OBVIOUS
    <3>6. stack' = <<first>> \o rest /\ <<first>> \in Seq(S) /\ rest \in Seq(S)
          /\ Len(rest) = m - 2
      BY <2>18, <3>1, <3>3, <3>4, <3>5 DEF LoadResult
    <3>7. Len(stack') = 1 + (m - 2)
      BY <3>2, <3>6
    <3>. QED
      BY <3>1, <3>2, <3>7
  <2>. QED
    BY <1>2, <2>5, <2>6, <2>7, <2>8, <2>9, <2>10, <2>11, <2>12, <2>13, <2>14, <2>15,
       <2>16, <2>17, <2>18 DEF ProcessStep
<1>3. CASE Crash
  <2>1. Len(stack) \in Nat /\ Len(stack') = 0
    BY <1>3, TopFacts DEF Crash
  <2>. QED
    BY <2>1
<1>4. CASE EditFile
  <2>1. stack' = stack /\ Len(stack) \in Nat
    BY <1>4, TopFacts DEF EditFile
  <2>. QED
    BY <2>1
<1>5. ~Start /\ ~Over
  BY DEF Start, Over
<1>. QED
  BY <1>1, <1>2, <1>3, <1>4, <1>5 DEF Next

\* As long as a file is what it was, its saved result spares its simulation: in
\* every behaviour, with any number of crashes and starts in between.
THEOREM ResultsReused == Spec => ResultsAreReused
<1>. DEFINE Reused ==
       \A file \in Files :
         (Len(stack') > Len(stack) /\ pc = "up" /\ stack'[1].file = file) =>
            \/ fresh
            \/ stack'[1].folder \notin DOMAIN completed
            \/ completed[stack'[1].folder] # content[file]
<1>1. IInv /\ [Next]_vars => Reused
  <2>1. SUFFICES ASSUME IInv, [Next]_vars, Len(stack') > Len(stack), pc = "up", ~fresh,
                        stack'[1].folder \in DOMAIN completed,
                        completed[stack'[1].folder] = content[stack'[1].file]
                 PROVE  FALSE
    OBVIOUS
  <2>2. StartSubSimulation
    BY <2>1, OnlyStartsGrow
  <2>. QED
    BY <2>1, <2>2, ReusedStep
<1>2. IInv /\ [Next]_vars => [Reused]_vars
  BY <1>1
<1>. HIDE DEF Reused
<1>3. Spec => [][Reused]_vars
  BY <1>2, Invariance, PTL DEF Spec
<1>. QED
  BY <1>3 DEF Reused, ResultsAreReused

-----------------------------------------------------------------------------
(***************************************************************************)
(* What a simulation consists of                                           *)
(***************************************************************************)

\* Induction, for a set of numbers.
LEMMA NatSet ==
  ASSUME NEW S, 0 \in S, \A m \in Nat : m \in S => m + 1 \in S
  PROVE  \A m \in Nat : m \in S
<1>. DEFINE Less == OpToRel(<, Nat)
            Bad == {m \in Nat : m \notin S}
<1>1. IsWellFoundedOn(Less, Nat)
  BY NatLessThanWellFounded
<1>2. \A m, n \in Nat : <<m, n>> \in Less <=> m < n
  BY DEF OpToRel
<1>. HIDE DEF Less
<1>3. SUFFICES ASSUME Bad # {} PROVE FALSE
  OBVIOUS
<1>4. PICK n \in Bad : \A m \in Bad : <<m, n>> \notin Less
  <2>1. Bad \subseteq Nat
    OBVIOUS
  <2>. HIDE DEF Bad
  <2>. QED BY <1>1, <1>3, <2>1, WFMin
<1>5. n \in Nat /\ n \notin S /\ n # 0
  OBVIOUS
<1>6. n - 1 \in Nat /\ (n - 1) + 1 = n
  BY <1>5
<1>7. n - 1 \notin S
  BY <1>5, <1>6
<1>8. n - 1 \in Bad
  BY <1>6, <1>7
<1>9. <<n - 1, n>> \in Less
  BY <1>2, <1>5, <1>6
<1>. QED BY <1>4, <1>8, <1>9, Zenon

Names == Seq(Seq(Files))

\* What its sub simulation contributes to the simulation of a file.
Below(origins, file) == [k \in DOMAIN origins |-> Append(origins[k], file)]

Whole(O, file) == O[file][Len(Subs[file])]

\* up is what the simulation of a file consists of, after each of its first m sub
\* simulations, if they consist of what O says.
Consists(O, file, up, m) ==
    /\ up \in [0 .. m -> Names]
    /\ up[0] = <<<<file>>>>
    /\ \A n \in 1 .. m : up[n] = up[n - 1] \o Below(Whole(O, Subs[file][n]), file)

LEMMA SubsType ==
  ASSUME NEW file \in Files
  PROVE  /\ Len(Subs[file]) \in Nat
         /\ \A n \in 1 .. Len(Subs[file]) : /\ Subs[file][n] \in Files
                                            /\ Subs[file][n] \in Range(Subs[file])
<1>1. Subs[file] \in Seq(Files)
  BY SubSimulationsAssumption
<1>. QED BY <1>1 DEF Range

\* What a sub simulation contributes is a sequence of names, too.
LEMMA BelowType ==
  ASSUME NEW origins \in Names, NEW file \in Files
  PROVE  Below(origins, file) \in Names
<1>1. origins \in [1 .. Len(origins) -> Seq(Files)] /\ Len(origins) \in Nat
  BY DEF Names
<1>2. \A k \in DOMAIN origins : Append(origins[k], file) \in Seq(Files)
  BY <1>1
<1>3. PICK n \in Nat : n = Len(origins)
  BY <1>1
<1>4. Below(origins, file) \in [1 .. n -> Seq(Files)]
  BY <1>1, <1>2, <1>3 DEF Below
<1>5. PICK b : b = Below(origins, file)
  OBVIOUS
<1>6. b \in Seq(Seq(Files))
  BY <1>4, <1>5
<1>. QED BY <1>5, <1>6 DEF Names

\* A file consists of something if its sub simulations do.
LEMMA ConsistsExists ==
  ASSUME NEW O, NEW file \in Files,
         \A n \in 1 .. Len(Subs[file]) : Whole(O, Subs[file][n]) \in Names
  PROVE  \E up : Consists(O, file, up, Len(Subs[file]))
<1>. DEFINE L == Len(Subs[file])
            Good == {m \in Nat : m <= L => \E up : Consists(O, file, up, m)}
<1>1. 0 \in Good
  <2>. DEFINE up == [n \in 0 .. 0 |-> <<<<file>>>>]
  <2>1. <<<<file>>>> \in Names
    BY DEF Names
  <2>2. up \in [0 .. 0 -> Names] /\ up[0] = <<<<file>>>>
    BY <2>1
  <2>. HIDE DEF up
  <2>3. Consists(O, file, up, 0)
    BY <2>2 DEF Consists
  <2>. QED BY <2>3
<1>2. ASSUME NEW m \in Nat, m \in Good
      PROVE  m + 1 \in Good
  <2>. SUFFICES ASSUME m + 1 <= L PROVE \E up : Consists(O, file, up, m + 1)
    OBVIOUS
  <2>0. L \in Nat
    BY SubsType
  <2>1. PICK up : Consists(O, file, up, m)
    BY <1>2, <2>0
  <2>. DEFINE b == Below(Whole(O, Subs[file][m + 1]), file)
              next == [n \in 0 .. m + 1 |-> IF n = m + 1 THEN up[m] \o b ELSE up[n]]
  <2>2. b \in Names
    BY <2>0, BelowType
  <2>3. up \in [0 .. m -> Names] /\ up[m] \in Names
    BY <2>1 DEF Consists
  <2>4. up[m] \o b \in Names
    BY <2>2, <2>3 DEF Names
  <2>5. next \in [0 .. m + 1 -> Names] /\ next[0] = up[0]
    BY <2>3, <2>4
  <2>6. ASSUME NEW n \in 1 .. m + 1
        PROVE  next[n] = next[n - 1] \o Below(Whole(O, Subs[file][n]), file)
    <3>1. CASE n = m + 1
      <4>1. next[n] = up[m] \o b /\ next[n - 1] = up[m]
        BY <3>1
      <4>. QED BY <3>1, <4>1
    <3>2. CASE n # m + 1
      <4>1. n \in 1 .. m /\ n - 1 \in 0 .. m /\ n \in 0 .. m + 1 /\ n - 1 \in 0 .. m + 1
            /\ n - 1 # m + 1
        BY <3>2
      <4>2. next[n] = up[n] /\ next[n - 1] = up[n - 1]
        BY <3>2, <4>1
      <4>3. up[n] = up[n - 1] \o Below(Whole(O, Subs[file][n]), file)
        BY <2>1, <4>1 DEF Consists
      <4>. HIDE DEF next
      <4>. QED BY <4>2, <4>3
    <3>. QED BY <3>1, <3>2
  <2>. HIDE DEF next, b
  <2>7. Consists(O, file, next, m + 1)
    BY <2>1, <2>5, <2>6 DEF Consists
  <2>. QED BY <2>7
<1>3. L \in Nat
  BY SubsType
<1>. HIDE DEF Good, L
<1>4. L \in Good
  BY <1>1, <1>2, <1>3, NatSet
<1>. QED BY <1>3, <1>4 DEF Good, L

\* Only the sub simulations matter.
LEMMA ConsistsSame ==
  ASSUME NEW O, NEW P, NEW file \in Files, NEW up, Consists(O, file, up, Len(Subs[file])),
         \A n \in 1 .. Len(Subs[file]) : P[Subs[file][n]] = O[Subs[file][n]]
  PROVE  Consists(P, file, up, Len(Subs[file]))
<1>1. \A n \in 1 .. Len(Subs[file]) : Whole(P, Subs[file][n]) = Whole(O, Subs[file][n])
  BY DEF Whole
<1>. QED BY <1>1 DEF Consists

\* Files do not name each other in a circle: every one has a depth.
Deeper(depth) ==
    /\ depth \in [Files -> Nat]
    /\ \A file \in Files : \A n \in 1 .. Len(Subs[file]) : depth[Subs[file][n]] < depth[file]

\* The assumption about the files, as the induction below uses it.
LEMMA DepthExists ==
  \E depth, d : Deeper(depth) /\ d \in Nat /\ \A file \in Files : depth[file] < d
<1>1. Cardinality(Files) \in Nat
  BY SubSimulationsAssumption, FS_CardinalityType
<1>2. PICK depth \in [Files -> 0 .. Cardinality(Files)] :
         \A file \in Files : \A sub \in Range(Subs[file]) : depth[sub] < depth[file]
  BY SubSimulationsAssumption
<1>3. depth \in [Files -> Nat] /\ \A file \in Files : depth[file] < Cardinality(Files) + 1
  BY <1>1, <1>2
<1>4. \A file \in Files : \A n \in 1 .. Len(Subs[file]) : depth[Subs[file][n]] < depth[file]
  BY <1>2, SubsType
<1>5. Deeper(depth)
  BY <1>3, <1>4 DEF Deeper
<1>. QED BY <1>1, <1>3, <1>5

\* O says of every file above a depth what it consists of.
AllConsist(O, depth, d) ==
    \A file \in Files : depth[file] < d => Consists(O, file, O[file], Len(Subs[file]))

\* There is a function with the equation of OriginsWith: by induction over the
\* depth of a file, and over the number of its sub simulations.
LEMMA OriginsExist == \E O : \A file \in Files : Consists(O, file, O[file], Len(Subs[file]))
<1>1. PICK depth, d : Deeper(depth) /\ d \in Nat /\ \A file \in Files : depth[file] < d
  BY DepthExists
<1>. DEFINE Good == {m \in Nat : \E O : AllConsist(O, depth, m)}
<1>2. 0 \in Good
  BY <1>1 DEF AllConsist, Deeper
<1>3. ASSUME NEW m \in Nat, m \in Good
      PROVE  m + 1 \in Good
  <2>1. PICK O : AllConsist(O, depth, m)
    BY <1>3
  <2>2. ASSUME NEW file \in Files, depth[file] < m + 1
        PROVE  \E up : Consists(O, file, up, Len(Subs[file]))
    <3>1. ASSUME NEW n \in 1 .. Len(Subs[file])
          PROVE  Whole(O, Subs[file][n]) \in Names
      <4>1. PICK sub \in Files : sub = Subs[file][n]
        BY SubsType
      <4>2. depth[sub] < m
        BY <1>1, <2>2, <4>1 DEF Deeper
      <4>3. O[sub] \in [0 .. Len(Subs[sub]) -> Names]
        BY <2>1, <4>2 DEF AllConsist, Consists
      <4>4. Len(Subs[sub]) \in 0 .. Len(Subs[sub])
        BY SubsType
      <4>5. O[sub][Len(Subs[sub])] \in Names
        BY <4>3, <4>4
      <4>. QED BY <4>1, <4>5 DEF Whole
    <3>. QED BY <3>1, ConsistsExists
  <2>. DEFINE P == [file \in Files |-> IF depth[file] < m THEN O[file]
                          ELSE CHOOSE up : Consists(O, file, up, Len(Subs[file]))]
  <2>3. \A file \in Files : depth[file] < m => P[file] = O[file]
    OBVIOUS
  <2>4. ASSUME NEW file \in Files, depth[file] < m + 1
        PROVE  Consists(O, file, P[file], Len(Subs[file]))
    <3>1. CASE depth[file] < m
      BY <2>1, <2>3, <3>1 DEF AllConsist
    <3>2. CASE ~(depth[file] < m)
      <4>1. \E up : Consists(O, file, up, Len(Subs[file]))
        BY <2>2, <2>4
      <4>2. P[file] = CHOOSE up : Consists(O, file, up, Len(Subs[file]))
        BY <3>2
      <4>. HIDE DEF P
      <4>. QED BY <4>1, <4>2, Zenon
    <3>. QED BY <3>1, <3>2
  <2>. HIDE DEF P
  <2>5. ASSUME NEW file \in Files, depth[file] < m + 1
        PROVE  Consists(P, file, P[file], Len(Subs[file]))
    <3>1. \A n \in 1 .. Len(Subs[file]) : P[Subs[file][n]] = O[Subs[file][n]]
      <4>. SUFFICES ASSUME NEW n \in 1 .. Len(Subs[file])
                    PROVE  P[Subs[file][n]] = O[Subs[file][n]]
        OBVIOUS
      <4>1. PICK sub \in Files : sub = Subs[file][n]
        BY SubsType
      <4>2. depth[sub] < m
        BY <1>1, <2>5, <4>1 DEF Deeper
      <4>. QED BY <2>3, <4>1, <4>2
    <3>. QED BY <2>4, <2>5, <3>1, ConsistsSame
  <2>6. AllConsist(P, depth, m + 1)
    BY <2>5 DEF AllConsist
  <2>. QED BY <2>6
<1>. HIDE DEF Good
<1>4. d \in Good
  BY <1>1, <1>2, <1>3, NatSet
<1>. QED BY <1>1, <1>4 DEF Good, AllConsist

\* The equation that defines OriginsWith.
Unfolds(O) ==
    O = [file \in Files |->
           [n \in 0 .. Len(Subs[file]) |->
              IF n = 0 THEN <<<<file>>>>
              ELSE LET sub == Subs[file][n]
                       origins == O[sub][Len(Subs[sub])]
                   IN  O[file][n - 1] \o [k \in DOMAIN origins |-> Append(origins[k], file)]]]

\* So OriginsWith, which TLA+ defines as some such function if there is one, is one.
LEMMA OriginsUnfold == Unfolds(OriginsWith)
<1>1. PICK O : \A file \in Files : Consists(O, file, O[file], Len(Subs[file]))
  BY OriginsExist
<1>. DEFINE P == [file \in Files |-> O[file]]
<1>2. \A file \in Files : Consists(P, file, P[file], Len(Subs[file]))
  <2>. SUFFICES ASSUME NEW file \in Files
                PROVE  Consists(P, file, P[file], Len(Subs[file]))
    OBVIOUS
  <2>1. \A n \in 1 .. Len(Subs[file]) : P[Subs[file][n]] = O[Subs[file][n]]
    BY SubsType
  <2>2. P[file] = O[file]
    OBVIOUS
  <2>. HIDE DEF P
  <2>. QED BY <1>1, <2>1, <2>2, ConsistsSame
<1>3. P = [file \in Files |-> P[file]]
  OBVIOUS
<1>. HIDE DEF P
<1>4. ASSUME NEW file \in Files
      PROVE  P[file] = [n \in 0 .. Len(Subs[file]) |->
                          IF n = 0 THEN <<<<file>>>>
                          ELSE P[file][n - 1] \o Below(Whole(P, Subs[file][n]), file)]
  <2>1. PICK up : up = P[file]
    OBVIOUS
  <2>2. PICK L \in Nat : L = Len(Subs[file])
    BY SubsType
  <2>3. /\ up \in [0 .. L -> Names] /\ up[0] = <<<<file>>>>
        /\ \A n \in 1 .. L : up[n] = up[n - 1] \o Below(Whole(P, Subs[file][n]), file)
    BY <1>2, <2>1, <2>2 DEF Consists
  <2>4. up = [n \in 0 .. L |-> up[n]]
    BY <2>3
  <2>5. \A n \in 0 .. L : up[n] = IF n = 0 THEN <<<<file>>>>
                                  ELSE up[n - 1] \o Below(Whole(P, Subs[file][n]), file)
    BY <2>3
  <2>6. up = [n \in 0 .. L |-> IF n = 0 THEN <<<<file>>>>
                               ELSE up[n - 1] \o Below(Whole(P, Subs[file][n]), file)]
    BY <2>4, <2>5
  <2>. QED BY <2>1, <2>2, <2>6
<1>5. P = [file \in Files |->
             [n \in 0 .. Len(Subs[file]) |->
                IF n = 0 THEN <<<<file>>>>
                ELSE P[file][n - 1] \o Below(Whole(P, Subs[file][n]), file)]]
  BY <1>3, <1>4, Zenon
<1>6. Unfolds(P)
  BY <1>5 DEF Unfolds, Below, Whole
<1>7. OriginsWith = CHOOSE Q : Unfolds(Q)
  BY DEF OriginsWith, Unfolds
<1>. QED BY <1>6, <1>7, Zenon

\* The same, for one file.
LEMMA OriginsStep ==
  ASSUME NEW file \in Files
  PROVE  /\ OriginsWith[file] = [n \in 0 .. Len(Subs[file]) |-> OriginsWith[file][n]]
         /\ OriginsWith[file][0] = <<<<file>>>>
         /\ \A n \in 1 .. Len(Subs[file]) :
              OriginsWith[file][n] =
                OriginsWith[file][n - 1] \o Below(Whole(OriginsWith, Subs[file][n]), file)
<1>1. PICK O : O = OriginsWith
  OBVIOUS
<1>2. PICK L \in Nat : L = Len(Subs[file])
  BY SubsType
<1>3. O = [f \in Files |->
             [n \in 0 .. Len(Subs[f]) |->
                IF n = 0 THEN <<<<f>>>>
                ELSE O[f][n - 1] \o Below(Whole(O, Subs[f][n]), f)]]
  BY <1>1, OriginsUnfold DEF Unfolds, Below, Whole
<1>4. O[file] = [n \in 0 .. L |->
                   IF n = 0 THEN <<<<file>>>>
                   ELSE O[file][n - 1] \o Below(Whole(O, Subs[file][n]), file)]
  BY <1>2, <1>3, Zenon
<1>5. PICK up : up = O[file]
  OBVIOUS
<1>6. up = [n \in 0 .. L |->
              IF n = 0 THEN <<<<file>>>>
              ELSE up[n - 1] \o Below(Whole(O, Subs[file][n]), file)]
  BY <1>4, <1>5
<1>7. \A n \in 0 .. L : up[n] = IF n = 0 THEN <<<<file>>>>
                                ELSE up[n - 1] \o Below(Whole(O, Subs[file][n]), file)
  BY <1>6, Zenon
<1>8. /\ up[0] = <<<<file>>>>
      /\ \A n \in 1 .. L : up[n] = up[n - 1] \o Below(Whole(O, Subs[file][n]), file)
  <2>1. 0 \in 0 .. L /\ \A n \in 1 .. L : n \in 0 .. L /\ n # 0
    OBVIOUS
  <2>. QED BY <1>7, <2>1, Zenon
<1>9. up = [n \in 0 .. L |-> up[n]]
  BY <1>6, <1>7, Zenon
<1>. QED BY <1>1, <1>2, <1>5, <1>8, <1>9

\* And its values are sequences of names.
LEMMA OriginsAre ==
  \A file \in Files : Consists(OriginsWith, file, OriginsWith[file], Len(Subs[file]))
<1>1. PICK depth, d : Deeper(depth) /\ d \in Nat /\ \A file \in Files : depth[file] < d
  BY DepthExists
<1>. DEFINE Good == {m \in Nat : AllConsist(OriginsWith, depth, m)}
<1>2. 0 \in Good
  BY <1>1 DEF AllConsist, Deeper
<1>3. ASSUME NEW m \in Nat, m \in Good, NEW file \in Files, depth[file] < m + 1
      PROVE  Consists(OriginsWith, file, OriginsWith[file], Len(Subs[file]))
  <2>1. PICK up : up = OriginsWith[file]
    OBVIOUS
  <2>2. PICK L \in Nat : L = Len(Subs[file])
    BY SubsType
  <2>3. /\ up = [n \in 0 .. L |-> up[n]]
        /\ up[0] = <<<<file>>>>
        /\ \A n \in 1 .. L : up[n] = up[n - 1] \o Below(Whole(OriginsWith, Subs[file][n]), file)
    BY <2>1, <2>2, OriginsStep
  <2>4. ASSUME NEW n \in 1 .. L
        PROVE  Below(Whole(OriginsWith, Subs[file][n]), file) \in Names
    <3>1. PICK sub \in Files : sub = Subs[file][n]
      BY <2>2, SubsType
    <3>2. depth[sub] < m
      BY <1>1, <1>3, <2>2, <3>1 DEF Deeper
    <3>3. OriginsWith[sub] \in [0 .. Len(Subs[sub]) -> Names]
      BY <1>3, <3>2 DEF AllConsist, Consists
    <3>4. Len(Subs[sub]) \in 0 .. Len(Subs[sub])
      BY SubsType
    <3>5. OriginsWith[sub][Len(Subs[sub])] \in Names
      BY <3>3, <3>4
    <3>. QED BY <3>1, <3>5, BelowType DEF Whole
  <2>. DEFINE Typed == {n \in Nat : n <= L => up[n] \in Names}
  <2>5. 0 \in Typed
    <3>1. <<<<file>>>> \in Names
      BY DEF Names
    <3>. QED BY <2>3, <3>1
  <2>6. ASSUME NEW n \in Nat, n \in Typed
        PROVE  n + 1 \in Typed
    <3>. SUFFICES ASSUME n + 1 <= L PROVE up[n + 1] \in Names
      OBVIOUS
    <3>1. up[n] \in Names /\ n + 1 \in 1 .. L /\ (n + 1) - 1 = n
      BY <2>6
    <3>2. up[n + 1] = up[n] \o Below(Whole(OriginsWith, Subs[file][n + 1]), file)
      BY <2>3, <3>1
    <3>3. Below(Whole(OriginsWith, Subs[file][n + 1]), file) \in Names
      BY <2>4, <3>1
    <3>. QED BY <3>1, <3>2, <3>3 DEF Names
  <2>. HIDE DEF Typed
  <2>7. \A n \in Nat : n \in Typed
    BY <2>5, <2>6, NatSet
  <2>8. \A n \in 0 .. L : up[n] \in Names
    BY <2>7 DEF Typed
  <2>9. up \in [0 .. L -> Names]
    BY <2>3, <2>8
  <2>. QED BY <2>1, <2>2, <2>3, <2>9 DEF Consists
<1>4. ASSUME NEW m \in Nat, m \in Good
      PROVE  m + 1 \in Good
  BY <1>3, <1>4 DEF AllConsist
<1>. HIDE DEF Good
<1>5. d \in Good
  BY <1>1, <1>2, <1>4, NatSet
<1>. QED BY <1>1, <1>5 DEF Good, AllConsist

\* What is used of Origins.
LEMMA OriginsGrow ==
  ASSUME NEW file \in Files
  PROVE  /\ \A n \in 0 .. Len(Subs[file]) : OriginsWith[file][n] \in Names
         /\ OriginsWith[file][0] = <<<<file>>>>
         /\ \A n \in 1 .. Len(Subs[file]) :
              OriginsWith[file][n] = OriginsWith[file][n - 1] \o Below(Origins(Subs[file][n]), file)
         /\ Origins(file) = OriginsWith[file][Len(Subs[file])] /\ Origins(file) \in Names
<1>1. Consists(OriginsWith, file, OriginsWith[file], Len(Subs[file]))
  BY OriginsAre
<1>2. Len(Subs[file]) \in 0 .. Len(Subs[file])
  BY SubsType
<1>. QED BY <1>1, <1>2 DEF Consists, Whole, Origins

-----------------------------------------------------------------------------
(***************************************************************************)
(* The simulations a group has been in                                     *)
(***************************************************************************)

\* The files of its legs.
FilesOf(group) == [l \in DOMAIN group |-> group[l].file]

NamesOf(groups) == [k \in DOMAIN groups |-> FilesOf(groups[k])]

LEMMA FilesType ==
  ASSUME NEW group \in Groups
  PROVE  FilesOf(group) \in Seq(Files) /\ Len(FilesOf(group)) = Len(group)
<1>1. PICK m \in Nat : m = Len(group) /\ DOMAIN group = 1 .. m
  BY DEF Groups
<1>2. \A l \in 1 .. m : group[l] \in Legs
  BY <1>1 DEF Groups
<1>3. \A l \in 1 .. m : group[l].file \in Files
  BY <1>2 DEF Legs
<1>4. [l \in 1 .. m |-> group[l].file] \in [1 .. m -> Files]
  BY <1>3
<1>5. [l \in 1 .. m |-> group[l].file] \in Seq(Files)
      /\ Len([l \in 1 .. m |-> group[l].file]) = m
  BY <1>4
<1>. QED BY <1>1, <1>5 DEF FilesOf

LEMMA NamesType ==
  ASSUME NEW groups \in Seq(Groups)
  PROVE  NamesOf(groups) \in Names /\ Len(NamesOf(groups)) = Len(groups)
<1>1. PICK n \in Nat : n = Len(groups) /\ DOMAIN groups = 1 .. n
  OBVIOUS
<1>2. \A k \in 1 .. n : FilesOf(groups[k]) \in Seq(Files)
  BY <1>1, FilesType
<1>3. NamesOf(groups) \in [1 .. n -> Seq(Files)]
  BY <1>1, <1>2 DEF NamesOf
<1>4. PICK names : names = NamesOf(groups)
  OBVIOUS
<1>5. names \in Seq(Seq(Files)) /\ Len(names) = n
  BY <1>3, <1>4
<1>. QED BY <1>1, <1>4, <1>5 DEF Names

\* What has just been spawned has been in one simulation only.
LEMMA FilesSpawned ==
  ASSUME NEW leg
  PROVE  NamesOf(<<<<leg>>>>) = <<<<leg.file>>>>
<1>1. PICK group : group = <<leg>>
  OBVIOUS
<1>2. FilesOf(group) = <<leg.file>>
  BY <1>1 DEF FilesOf
<1>3. NamesOf(<<group>>) = <<FilesOf(group)>>
  BY DEF NamesOf
<1>. QED BY <1>1, <1>2, <1>3

LEMMA FilesAppended ==
  ASSUME NEW group \in Groups, NEW leg \in Legs
  PROVE  FilesOf(Append(group, leg)) = Append(FilesOf(group), leg.file)
<1>1. PICK m \in Nat : m = Len(group)
  BY DEF Groups
<1>2. PICK longer : longer = Append(group, leg)
  OBVIOUS
<1>3. /\ longer \in Seq(Legs) /\ Len(longer) = m + 1 /\ longer[m + 1] = leg
      /\ \A l \in 1 .. m : longer[l] = group[l]
  BY <1>1, <1>2, AppendLeg DEF Groups
<1>4. PICK names \in Seq(Files) : names = FilesOf(group) /\ Len(names) = m
  BY <1>1, FilesType
<1>5. leg.file \in Files
  BY DEF Legs
<1>6. PICK file \in Files : file = leg.file
  BY <1>5
<1>7. \A l \in 1 .. m : names[l] = group[l].file
  <2>1. DOMAIN group = 1 .. m
    BY <1>1 DEF Groups
  <2>. QED BY <1>4, <2>1 DEF FilesOf
<1>8. PICK new : new = Append(names, file)
  OBVIOUS
<1>9. /\ new = [l \in 1 .. m + 1 |-> new[l]] /\ new[m + 1] = file
      /\ \A l \in 1 .. m : new[l] = names[l]
  <2>1. /\ new \in Seq(Files) /\ Len(new) = m + 1 /\ new[m + 1] = file
        /\ \A l \in 1 .. m : new[l] = names[l]
    BY <1>4, <1>8
  <2>. QED BY <2>1
<1>10. FilesOf(longer) = [l \in 1 .. m + 1 |-> longer[l].file]
  BY <1>3 DEF FilesOf
<1>11. \A l \in 1 .. m + 1 : longer[l].file = new[l]
  <2>. SUFFICES ASSUME NEW l \in 1 .. m + 1 PROVE longer[l].file = new[l]
    OBVIOUS
  <2>1. CASE l = m + 1
    BY <1>3, <1>6, <1>9, <2>1
  <2>2. CASE l # m + 1
    <3>1. l \in 1 .. m
      BY <2>2
    <3>. QED BY <1>3, <1>7, <1>9, <3>1
  <2>. QED BY <2>1, <2>2
<1>12. FilesOf(longer) = new
  BY <1>9, <1>10, <1>11
<1>. QED BY <1>2, <1>4, <1>6, <1>8, <1>12

\* Loaded particles have been in the simulation that loads them, too.
LEMMA NamesLoaded ==
  ASSUME NEW groups \in Seq(Groups), NEW more \in Seq(Groups), NEW leg \in Legs
  PROVE  NamesOf(groups \o [k \in DOMAIN more |-> Append(more[k], leg)])
           = NamesOf(groups) \o Below(NamesOf(more), leg.file)
<1>1. PICK m \in Nat, n \in Nat : m = Len(groups) /\ n = Len(more)
  OBVIOUS
<1>2. PICK loaded : loaded = [k \in DOMAIN more |-> Append(more[k], leg)]
  OBVIOUS
<1>3. \A k \in 1 .. n : more[k] \in Groups
  BY <1>1
<1>4. loaded = [k \in 1 .. n |-> Append(more[k], leg)]
  BY <1>1, <1>2
<1>5. loaded \in [1 .. n -> Groups] /\ \A k \in 1 .. n : loaded[k] = Append(more[k], leg)
  BY <1>3, <1>4, AppendLeg
<1>6. loaded \in Seq(Groups) /\ Len(loaded) = n
  BY <1>5
<1>7. leg.file \in Files
  BY DEF Legs
<1>8. PICK file \in Files : file = leg.file
  BY <1>7
<1>9. PICK first \in Names : first = NamesOf(groups) /\ Len(first) = m
  BY <1>1, NamesType
<1>10. PICK others \in Names : others = NamesOf(more) /\ Len(others) = n
  BY <1>1, NamesType
<1>11. PICK below \in Names : below = Below(others, file)
  BY BelowType
<1>12. \A k \in 1 .. m : first[k] = FilesOf(groups[k])
  BY <1>1, <1>9 DEF NamesOf
<1>13. \A k \in 1 .. n : others[k] = FilesOf(more[k])
  BY <1>1, <1>10 DEF NamesOf
<1>14. Len(below) = n /\ \A k \in 1 .. n : below[k] = Append(others[k], file)
  <2>1. DOMAIN others = 1 .. n
    BY <1>10 DEF Names
  <2>2. below = [k \in 1 .. n |-> Append(others[k], file)]
    BY <1>11, <2>1 DEF Below
  <2>. QED BY <1>11, <2>2 DEF Names
<1>15. PICK both : both = groups \o loaded
  OBVIOUS
<1>16. /\ both \in Seq(Groups) /\ Len(both) = m + n
       /\ \A k \in 1 .. m : both[k] = groups[k]
       /\ \A k \in m + 1 .. m + n : both[k] = loaded[k - m]
  <2>. DEFINE S == Groups
  <2>1. groups \in Seq(S) /\ loaded \in Seq(S)
    BY <1>6
  <2>. HIDE DEF S
  <2>2. /\ groups \o loaded \in Seq(S) /\ Len(groups \o loaded) = m + n
        /\ \A k \in 1 .. m : (groups \o loaded)[k] = groups[k]
        /\ \A k \in m + 1 .. m + n : (groups \o loaded)[k] = loaded[k - m]
    <3>1. groups \in Seq(S) /\ loaded \in Seq(S) /\ m = Len(groups) /\ n = Len(loaded)
      BY <1>1, <1>6, <2>1
    <3>2. groups \o loaded \in Seq(S) /\ Len(groups \o loaded) = m + n
      BY <3>1
    <3>3. \A k \in 1 .. m : (groups \o loaded)[k] = groups[k]
      BY <3>1
    <3>4. ASSUME NEW k \in m + 1 .. m + n PROVE (groups \o loaded)[k] = loaded[k - m]
      BY <3>1
    <3>. QED BY <3>2, <3>3, <3>4
  <2>. QED BY <1>15, <2>2 DEF S
<1>17. PICK new : new = first \o below
  OBVIOUS
<1>18. /\ new = [k \in 1 .. m + n |-> new[k]]
       /\ \A k \in 1 .. m : new[k] = first[k]
       /\ \A k \in m + 1 .. m + n : new[k] = below[k - m]
  <2>1. first \in Seq(Seq(Files)) /\ below \in Seq(Seq(Files))
    BY DEF Names
  <2>. DEFINE S == Seq(Files)
  <2>2. first \in Seq(S) /\ below \in Seq(S)
    BY <2>1
  <2>. HIDE DEF S
  <2>3. /\ first \o below \in Seq(S) /\ Len(first \o below) = m + n
        /\ \A k \in 1 .. m : (first \o below)[k] = first[k]
        /\ \A k \in m + 1 .. m + n : (first \o below)[k] = below[k - m]
    <3>1. first \in Seq(S) /\ below \in Seq(S) /\ m = Len(first) /\ n = Len(below)
      BY <1>9, <1>14, <2>2
    <3>2. first \o below \in Seq(S) /\ Len(first \o below) = m + n
      BY <3>1
    <3>3. \A k \in 1 .. m : (first \o below)[k] = first[k]
      BY <3>1
    <3>4. ASSUME NEW k \in m + 1 .. m + n PROVE (first \o below)[k] = below[k - m]
      BY <3>1
    <3>. QED BY <3>2, <3>3, <3>4
  <2>4. new \in Seq(S) /\ Len(new) = m + n
    BY <1>17, <2>3
  <2>5. new = [k \in 1 .. m + n |-> new[k]]
    BY <2>4
  <2>. QED BY <1>17, <2>3, <2>5, Zenon
<1>19. NamesOf(both) = [k \in 1 .. m + n |-> FilesOf(both[k])]
  <2>1. DOMAIN both = 1 .. m + n
    BY <1>16
  <2>. QED BY <2>1 DEF NamesOf
<1>20. ASSUME NEW k \in 1 .. m + n
       PROVE  FilesOf(both[k]) = new[k]
  <2>1. CASE k <= m
    <3>1. k \in 1 .. m
      BY <2>1
    <3>. QED BY <1>12, <1>16, <1>18, <3>1
  <2>2. CASE k > m
    <3>1. k \in m + 1 .. m + n
      BY <2>2
    <3>2. PICK l \in 1 .. n : l = k - m
      BY <3>1
    <3>3. FilesOf(both[k]) = FilesOf(Append(more[l], leg))
      BY <1>5, <1>16, <3>1, <3>2
    <3>4. FilesOf(Append(more[l], leg)) = Append(FilesOf(more[l]), file)
      BY <1>3, <1>8, FilesAppended
    <3>5. new[k] = Append(others[l], file)
      BY <1>14, <1>18, <3>1, <3>2
    <3>. QED BY <1>13, <3>3, <3>4, <3>5
  <2>. QED BY <2>1, <2>2
<1>21. NamesOf(both) = new
  BY <1>18, <1>19, <1>20
<1>. QED BY <1>2, <1>8, <1>9, <1>10, <1>11, <1>15, <1>17, <1>21

LEMMA FilesMoved ==
  ASSUME NEW group \in Groups
  PROVE  FilesOf(Moved(group)) = FilesOf(group)
<1>1. PICK m \in Nat : m = Len(group) /\ m > 0 /\ DOMAIN group = 1 .. m
  BY DEF Groups
<1>2. \A l \in 1 .. m : group[l] \in Legs
  BY <1>1 DEF Groups
<1>3. PICK old \in Legs : old = group[m]
  BY <1>1, <1>2
<1>4. PICK leg : leg = [old EXCEPT !.steps = @ + 1]
  OBVIOUS
<1>5. leg.file = old.file
  BY <1>4 DEF Legs
<1>6. PICK new : new = [group EXCEPT ![m] = leg]
  OBVIOUS
<1>7. Moved(group) = new
  BY <1>1, <1>3, <1>4, <1>6 DEF Moved
<1>8. DOMAIN new = 1 .. m /\ \A l \in 1 .. m : new[l].file = group[l].file
  <2>1. DOMAIN new = 1 .. m
    BY <1>1, <1>6
  <2>2. ASSUME NEW l \in 1 .. m PROVE new[l].file = group[l].file
    <3>1. CASE l = m
      BY <1>1, <1>3, <1>5, <1>6, <3>1
    <3>2. CASE l # m
      <4>1. new[l] = group[l]
        BY <1>1, <1>6, <3>2
      <4>. QED BY <4>1
    <3>. QED BY <3>1, <3>2
  <2>. QED BY <2>1, <2>2
<1>9. FilesOf(new) = FilesOf(group)
  BY <1>1, <1>8 DEF FilesOf
<1>. QED BY <1>7, <1>9

\* Steps do not change where particles come from.
LEMMA NamesMoved ==
  ASSUME NEW groups \in Seq(Groups)
  PROVE  NamesOf([k \in DOMAIN groups |-> Moved(groups[k])]) = NamesOf(groups)
<1>1. PICK moved : moved = [k \in DOMAIN groups |-> Moved(groups[k])]
  OBVIOUS
<1>2. \A k \in DOMAIN groups : groups[k] \in Groups
  OBVIOUS
<1>3. DOMAIN moved = DOMAIN groups
  BY <1>1
<1>4. \A k \in DOMAIN groups : FilesOf(moved[k]) = FilesOf(groups[k])
  BY <1>1, <1>2, FilesMoved
<1>. QED BY <1>1, <1>3, <1>4 DEF NamesOf

-----------------------------------------------------------------------------
(***************************************************************************)
(* Nothing is lost or doubled                                              *)
(***************************************************************************)

\* How many sub simulations of its file a call is through with: the others are
\* those that are left.
Done(call) == Len(Subs[call.file]) - Len(call.todo)

Remaining(call) ==
    /\ Len(call.todo) <= Len(Subs[call.file])
    /\ \A k \in DOMAIN call.todo : call.todo[k] = Subs[call.file][Done(call) + k]

\* The innermost call has what its spawners and the sub simulations that are done
\* give; a waiting one lacks the sub simulation that runs.
Assembled(call) ==
    /\ Remaining(call)
    /\ call.phase \in {"parsed", "params"} => Done(call) = 0
    /\ call.phase = "sources" => NamesOf(call.particles) = OriginsWith[call.file][Done(call)]
    /\ call.phase \notin {"parsed", "params", "sources"} =>
         NamesOf(call.particles) = Origins(call.file)

Waits(call, file) ==
    /\ Remaining(call) /\ Done(call) > 0 /\ Subs[call.file][Done(call)] = file
    /\ NamesOf(call.particles) = OriginsWith[call.file][Done(call) - 1]

DiskLineage(d) ==
    \A folder \in DOMAIN d : \A i \in DOMAIN d[folder] :
        NamesOf(d[folder][i].particles) = Origins(d[folder][i].file)

StackLineage(st) ==
    /\ st # <<>> => Assembled(st[1])
    /\ \A n \in 2 .. Len(st) : Waits(st[n], st[n - 1].file)

Lineage == DiskLineage(disk) /\ StackLineage(stack)

\* One sub simulation more.
LEMMA LoadAssembles ==
  ASSUME NEW file \in Files, NEW n \in Nat, n + 1 <= Len(Subs[file]),
         NEW groups \in Seq(Groups), NamesOf(groups) = OriginsWith[file][n],
         NEW more \in Seq(Groups), NamesOf(more) = Origins(Subs[file][n + 1]),
         NEW leg \in Legs, leg.file = file
  PROVE  NamesOf(groups \o [k \in DOMAIN more |-> Append(more[k], leg)])
           = OriginsWith[file][n + 1]
<1>1. n + 1 \in 1 .. Len(Subs[file]) /\ (n + 1) - 1 = n
  BY SubsType
<1>2. OriginsWith[file][n + 1] = OriginsWith[file][n] \o Below(Origins(Subs[file][n + 1]), file)
  BY <1>1, OriginsGrow
<1>. QED BY <1>2, NamesLoaded

\* The next sub simulation of a call is the next one its file names.
LEMMA NextRemaining ==
  ASSUME NEW call \in Calls, Remaining(call), call.todo # <<>>,
         NEW new, new.file = call.file, new.todo = Tail(call.todo)
  PROVE  /\ Remaining(new) /\ Done(new) = Done(call) + 1
         /\ Done(call) \in Nat /\ Done(call) + 1 <= Len(Subs[call.file])
         /\ Head(call.todo) = Subs[call.file][Done(call) + 1]
<1>1. PICK L \in Nat : L = Len(Subs[call.file])
  <2>1. call.file \in Files
    BY DEF Calls
  <2>. QED BY <2>1, SubsType
<1>2. PICK todo \in Seq(Files) : todo = call.todo
  BY DEF Calls
<1>3. PICK m \in Nat : m = Len(todo) /\ m > 0 /\ DOMAIN todo = 1 .. m
  BY <1>2
<1>4. Done(call) = L - m /\ m <= L
  BY <1>1, <1>2, <1>3 DEF Done, Remaining
<1>5. \A k \in 1 .. m : todo[k] = Subs[call.file][(L - m) + k]
  BY <1>2, <1>3, <1>4 DEF Remaining
<1>6. PICK rest : rest = Tail(todo)
  OBVIOUS
<1>7. /\ Len(rest) = m - 1 /\ DOMAIN rest = 1 .. m - 1 /\ Head(todo) = todo[1]
      /\ \A k \in 1 .. m - 1 : rest[k] = todo[k + 1]
  BY <1>3, <1>6
<1>8. new.todo = rest
  BY <1>2, <1>6
<1>9. Done(new) = (L - m) + 1
  <2>1. Len(Subs[new.file]) = L /\ Len(new.todo) = m - 1
    BY <1>1, <1>7, <1>8
  <2>2. Done(new) = L - (m - 1)
    BY <2>1 DEF Done
  <2>. QED BY <2>2
<1>10. ASSUME NEW k \in 1 .. m - 1
       PROVE  rest[k] = Subs[call.file][((L - m) + 1) + k]
  <2>1. k + 1 \in 1 .. m /\ ((L - m) + 1) + k = (L - m) + (k + 1)
    BY <1>3
  <2>. QED BY <1>5, <1>7, <2>1
<1>11. Remaining(new)
  <2>1. Len(rest) <= L
    BY <1>3, <1>4, <1>7
  <2>. QED BY <1>1, <1>7, <1>8, <1>9, <1>10, <2>1 DEF Remaining
<1>12. Head(todo) = Subs[call.file][(L - m) + 1]
  BY <1>3, <1>5, <1>7
<1>13. (L - m) \in Nat /\ (L - m) + 1 <= L
  BY <1>3, <1>4
<1>14. Done(call) \in Nat /\ Done(call) + 1 <= L /\ Done(new) = Done(call) + 1
  BY <1>4, <1>9, <1>13
<1>. QED BY <1>1, <1>2, <1>4, <1>11, <1>12, <1>14

\* A call that changes nothing else is what it was.
LEMMA StillAssembled ==
  ASSUME NEW old, Assembled(old),
         NEW new, new.file = old.file, new.todo = old.todo,
         NamesOf(new.particles) = NamesOf(old.particles),
         \/ new.phase \in {"parsed", "params"} /\ old.phase \in {"parsed", "params"}
         \/ new.phase = "sources" /\ old.phase = "sources"
         \/ /\ new.phase \notin {"parsed", "params", "sources"}
            /\ old.phase \notin {"parsed", "params", "sources"}
  PROVE  Assembled(new)
<1>1. Done(new) = Done(old)
  BY DEF Done
<1>2. Remaining(new)
  BY <1>1 DEF Assembled, Remaining
<1>. QED BY <1>1, <1>2 DEF Assembled

LEMMA ReplacedLineage ==
  ASSUME NEW st \in Seq(Calls), st # <<>>, StackLineage(st),
         NEW call \in Calls, call.file = st[1].file, Assembled(call)
  PROVE  StackLineage(Replaced(st, call))
<1>1. PICK m \in Nat : m = Len(st) /\ m > 0
  OBVIOUS
<1>2. PICK new : new = Replaced(st, call)
  OBVIOUS
<1>3. /\ new \in Seq(Calls) /\ Len(new) = m /\ new[1] = call
      /\ \A n \in 2 .. m : new[n] = st[n]
  BY <1>1, <1>2 DEF Replaced
<1>4. ASSUME NEW n \in 2 .. m
      PROVE  Waits(new[n], new[n - 1].file)
  <2>1. Waits(st[n], st[n - 1].file)
    BY <1>1 DEF StackLineage
  <2>2. new[n - 1].file = st[n - 1].file
    <3>1. CASE n = 2
      BY <1>3, <3>1
    <3>2. CASE n # 2
      <4>1. n - 1 \in 2 .. m
        BY <3>2
      <4>. QED BY <1>3, <4>1
    <3>. QED BY <3>1, <3>2
  <2>. QED BY <1>3, <2>1, <2>2
<1>. QED BY <1>2, <1>3, <1>4 DEF StackLineage

\* The innermost call goes on.
LEMMA TopLineage ==
  ASSUME IInv, Lineage, pc = "up", NEW call \in Calls, Top(call), call.file = top.file,
         Assembled(call), DiskLineage(disk')
  PROVE  Lineage'
<1>1. stack \in Seq(Calls) /\ stack # <<>> /\ StackLineage(stack)
  BY TopFacts DEF Lineage
<1>2. PICK st : st = stack
  OBVIOUS
<1>3. StackLineage(Replaced(st, call))
  BY <1>1, <1>2, ReplacedLineage DEF top
<1>4. stack' = Replaced(st, call)
  BY <1>2 DEF Top, Replaced
<1>. QED BY <1>3, <1>4 DEF Lineage

LEMMA TopAssembled ==
  ASSUME IInv, Lineage, pc = "up"
  PROVE  Assembled(top) /\ top \in Calls /\ top.file \in Files
<1>1. top \in Calls /\ stack # <<>>
  BY TopFacts
<1>. QED BY <1>1 DEF Lineage, StackLineage, top, Calls

\* All calls are gone.
LEMMA NoLineage ==
  ASSUME stack' = <<>>, DiskLineage(disk')
  PROVE  Lineage'
<1>1. Len(stack') = 0 /\ 2 .. 0 = {}
  OBVIOUS
<1>2. StackLineage(stack')
  BY <1>1 DEF StackLineage
<1>. QED BY <1>2 DEF Lineage

\* What a call gets from a folder is all of its simulation.
LEMMA ReadLineage ==
  ASSUME IInv, Lineage, NEW folder, NEW c \in Latest(folder)
  PROVE  /\ c.file = FileOf(folder) /\ c.particles \in Seq(Groups) /\ IsPath(folder)
         /\ NamesOf(c.particles) = Origins(c.file)
<1>1. PICK i \in DOMAIN In(folder) : c = In(folder)[i]
  BY DEF Latest, Examined
<1>2. folder \in DOMAIN disk /\ In(folder) = disk[folder]
  BY <1>1 DEF In
<1>3. IsPath(folder) /\ Stored(c, folder, i, writers)
  BY <1>1, <1>2 DEF IInv, DiskOK
<1>4. NamesOf(c.particles) = Origins(c.file)
  BY <1>1, <1>2 DEF Lineage, DiskLineage
<1>. QED BY <1>3, <1>4 DEF Stored, AllEnd

-----------------------------------------------------------------------------
(***************************************************************************)
(* Nothing is lost or doubled: the steps of prepareParticles               *)
(***************************************************************************)

\* A new call is at the first sub simulation.
LEMMA NewAssembled ==
  ASSUME NEW file \in Files, NEW folder
  PROVE  Assembled(NewCall(file, folder))
<1>1. PICK call : call = NewCall(file, folder)
  OBVIOUS
<1>2. call.file = file /\ call.todo = Subs[file] /\ call.phase = "parsed"
  BY <1>1 DEF NewCall
<1>3. PICK L \in Nat : L = Len(Subs[file])
  BY SubsType
<1>4. DOMAIN Subs[file] = 1 .. L
  <2>1. Subs[file] \in Seq(Files)
    BY SubSimulationsAssumption
  <2>. QED BY <1>3, <2>1
<1>5. Done(call) = 0
  BY <1>2, <1>3 DEF Done
<1>6. Remaining(call)
  <2>1. \A k \in 1 .. L : 0 + k = k
    OBVIOUS
  <2>. QED BY <1>2, <1>3, <1>4, <1>5, <2>1 DEF Remaining
<1>. QED BY <1>1, <1>2, <1>5, <1>6 DEF Assembled

LEMMA StartLineage ==
  ASSUME Lineage, Start
  PROVE  Lineage'
<1>1. PICK call : call = NewCall(Main, <<Main>>)
  OBVIOUS
<1>2. Assembled(call)
  BY <1>1, NewAssembled, SubSimulationsAssumption
<1>3. stack' = <<call>> /\ disk' = disk
  BY <1>1 DEF Start
<1>4. PICK st : st = <<call>>
  OBVIOUS
<1>5. Len(st) = 1 /\ st[1] = call /\ 2 .. 1 = {}
  BY <1>4
<1>6. StackLineage(st)
  BY <1>2, <1>5 DEF StackLineage
<1>. QED BY <1>3, <1>4, <1>6 DEF Lineage

LEMMA HashLineage ==
  ASSUME IInv, Lineage, CalculateHash
  PROVE  Lineage'
<1>1. PICK call : call = [top EXCEPT !.hash = content[top.file], !.phase = "params"]
  OBVIOUS
<1>2. pc = "up" /\ top.phase = "parsed" /\ Top(call) /\ disk' = disk
  BY <1>1 DEF CalculateHash, Process
<1>3. Assembled(top) /\ top \in Calls /\ content[top.file] \in Versions
  BY <1>2, TopAssembled DEF IInv, Types
<1>4. /\ call \in Calls /\ call.phase = "params" /\ call.file = top.file
      /\ call.todo = top.todo /\ call.particles = top.particles
  BY <1>1, <1>3 DEF Calls, CallPhases
<1>5. Assembled(call)
  BY <1>2, <1>3, <1>4, StillAssembled
<1>. QED BY <1>2, <1>4, <1>5, TopLineage DEF Lineage

LEMMA SpawnLineage ==
  ASSUME IInv, Lineage, Spawn
  PROVE  Lineage'
<1>1. PICK leg, particles : leg = Leg(top) /\ particles = <<<<leg>>>>
  OBVIOUS
<1>2. PICK call : call = [top EXCEPT !.particles = particles, !.phase = "sources"]
  OBVIOUS
<1>3. pc = "up" /\ top.phase = "params" /\ Top(call) /\ disk' = disk
  BY <1>1, <1>2 DEF Spawn, Process
<1>4. Assembled(top) /\ top \in Calls /\ top.file \in Files
  BY <1>3, TopAssembled
<1>5. leg \in Legs /\ leg.file = top.file
  BY <1>1, <1>4 DEF Leg, Legs, Calls
<1>6. particles \in Seq(Groups)
  <2>1. PICK group : group = <<leg>>
    OBVIOUS
  <2>2. group \in Groups
    BY <1>5, <2>1 DEF Groups
  <2>. QED BY <1>1, <2>1, <2>2
<1>7. /\ call \in Calls /\ call.phase = "sources" /\ call.file = top.file
      /\ call.todo = top.todo /\ call.particles = particles
  BY <1>2, <1>4, <1>6 DEF Calls, CallPhases
<1>8. NamesOf(particles) = <<<<top.file>>>>
  BY <1>1, <1>5, FilesSpawned
<1>9. Done(call) = 0 /\ Remaining(call)
  BY <1>3, <1>4, <1>7 DEF Assembled, Done, Remaining
<1>10. OriginsWith[call.file][Done(call)] = <<<<top.file>>>>
  BY <1>4, <1>7, <1>9, OriginsGrow
<1>11. Assembled(call)
  BY <1>7, <1>8, <1>9, <1>10 DEF Assembled
<1>. QED BY <1>3, <1>7, <1>11, TopLineage DEF Lineage

LEMMA ContinueLineage ==
  ASSUME IInv, Lineage, Continue
  PROVE  Lineage'
<1>1. PICK c \in Latest(QuestionFolder) :
        Top([top EXCEPT !.particles = c.particles, !.start_iteration = c.iteration,
                        !.todo = <<>>, !.phase = "sources"])
  BY DEF Continue
<1>2. pc = "up" /\ disk' = disk
  BY DEF Continue, Process
<1>3. top \in Calls /\ top.file \in Files
  BY <1>2, TopAssembled
<1>4. /\ c.file = FileOf(QuestionFolder) /\ c.particles \in Seq(Groups)
      /\ IsPath(QuestionFolder) /\ NamesOf(c.particles) = Origins(c.file)
  BY ReadLineage
<1>5. c.file = top.file
  BY <1>2, <1>4, OnlyMain
<1>6. c.iteration \in Nat
  <2>1. PICK i \in 0 .. EndIteration : Stored(c, QuestionFolder, i, writers)
    BY ReadCheckpoint DEF IInv
  <2>. QED BY <2>1 DEF Stored, StoredCheckpoints
<1>7. PICK nothing, particles, iteration0 :
        nothing = <<>> /\ particles = c.particles /\ iteration0 = c.iteration
  OBVIOUS
<1>8. nothing \in Seq(Files) /\ particles \in Seq(Groups) /\ iteration0 \in Nat
      /\ Len(nothing) = 0 /\ DOMAIN nothing = {}
  BY <1>4, <1>6, <1>7
<1>9. PICK call : call = [top EXCEPT !.particles = particles, !.start_iteration = iteration0,
                                     !.todo = nothing, !.phase = "sources"]
  OBVIOUS
<1>10. Top(call)
  BY <1>1, <1>7, <1>9
<1>11. /\ call \in Calls /\ call.phase = "sources" /\ call.file = top.file
       /\ call.todo = nothing /\ call.particles = particles
  BY <1>3, <1>8, <1>9 DEF Calls, CallPhases
<1>12. Done(call) = Len(Subs[top.file]) /\ Remaining(call)
  <2>1. Len(Subs[top.file]) \in Nat
    BY <1>3, SubsType
  <2>2. Done(call) = Len(Subs[top.file])
    BY <1>8, <1>11, <2>1 DEF Done
  <2>3. Len(call.todo) <= Len(Subs[call.file])
    BY <1>8, <1>11, <2>1
  <2>. QED BY <1>8, <1>11, <2>2, <2>3 DEF Remaining
<1>13. NamesOf(call.particles) = OriginsWith[call.file][Done(call)]
  BY <1>4, <1>5, <1>7, <1>11, <1>12 DEF Origins
<1>14. Assembled(call)
  BY <1>11, <1>12, <1>13 DEF Assembled
<1>. QED BY <1>2, <1>10, <1>11, <1>14, TopLineage DEF Lineage

\* What loadCheckpointFile does to a call.
LEMMA LoadedCall ==
  ASSUME NEW call \in Calls, NEW c, NEW more \in Seq(Groups), c.particles = more,
         NEW n \in Nat, n + 1 <= Len(Subs[call.file]),
         NamesOf(call.particles) = OriginsWith[call.file][n],
         NamesOf(more) = Origins(Subs[call.file][n + 1])
  PROVE  /\ Load(call, c) \in Calls /\ Load(call, c).phase = call.phase
         /\ Load(call, c).file = call.file /\ Load(call, c).todo = call.todo
         /\ NamesOf(Load(call, c).particles) = OriginsWith[call.file][n + 1]
<1>1. PICK leg, file : leg = Leg(call) /\ file = call.file
  OBVIOUS
<1>2. leg \in Legs /\ leg.file = file /\ file \in Files
  BY <1>1 DEF Leg, Legs, Calls
<1>3. PICK groups \in Seq(Groups) : groups = call.particles
  BY DEF Calls
<1>4. PICK particles :
        particles = groups \o [k \in DOMAIN more |-> Append(more[k], leg)]
  OBVIOUS
<1>5. NamesOf(particles) = OriginsWith[file][n + 1]
  <2>1. /\ n + 1 <= Len(Subs[file]) /\ NamesOf(groups) = OriginsWith[file][n]
        /\ NamesOf(more) = Origins(Subs[file][n + 1])
    BY <1>1, <1>3
  <2>2. NamesOf(groups \o [k \in DOMAIN more |-> Append(more[k], leg)])
          = OriginsWith[file][n + 1]
    BY <1>2, <2>1, LoadAssembles
  <2>. QED BY <1>4, <2>2
<1>6. particles \in Seq(Groups)
  <2>1. PICK m \in Nat : m = Len(more) /\ DOMAIN more = 1 .. m
    OBVIOUS
  <2>2. \A k \in 1 .. m : Append(more[k], leg) \in Groups
    <3>1. \A k \in 1 .. m : more[k] \in Groups
      BY <2>1
    <3>. QED BY <1>2, <3>1, AppendLeg
  <2>3. PICK loaded : loaded = [k \in 1 .. m |-> Append(more[k], leg)]
    OBVIOUS
  <2>4. loaded \in [1 .. m -> Groups]
    BY <2>2, <2>3
  <2>5. loaded \in Seq(Groups)
    BY <2>4
  <2>. QED BY <1>4, <2>1, <2>3, <2>5
<1>7. Load(call, c) = [call EXCEPT !.particles = particles]
  BY <1>1, <1>3, <1>4 DEF Load
<1>8. PICK new : new = [call EXCEPT !.particles = particles]
  OBVIOUS
<1>9. /\ new \in Calls /\ new.phase = call.phase /\ new.file = call.file
      /\ new.todo = call.todo /\ new.particles = particles
  BY <1>6, <1>8 DEF Calls
<1>. QED BY <1>1, <1>5, <1>7, <1>8, <1>9

LEMMA UseCachedLineage ==
  ASSUME IInv, Lineage, UseCached
  PROVE  Lineage'
<1>1. PICK folder, file, todo :
        file = Head(top.todo) /\ folder = Append(top.folder, file) /\ todo = Tail(top.todo)
  OBVIOUS
<1>2. Process("sources") /\ top.todo # <<>> /\ disk' = disk
  BY DEF UseCached
<1>3. PICK c \in Latest(folder) : Top([Load(top, c) EXCEPT !.todo = Tail(@)])
  BY <1>1 DEF UseCached, Cached
<1>4. /\ pc = "up" /\ top.phase = "sources" /\ todo \in Seq(Files) /\ FileOf(folder) = file
  BY <1>1, <1>2, NextSub
<1>5. Assembled(top) /\ top \in Calls /\ top.file \in Files
  BY <1>4, TopAssembled
<1>6. /\ c.file = file /\ c.particles \in Seq(Groups)
      /\ NamesOf(c.particles) = Origins(file)
  BY <1>4, ReadLineage
<1>7. PICK n : n = Done(top)
  OBVIOUS
<1>8. \A new : new.file = top.file /\ new.todo = Tail(top.todo) =>
         /\ Remaining(new) /\ Done(new) = Done(top) + 1
         /\ Done(top) \in Nat /\ Done(top) + 1 <= Len(Subs[top.file])
         /\ Head(top.todo) = Subs[top.file][Done(top) + 1]
  <2>1. Remaining(top)
    BY <1>5 DEF Assembled
  <2>. QED BY <1>2, <1>5, <2>1, NextRemaining
<1>9. n \in Nat /\ n + 1 <= Len(Subs[top.file]) /\ file = Subs[top.file][n + 1]
  <2>1. PICK new : new = [file |-> top.file, todo |-> Tail(top.todo)]
    OBVIOUS
  <2>2. new.file = top.file /\ new.todo = Tail(top.todo)
    BY <2>1
  <2>. QED BY <1>1, <1>7, <1>8, <2>2
<1>10. PICK loaded : loaded = Load(top, c)
  OBVIOUS
<1>11. /\ loaded \in Calls /\ loaded.phase = "sources" /\ loaded.file = top.file
       /\ loaded.todo = top.todo
       /\ NamesOf(loaded.particles) = OriginsWith[top.file][n + 1]
  <2>1. PICK more \in Seq(Groups) : more = c.particles
    BY <1>6
  <2>2. NamesOf(top.particles) = OriginsWith[top.file][n]
    BY <1>4, <1>5, <1>7 DEF Assembled
  <2>3. NamesOf(more) = Origins(Subs[top.file][n + 1])
    BY <1>6, <1>9, <2>1
  <2>. QED BY <1>4, <1>5, <1>9, <1>10, <2>1, <2>2, <2>3, LoadedCall
<1>12. PICK call : call = [loaded EXCEPT !.todo = todo]
  OBVIOUS
<1>13. Top(call)
  <2>1. [loaded EXCEPT !.todo = Tail(@)] = [loaded EXCEPT !.todo = Tail(loaded.todo)]
    BY <1>11 DEF Calls
  <2>. QED BY <1>1, <1>3, <1>10, <1>11, <1>12, <2>1
<1>14. /\ call \in Calls /\ call.phase = "sources" /\ call.file = top.file
       /\ call.todo = todo /\ call.particles = loaded.particles
  BY <1>4, <1>11, <1>12 DEF Calls
<1>15. Remaining(call) /\ Done(call) = n + 1
  BY <1>1, <1>7, <1>8, <1>14
<1>16. Assembled(call)
  BY <1>11, <1>14, <1>15 DEF Assembled
<1>. QED BY <1>2, <1>4, <1>13, <1>14, <1>16, TopLineage DEF Lineage

\* The recursive call, in front of the one that waits for it.
LEMMA PushedLineage ==
  ASSUME NEW st \in Seq(Calls), st # <<>>, StackLineage(st),
         NEW waiting \in Calls, NEW call \in Calls, Assembled(call),
         Waits(waiting, call.file), waiting.file = st[1].file
  PROVE  StackLineage(<<call>> \o Replaced(st, waiting))
<1>1. PICK m \in Nat : m = Len(st) /\ m > 0
  OBVIOUS
<1>2. PICK rest : rest = Replaced(st, waiting)
  OBVIOUS
<1>3. /\ rest \in Seq(Calls) /\ Len(rest) = m /\ rest[1] = waiting
      /\ \A n \in 2 .. m : rest[n] = st[n]
  BY <1>1, <1>2 DEF Replaced
<1>4. PICK new : new = <<call>> \o rest
  OBVIOUS
<1>5. /\ new # <<>> /\ Len(new) = m + 1 /\ new[1] = call
      /\ \A n \in 2 .. m + 1 : new[n] = rest[n - 1]
  BY <1>1, <1>3, <1>4
<1>6. ASSUME NEW n \in 2 .. m + 1
      PROVE  Waits(new[n], new[n - 1].file)
  <2>1. CASE n = 2
    BY <1>3, <1>5, <2>1
  <2>2. CASE n # 2
    <3>1. PICK l \in 2 .. m : l = n - 1
      BY <2>2
    <3>2. Waits(st[l], st[l - 1].file)
      BY <1>1, <3>1 DEF StackLineage
    <3>3. new[n] = st[l]
      BY <1>3, <1>5, <3>1
    <3>4. new[n - 1] = rest[l - 1]
      <4>1. n - 1 \in 2 .. m + 1 /\ (n - 1) - 1 = l - 1
        BY <3>1
      <4>. QED BY <1>5, <4>1
    <3>5. rest[l - 1].file = st[l - 1].file
      <4>1. CASE l = 2
        BY <1>3, <4>1
      <4>2. CASE l # 2
        <5>1. l - 1 \in 2 .. m
          BY <4>2
        <5>. QED BY <1>3, <5>1
      <4>. QED BY <4>1, <4>2
    <3>. QED BY <3>2, <3>3, <3>4, <3>5
  <2>. QED BY <2>1, <2>2
<1>. QED BY <1>2, <1>4, <1>5, <1>6 DEF StackLineage

LEMMA StartSubLineage ==
  ASSUME IInv, Lineage, StartSubSimulation
  PROVE  Lineage'
<1>1. PICK folder, file, todo :
        file = Head(top.todo) /\ folder = Append(top.folder, file) /\ todo = Tail(top.todo)
  OBVIOUS
<1>2. Process("sources") /\ top.todo # <<>> /\ disk' = disk
  BY DEF StartSubSimulation
<1>3. /\ pc = "up" /\ top.phase = "sources" /\ todo \in Seq(Files) /\ FileOf(folder) = file
      /\ file \in Files /\ IsPath(folder)
  BY <1>1, <1>2, NextSub
<1>4. Assembled(top) /\ top \in Calls /\ top.file \in Files
  BY <1>3, TopAssembled
<1>5. PICK waiting : waiting = [top EXCEPT !.todo = todo]
  OBVIOUS
<1>6. /\ waiting \in Calls /\ waiting.file = top.file /\ waiting.todo = todo
      /\ waiting.particles = top.particles
  BY <1>3, <1>4, <1>5 DEF Calls
<1>7. /\ Remaining(waiting) /\ Done(waiting) = Done(top) + 1 /\ Done(top) \in Nat
      /\ file = Subs[top.file][Done(top) + 1]
  <2>1. Remaining(top)
    BY <1>4 DEF Assembled
  <2>. QED BY <1>1, <1>2, <1>4, <1>6, <2>1, NextRemaining
<1>8. Waits(waiting, file)
  <2>1. NamesOf(waiting.particles) = OriginsWith[top.file][Done(top)]
    BY <1>3, <1>4, <1>6 DEF Assembled
  <2>2. Done(waiting) - 1 = Done(top) /\ Done(waiting) > 0
    BY <1>7
  <2>. QED BY <1>6, <1>7, <2>1, <2>2 DEF Waits
<1>9. PICK call : call = NewCall(file, folder)
  OBVIOUS
<1>10. call \in Calls /\ call.file = file /\ Assembled(call)
  BY <1>3, <1>9, NewCallOK, NewAssembled DEF CallOK
<1>11. stack \in Seq(Calls) /\ stack # <<>> /\ StackLineage(stack)
  BY <1>3, TopFacts DEF Lineage
<1>12. PICK st : st = stack
  OBVIOUS
<1>13. StackLineage(<<call>> \o Replaced(st, waiting))
  <2>1. Waits(waiting, call.file) /\ waiting.file = st[1].file
    BY <1>6, <1>8, <1>10, <1>12 DEF top
  <2>2. st \in Seq(Calls) /\ st # <<>> /\ StackLineage(st)
    BY <1>11, <1>12
  <2>. QED BY <1>6, <1>10, <2>1, <2>2, PushedLineage
<1>14. stack' = <<call>> \o Replaced(st, waiting)
  <2>1. [stack EXCEPT ![1].todo = Tail(@)] = [stack EXCEPT ![1] = [stack[1] EXCEPT !.todo = Tail(stack[1].todo)]]
    BY <1>4, <1>11 DEF top, Calls
  <2>. QED BY <1>1, <1>5, <1>9, <1>12, <2>1 DEF StartSubSimulation, Replaced, top
<1>. QED BY <1>2, <1>13, <1>14 DEF Lineage

-----------------------------------------------------------------------------
(***************************************************************************)
(* Nothing is lost or doubled: the steps of the innermost simulation       *)
(***************************************************************************)

\* It goes on with the same particles.
LEMMA SimulationLineage ==
  ASSUME IInv, Lineage, pc = "up", NEW call \in Calls, Top(call),
         call.file = top.file, call.todo = top.todo,
         NamesOf(call.particles) = NamesOf(top.particles),
         call.phase \notin {"parsed", "params", "sources"},
         top.phase \notin {"parsed", "params", "sources"}, DiskLineage(disk')
  PROVE  Lineage'
<1>1. Assembled(top)
  BY TopAssembled
<1>2. Assembled(call)
  BY <1>1, StillAssembled
<1>. QED BY <1>2, TopLineage

LEMMA StartSimulationLineage ==
  ASSUME IInv, Lineage, StartSimulation
  PROVE  Lineage'
<1>1. PICK call : call =
        [top EXCEPT !.iteration = top.start_iteration,
                    !.phase = IF top.file \in writers THEN "starting" ELSE "loop"]
  OBVIOUS
<1>2. pc = "up" /\ top.phase = "sources" /\ top.todo = <<>> /\ Top(call) /\ disk' = disk
  BY <1>1 DEF StartSimulation, Process
<1>3. Assembled(top) /\ top \in Calls /\ top.file \in Files
  BY <1>2, TopAssembled
<1>4. /\ call \in Calls
      /\ call.phase = (IF top.file \in writers THEN "starting" ELSE "loop")
      /\ call.file = top.file /\ call.todo = top.todo /\ call.particles = top.particles
  BY <1>1, <1>3 DEF Calls, CallPhases
<1>5. Done(top) = Len(Subs[top.file])
  <2>1. Len(Subs[top.file]) \in Nat
    BY <1>3, SubsType
  <2>2. Len(top.todo) = 0
    BY <1>2
  <2>. QED BY <2>1, <2>2 DEF Done
<1>6. NamesOf(top.particles) = Origins(top.file)
  BY <1>2, <1>3, <1>5 DEF Assembled, Origins
<1>7. Done(call) = Done(top) /\ Remaining(call)
  BY <1>3, <1>4 DEF Assembled, Done, Remaining
<1>8. Assembled(call)
  BY <1>4, <1>6, <1>7 DEF Assembled
<1>. QED BY <1>2, <1>4, <1>8, TopLineage DEF Lineage

LEMMA SkipLineage ==
  ASSUME IInv, Lineage, SkipFirstFile
  PROVE  Lineage'
<1>1. PICK call : call = [top EXCEPT !.phase = "loop"]
  OBVIOUS
<1>2. pc = "up" /\ top.phase = "starting" /\ Top(call) /\ disk' = disk
  BY <1>1 DEF SkipFirstFile, Process
<1>3. top \in Calls
  BY <1>2, TopAssembled
<1>4. /\ call \in Calls /\ call.phase = "loop" /\ call.file = top.file
      /\ call.todo = top.todo /\ call.particles = top.particles
  BY <1>1, <1>3 DEF Calls, CallPhases
<1>. QED BY <1>2, <1>4, SimulationLineage DEF Lineage

LEMMA StepLineage ==
  ASSUME IInv, Lineage, Step
  PROVE  Lineage'
<1>1. PICK groups : groups = top.particles
  OBVIOUS
<1>2. PICK particles, phase :
        /\ particles = [k \in DOMAIN groups |-> Moved(groups[k])]
        /\ phase = (IF top.file \in writers THEN "notifying" ELSE "loop")
  OBVIOUS
<1>3. PICK call : call =
        [top EXCEPT !.iteration = top.iteration + 1, !.particles = particles, !.phase = phase]
  OBVIOUS
<1>4. pc = "up" /\ top.phase = "loop" /\ disk' = disk
  BY DEF Step, Process
<1>5. top \in Calls /\ CallOK(top, writers) /\ top.iteration \in Nat
  BY <1>4, TopFacts DEF Calls
<1>6. Top(call)
  BY <1>1, <1>2, <1>3, <1>5 DEF Step, Calls
<1>7. groups \in Seq(Groups) /\ AllEnd(groups, top.file, top.iteration, writers)
  BY <1>1, <1>4, <1>5 DEF CallOK, Calls
<1>8. NamesOf(particles) = NamesOf(groups)
  BY <1>2, <1>7, NamesMoved
<1>9. particles \in Seq(Groups)
  <2>1. PICK file, n : file = top.file /\ n = top.iteration
    OBVIOUS
  <2>2. AllEnd(groups, file, n, writers) /\ n \in Nat
    BY <1>5, <1>7, <2>1
  <2>3. PICK W : W = writers
    OBVIOUS
  <2>4. AllEnd([k \in DOMAIN groups |-> Moved(groups[k])], file, n + 1, W)
    BY <2>2, <2>3, MovedEnd
  <2>. QED BY <1>2, <2>4 DEF AllEnd
<1>10. phase \in CallPhases /\ phase \notin {"parsed", "params", "sources"}
  BY <1>2 DEF CallPhases
<1>11. top.iteration + 1 \in Nat
  BY <1>5
<1>12. /\ call \in Calls /\ call.phase = phase /\ call.file = top.file
       /\ call.todo = top.todo /\ call.particles = particles
  BY <1>3, <1>5, <1>9, <1>10, <1>11 DEF Calls
<1>. QED BY <1>1, <1>4, <1>6, <1>8, <1>10, <1>12, SimulationLineage DEF Lineage

LEMMA RemoveLineage ==
  ASSUME Lineage, RemoveFile
  PROVE  Lineage'
<1>1. PICK i \in Stale :
        disk' = With(top.folder, Restrict(In(top.folder), DOMAIN In(top.folder) \ {i}))
  BY DEF RemoveFile, OutputFolder
<1>2. PICK folder, old, new :
        /\ folder = top.folder /\ old = In(folder)
        /\ new = Restrict(old, DOMAIN old \ {i})
  OBVIOUS
<1>3. folder \in DOMAIN disk /\ old = disk[folder]
  BY <1>1, <1>2 DEF Stale, In, OutputFolder
<1>4. DOMAIN new \subseteq DOMAIN old /\ \A j \in DOMAIN new : new[j] = old[j]
  BY <1>2 DEF Restrict
<1>5. /\ DOMAIN disk' = DOMAIN disk /\ disk'[folder] = new
      /\ \A g \in DOMAIN disk : g # folder => disk'[g] = disk[g]
  <2>1. disk' = With(folder, new)
    BY <1>1, <1>2
  <2>. QED BY <1>3, <2>1, WithFolders
<1>6. ASSUME NEW g \in DOMAIN disk', NEW j \in DOMAIN disk'[g]
      PROVE  NamesOf(disk'[g][j].particles) = Origins(disk'[g][j].file)
  <2>1. j \in DOMAIN disk[g] /\ disk'[g][j] = disk[g][j] /\ g \in DOMAIN disk
    <3>1. CASE g = folder
      BY <1>3, <1>4, <1>5, <1>6, <3>1
    <3>2. CASE g # folder
      BY <1>5, <1>6, <3>2
    <3>. QED BY <3>1, <3>2
  <2>. QED BY <2>1 DEF Lineage, DiskLineage
<1>7. stack' = stack
  BY DEF RemoveFile
<1>. QED BY <1>6, <1>7 DEF Lineage, DiskLineage

\* What is written is the simulation that runs.
LEMMA WriteLineage ==
  ASSUME IInv, Lineage, pc = "up", NEW complete \in BOOLEAN, disk' = Write(complete),
         top.phase \notin {"parsed", "params", "sources"}
  PROVE  DiskLineage(disk')
<1>1. Assembled(top)
  BY TopAssembled
<1>2. NamesOf(top.particles) = Origins(top.file)
  BY <1>1 DEF Assembled
<1>3. PICK c : c = Checkpoint(complete)
  OBVIOUS
<1>4. NamesOf(c.particles) = Origins(c.file)
  BY <1>2, <1>3 DEF Checkpoint
<1>5. PICK folder, old, n, new :
        /\ folder = top.folder /\ old = In(folder) /\ n = top.iteration
        /\ new = [i \in DOMAIN old \cup {n} |-> IF i = n THEN c ELSE old[i]]
  OBVIOUS
<1>6. disk' = With(folder, new)
  BY <1>3, <1>5 DEF Write, OutputFolder
<1>7. /\ DOMAIN disk' = DOMAIN disk \cup {folder} /\ disk'[folder] = new
      /\ \A g \in DOMAIN disk : g # folder => disk'[g] = disk[g]
  BY <1>6, WithFolders
<1>8. /\ DOMAIN new = DOMAIN old \cup {n} /\ new[n] = c
      /\ \A i \in DOMAIN old : i # n => new[i] = old[i]
  BY <1>5
<1>9. ASSUME NEW i \in DOMAIN new
      PROVE  NamesOf(new[i].particles) = Origins(new[i].file)
  <2>1. CASE i = n
    BY <1>4, <1>8, <2>1
  <2>2. CASE i # n
    <3>1. i \in DOMAIN old /\ new[i] = old[i]
      BY <1>8, <2>2
    <3>2. folder \in DOMAIN disk /\ old = disk[folder]
      BY <1>5, <3>1 DEF In
    <3>. QED BY <3>1, <3>2 DEF Lineage, DiskLineage
  <2>. QED BY <2>1, <2>2
<1>10. ASSUME NEW g \in DOMAIN disk', NEW i \in DOMAIN disk'[g]
       PROVE  NamesOf(disk'[g][i].particles) = Origins(disk'[g][i].file)
  <2>1. CASE g = folder
    BY <1>7, <1>9, <1>10, <2>1
  <2>2. CASE g # folder
    <3>1. g \in DOMAIN disk /\ disk'[g] = disk[g]
      BY <1>7, <2>2
    <3>. QED BY <1>10, <3>1 DEF Lineage, DiskLineage
  <2>. QED BY <2>1, <2>2
<1>. QED BY <1>10 DEF DiskLineage

LEMMA OpenLineage ==
  ASSUME IInv, Lineage, OpenFile
  PROVE  Lineage'
<1>1. PICK call : call = [top EXCEPT !.open = TRUE]
  OBVIOUS
<1>2. pc = "up" /\ top.phase \in {"starting", "notifying", "ending", "result"}
  BY OpensFree DEF OpenFile
<1>3. top \in Calls
  BY <1>2, TopAssembled
<1>4. Top(call) /\ disk' = Write(FALSE)
  BY <1>1 DEF OpenFile
<1>5. /\ call \in Calls /\ call.phase = top.phase /\ call.file = top.file
      /\ call.todo = top.todo /\ call.particles = top.particles
  BY <1>1, <1>3 DEF Calls
<1>6. top.phase \notin {"parsed", "params", "sources"}
  BY <1>2
<1>7. DiskLineage(disk')
  BY <1>2, <1>4, <1>6, WriteLineage
<1>. QED BY <1>2, <1>4, <1>5, <1>6, <1>7, SimulationLineage

LEMMA CloseLineage ==
  ASSUME IInv, Lineage, CloseFile
  PROVE  Lineage'
<1>1. PICK call : call = [top EXCEPT !.open = FALSE, !.phase = "loop"]
  OBVIOUS
<1>2. /\ pc = "up" /\ top.phase \in {"starting", "notifying"}
      /\ Top(call) /\ disk' = Write(TRUE)
  BY <1>1 DEF CloseFile
<1>3. top \in Calls
  BY <1>2, TopAssembled
<1>4. /\ call \in Calls /\ call.phase = "loop" /\ call.file = top.file
      /\ call.todo = top.todo /\ call.particles = top.particles
  BY <1>1, <1>3 DEF Calls, CallPhases
<1>5. top.phase \notin {"parsed", "params", "sources"}
  BY <1>2
<1>6. DiskLineage(disk')
  BY <1>2, <1>5, WriteLineage
<1>. QED BY <1>2, <1>4, <1>5, <1>6, SimulationLineage

LEMMA ReturnLineage ==
  ASSUME IInv, Lineage, pc = "up", Return, top.phase \in {"loop", "ending"}, DiskLineage(disk')
  PROVE  Lineage'
<1>1. CASE ~IsSub
  BY <1>1, NoLineage DEF Return
<1>2. CASE IsSub
  <2>1. PICK call : call = [top EXCEPT !.open = FALSE, !.phase = "result"]
    OBVIOUS
  <2>2. Top(call)
    BY <1>2, <2>1 DEF Return
  <2>3. top \in Calls
    BY TopAssembled
  <2>4. /\ call \in Calls /\ call.phase = "result" /\ call.file = top.file
        /\ call.todo = top.todo /\ call.particles = top.particles
    BY <2>1, <2>3 DEF Calls, CallPhases
  <2>. QED BY <2>2, <2>4, SimulationLineage
<1>. QED BY <1>1, <1>2

LEMMA LeaveLineage ==
  ASSUME IInv, Lineage, LeaveLoop
  PROVE  Lineage'
<1>1. pc = "up" /\ top.phase = "loop" /\ disk' = disk /\ DiskLineage(disk')
  BY DEF LeaveLoop, Process, Lineage
<1>2. top \in Calls
  BY <1>1, TopAssembled
<1>3. ASSUME Top([top EXCEPT !.phase = "ending"]) PROVE Lineage'
  <2>1. PICK call : call = [top EXCEPT !.phase = "ending"]
    OBVIOUS
  <2>2. /\ call \in Calls /\ call.phase = "ending" /\ call.file = top.file
        /\ call.todo = top.todo /\ call.particles = top.particles
    BY <1>2, <2>1 DEF Calls, CallPhases
  <2>3. Top(call)
    BY <1>3, <2>1
  <2>. QED BY <1>1, <2>2, <2>3, SimulationLineage
<1>4. ASSUME Return PROVE Lineage'
  BY <1>1, <1>4, ReturnLineage
<1>. QED BY <1>3, <1>4 DEF LeaveLoop

LEMMA CloseLastLineage ==
  ASSUME IInv, Lineage, CloseLastFile
  PROVE  Lineage'
<1>1. pc = "up" /\ top.phase = "ending" /\ disk' = Write(TRUE) /\ Return
  BY DEF CloseLastFile
<1>2. DiskLineage(disk')
  BY <1>1, WriteLineage
<1>. QED BY <1>1, <1>2, ReturnLineage

\* The caller of the innermost call is the innermost one again.
LEMMA PoppedLineage ==
  ASSUME NEW st \in Seq(Calls), Len(st) > 1, StackLineage(st),
         NEW call \in Calls, Assembled(call), call.file = st[2].file
  PROVE  StackLineage(<<call>> \o SubSeq(st, 3, Len(st)))
<1>1. PICK m \in Nat : m = Len(st) /\ m > 1
  OBVIOUS
<1>2. PICK rest : rest = SubSeq(st, 3, m)
  OBVIOUS
<1>3. /\ rest \in Seq(Calls) /\ Len(rest) = m - 2
      /\ \A n \in 1 .. m - 2 : rest[n] = st[n + 2]
  <2>1. CASE m = 2
    <3>1. rest = <<>>
      BY <1>1, <1>2, <2>1
    <3>. QED BY <2>1, <3>1
  <2>2. CASE m > 2
    <3>1. rest \in Seq(Calls) /\ Len(rest) = m - 2
      BY <1>1, <1>2, <2>2
    <3>2. ASSUME NEW n \in 1 .. m - 2 PROVE rest[n] = st[n + 2]
      BY <1>1, <1>2, <2>2
    <3>. QED BY <3>1, <3>2
  <2>. QED BY <1>1, <2>1, <2>2
<1>4. PICK new : new = <<call>> \o rest
  OBVIOUS
<1>5. /\ new # <<>> /\ Len(new) = m - 1 /\ new[1] = call
      /\ \A n \in 2 .. m - 1 : new[n] = st[n + 1]
  <2>1. new \in Seq(Calls) /\ Len(new) = 1 + (m - 2) /\ new[1] = call
    BY <1>1, <1>3, <1>4
  <2>2. ASSUME NEW n \in 2 .. m - 1 PROVE new[n] = st[n + 1]
    <3>1. new[n] = rest[n - 1]
      BY <1>1, <1>3, <1>4
    <3>2. n - 1 \in 1 .. m - 2 /\ (n - 1) + 2 = n + 1
      BY <1>1
    <3>. QED BY <1>3, <3>1, <3>2
  <2>. QED BY <1>1, <2>1, <2>2
<1>6. ASSUME NEW n \in 2 .. m - 1
      PROVE  Waits(new[n], new[n - 1].file)
  <2>1. Waits(st[n + 1], st[(n + 1) - 1].file)
    <3>1. n + 1 \in 2 .. Len(st)
      BY <1>1
    <3>. QED BY <3>1 DEF StackLineage
  <2>2. st[(n + 1) - 1].file = new[n - 1].file
    <3>1. (n + 1) - 1 = n
      OBVIOUS
    <3>2. CASE n = 2
      BY <1>5, <3>1, <3>2
    <3>3. CASE n # 2
      <4>1. n - 1 \in 2 .. m - 1 /\ (n - 1) + 1 = n
        BY <3>3
      <4>. QED BY <1>5, <3>1, <4>1
    <3>. QED BY <3>2, <3>3
  <2>. QED BY <1>5, <2>1, <2>2
<1>. QED BY <1>1, <1>2, <1>4, <1>5, <1>6 DEF StackLineage

LEMMA LoadLineage ==
  ASSUME IInv, Lineage, LoadResult
  PROVE  Lineage'
<1>1. pc = "up" /\ top.phase = "result" /\ disk' = Write(TRUE)
  BY DEF LoadResult
<1>2. /\ stack \in Seq(Calls) /\ Len(stack) \in Nat \ {0}
      /\ ~IsSub => top.phase # "result"
  BY <1>1, TopFacts
<1>3. Len(stack) > 1
  BY <1>1, <1>2 DEF IsSub
<1>4. Assembled(top) /\ top \in Calls
  BY <1>1, TopAssembled
<1>5. DiskLineage(disk')
  BY <1>1, WriteLineage
<1>6. PICK st : st = stack
  OBVIOUS
<1>7. PICK caller : caller = st[2]
  OBVIOUS
<1>8. caller \in Calls /\ caller.phase = "sources" /\ Waits(caller, top.file)
  <2>1. 2 \in 2 .. Len(stack) /\ 2 \in DOMAIN stack
    BY <1>2, <1>3
  <2>2. Waits(stack[2], stack[2 - 1].file)
    BY <2>1 DEF Lineage, StackLineage
  <2>3. stack[2] \in Calls /\ stack[2].phase = "sources"
    <3>1. StackOK(stack, writers)
      BY <1>1, TopFacts
    <3>. QED BY <1>2, <2>1, <3>1 DEF StackOK
  <2>. QED BY <1>6, <1>7, <2>2, <2>3 DEF top
<1>9. PICK c, more : c = Checkpoint(TRUE) /\ more = top.particles
  OBVIOUS
<1>10. /\ more \in Seq(Groups) /\ c.particles = more /\ NamesOf(more) = Origins(top.file)
  BY <1>1, <1>4, <1>9 DEF Checkpoint, Calls, Assembled
<1>11. PICK L \in Nat : L = Len(Subs[caller.file])
  <2>1. caller.file \in Files
    BY <1>8 DEF Calls
  <2>. QED BY <2>1, SubsType
<1>12. PICK m \in Nat : m = Len(caller.todo)
  <2>1. caller.todo \in Seq(Files)
    BY <1>8 DEF Calls
  <2>. QED BY <2>1
<1>13. PICK n \in Nat : n + 1 = Done(caller) /\ Done(caller) - 1 = n /\ n + 1 <= L
  <2>1. Done(caller) = L - m /\ m <= L /\ L - m > 0
    BY <1>8, <1>11, <1>12 DEF Waits, Remaining, Done
  <2>2. (L - m) - 1 \in Nat /\ ((L - m) - 1) + 1 = L - m /\ L - m <= L
    BY <2>1
  <2>. QED BY <2>1, <2>2
<1>14. PICK call : call = Load(caller, c)
  OBVIOUS
<1>15. /\ call \in Calls /\ call.phase = "sources" /\ call.file = caller.file
       /\ call.todo = caller.todo
       /\ NamesOf(call.particles) = OriginsWith[caller.file][n + 1]
  <2>1. /\ NamesOf(caller.particles) = OriginsWith[caller.file][n]
        /\ NamesOf(more) = Origins(Subs[caller.file][n + 1])
        /\ n + 1 <= Len(Subs[caller.file])
    BY <1>8, <1>10, <1>11, <1>13 DEF Waits
  <2>. QED BY <1>8, <1>10, <1>14, <2>1, LoadedCall
<1>16. Assembled(call)
  <2>1. Done(call) = n + 1
    BY <1>13, <1>15 DEF Done
  <2>2. Remaining(call)
    BY <1>8, <1>15 DEF Waits, Remaining, Done
  <2>. QED BY <1>15, <2>1, <2>2 DEF Assembled
<1>17. StackLineage(<<call>> \o SubSeq(st, 3, Len(st)))
  <2>1. StackLineage(st) /\ st \in Seq(Calls) /\ Len(st) > 1
    BY <1>2, <1>3, <1>6 DEF Lineage
  <2>. QED BY <1>7, <1>15, <1>16, <2>1, PoppedLineage
<1>18. stack' = <<call>> \o SubSeq(st, 3, Len(st))
  BY <1>6, <1>7, <1>9, <1>14 DEF LoadResult
<1>. QED BY <1>5, <1>17, <1>18 DEF Lineage

-----------------------------------------------------------------------------
(***************************************************************************)
(* Nothing is lost or doubled: the theorem                                 *)
(***************************************************************************)

LEMMA NextLineage ==
  ASSUME IInv, Lineage, [Next]_vars
  PROVE  Lineage'
<1>1. CASE UNCHANGED vars
  BY <1>1 DEF vars, Lineage
<1>2. CASE Start
  BY <1>2, StartLineage
<1>3. CASE ProcessStep
  <2>1. CASE CalculateHash
    BY <2>1, HashLineage
  <2>2. CASE Continue
    BY <2>2, ContinueLineage
  <2>3. CASE Spawn
    BY <2>3, SpawnLineage
  <2>4. CASE CheckpointThrows
    BY <2>4, NoLineage DEF CheckpointThrows, Fail, Lineage
  <2>5. CASE UseCached
    BY <2>5, UseCachedLineage
  <2>6. CASE StartSubSimulation
    BY <2>6, StartSubLineage
  <2>7. CASE StartSimulation
    BY <2>7, StartSimulationLineage
  <2>8. CASE RemoveFile
    BY <2>8, RemoveLineage
  <2>9. CASE SkipFirstFile
    BY <2>9, SkipLineage
  <2>10. CASE OpenFile
    BY <2>10, OpenLineage
  <2>11. CASE CloseFile
    BY <2>11, CloseLineage
  <2>12. CASE Step
    BY <2>12, StepLineage
  <2>13. CASE LeaveLoop
    BY <2>13, LeaveLineage
  <2>14. CASE CloseLastFile
    BY <2>14, CloseLastLineage
  <2>15. CASE LoadResult
    BY <2>15, LoadLineage
  <2>. QED
    BY <1>3, <2>1, <2>2, <2>3, <2>4, <2>5, <2>6, <2>7, <2>8, <2>9, <2>10, <2>11, <2>12,
       <2>13, <2>14, <2>15 DEF ProcessStep
<1>4. CASE Crash
  BY <1>4, NoLineage DEF Crash, Lineage
<1>5. CASE EditFile
  BY <1>5 DEF EditFile, Lineage
<1>6. CASE Over
  BY <1>1, <1>6 DEF Over
<1>. QED BY <1>1, <1>2, <1>3, <1>4, <1>5, <1>6 DEF Next

LEMMA InitialLineage ==
  ASSUME Init
  PROVE  Lineage
<1>1. disk = <<>> /\ stack = <<>>
  BY DEF Init
<1>2. DOMAIN disk = {}
  BY <1>1
<1>3. Len(stack) = 0 /\ 2 .. 0 = {}
  BY <1>1
<1>. QED BY <1>1, <1>2, <1>3 DEF Lineage, DiskLineage, StackLineage

\* The particles of every stored checkpoint and of every call come from the
\* simulations its file names, up to the sub simulation it is at.
THEOREM LineageAlways == Spec => []Lineage
<1>1. Init => Lineage
  BY InitialLineage
<1>2. IInv /\ Lineage /\ [Next]_vars => Lineage'
  BY NextLineage
<1>. QED BY <1>1, <1>2, Invariance, PTL DEF Spec

LEMMA NothingIfLineage ==
  ASSUME IInv, Lineage
  PROVE  NothingLostOrDoubled
<1>1. ASSUME NEW folder \in DOMAIN disk, NEW c \in Range(In(folder))
      PROVE  NamesOf(c.particles) = Origins(c.file)
  <2>1. PICK i \in DOMAIN disk[folder] : c = disk[folder][i]
    BY <1>1 DEF Range, In
  <2>. QED BY <2>1 DEF Lineage, DiskLineage
<1>2. ASSUME NEW call \in Range(stack), call.phase \notin {"parsed", "params", "sources"}
      PROVE  NamesOf(call.particles) = Origins(call.file)
  <2>1. PICK n \in DOMAIN stack : call = stack[n]
    BY <1>2 DEF Range
  <2>2. StackOK(stack, writers)
    BY DEF IInv
  <2>3. n = 1
    <3>1. ~(n > 1)
      BY <1>2, <2>1, <2>2 DEF StackOK
    <3>2. stack \in Seq(Calls)
      BY <2>2 DEF StackOK
    <3>. QED BY <2>1, <3>1, <3>2
  <2>4. stack # <<>>
    BY <2>1
  <2>5. Assembled(call)
    BY <2>1, <2>3, <2>4 DEF Lineage, StackLineage
  <2>. QED BY <1>2, <2>5 DEF Assembled
<1>3. ASSUME NEW one \in Simulations PROVE NamesOf(one.particles) = Origins(one.file)
  <2>1. \/ one \in UNION {{c \in Range(In(folder)) : c.complete} : folder \in DOMAIN disk}
        \/ one \in {call \in Range(stack) : call.phase \notin {"parsed", "params", "sources"}}
    BY <1>3, Zenon DEF Simulations
  <2>2. ASSUME one \in UNION {{c \in Range(In(folder)) : c.complete} : folder \in DOMAIN disk}
        PROVE  NamesOf(one.particles) = Origins(one.file)
    <3>1. PICK folder \in DOMAIN disk : one \in {c \in Range(In(folder)) : c.complete}
      BY <2>2, Zenon
    <3>. QED BY <1>1, <3>1, Zenon
  <2>3. ASSUME one \in {call \in Range(stack) : call.phase \notin {"parsed", "params", "sources"}}
        PROVE  NamesOf(one.particles) = Origins(one.file)
    BY <1>2, <2>3, Zenon
  <2>. QED BY <2>1, <2>2, <2>3, Zenon
<1>. QED BY <1>3 DEF NothingLostOrDoubled, NamesOf, FilesOf

\* Every simulation consists of exactly what its input files say, in their order:
\* whether its sub simulations have been run, cached or continued with it.
THEOREM EverythingOnce == Spec => []NothingLostOrDoubled
<1>1. IInv /\ Lineage => NothingLostOrDoubled
  BY NothingIfLineage
<1>. QED BY <1>1, Invariance, LineageAlways, PTL

-----------------------------------------------------------------------------
(***************************************************************************)
(* Torn checkpoints                                                        *)
(***************************************************************************)

Torn == \E folder \in DOMAIN disk : \E i \in DOMAIN In(folder) : ~In(folder)[i].complete

LEMMA ThrowsIfTorn ==
  ASSUME NEW folder, Throws(folder)
  PROVE  Torn
<1>1. PICK i \in DOMAIN In(folder) : ~In(folder)[i].complete
  BY DEF Throws, Examined
<1>2. folder \in DOMAIN disk
  BY <1>1 DEF In
<1>. QED BY <1>1, <1>2 DEF Torn

\* readFile: the program ends with an error only while an incomplete checkpoint lies in
\* some folder, in whatever order the user edits, crashes and starts.
THEOREM FailsOnlyIfTorn == Spec => [](pc = "failed" => Torn)
<1>1. Init => (pc = "failed" => Torn)
  BY DEF Init
<1>2. (pc = "failed" => Torn) /\ [Next]_vars => (pc = "failed" => Torn)'
  <2>. SUFFICES ASSUME pc = "failed" => Torn, [Next]_vars, pc' = "failed" PROVE Torn'
    OBVIOUS
  <2>1. disk' = disk => Torn' = Torn
    BY DEF Torn, In
  <2>2. CASE CheckpointThrows
    <3>1. \E folder : Throws(folder)
      BY <2>2 DEF CheckpointThrows
    <3>. QED BY <2>1, <2>2, <3>1, ThrowsIfTorn DEF CheckpointThrows
  <2>3. CASE EditFile \/ Over \/ UNCHANGED vars
    BY <2>1, <2>3 DEF EditFile, Over, vars
  <2>4. CASE Start \/ Crash
    BY <2>4 DEF Start, Crash
  <2>5. CASE \/ CalculateHash \/ Continue \/ Spawn \/ UseCached \/ StartSubSimulation
             \/ StartSimulation \/ RemoveFile \/ SkipFirstFile \/ OpenFile \/ CloseFile
             \/ Step \/ LoadResult
    <3>1. pc = "up" /\ pc' = pc
      BY <2>5 DEF CalculateHash, Continue, Spawn, UseCached, StartSubSimulation, Process,
           StartSimulation, RemoveFile, SkipFirstFile, OpenFile, Writes, CloseFile, Step,
           LoadResult
    <3>. QED BY <3>1
  <2>6. CASE LeaveLoop \/ CloseLastFile
    <3>1. pc = "up" /\ (pc' = pc \/ pc' = "finished")
      BY <2>6 DEF LeaveLoop, CloseLastFile, Return, Process
    <3>. QED BY <3>1
  <2>. QED BY <2>2, <2>3, <2>4, <2>5, <2>6 DEF Next, ProcessStep
<1>. QED BY <1>1, <1>2, PTL DEF Spec

-----------------------------------------------------------------------------
(***************************************************************************)
(* The depth of the recursion                                              *)
(***************************************************************************)

\* A call waits for one of a file above it, in the sense of the assumption.
LEMMA CallerIsDeeper ==
  ASSUME IInv, Lineage, NEW depth, Deeper(depth), NEW n \in 1 .. Len(stack), n + 1 <= Len(stack)
  PROVE  /\ stack[n].file \in Files /\ stack[n + 1].file \in Files
         /\ depth[stack[n].file] < depth[stack[n + 1].file]
<1>1. PICK st : st = stack
  OBVIOUS
<1>2. st \in Seq(Calls) /\ StackLineage(st)
  BY <1>1 DEF IInv, StackOK, Lineage
<1>3. n + 1 \in 2 .. Len(st) /\ (n + 1) - 1 = n /\ n \in 1 .. Len(st)
  BY <1>1, <1>2
<1>4. st[n] \in Calls /\ st[n + 1] \in Calls
  BY <1>2, <1>3
<1>5. st[n].file \in Files /\ st[n + 1].file \in Files /\ st[n + 1].todo \in Seq(Files)
  BY <1>4 DEF Calls
<1>6. Waits(st[n + 1], st[n].file)
  BY <1>2, <1>3 DEF StackLineage
<1>7. /\ Done(st[n + 1]) > 0 /\ Subs[st[n + 1].file][Done(st[n + 1])] = st[n].file
  BY <1>6 DEF Waits
<1>8. Done(st[n + 1]) \in 1 .. Len(Subs[st[n + 1].file])
  <2>1. PICK a, b \in Nat : a = Len(Subs[st[n + 1].file]) /\ b = Len(st[n + 1].todo)
    BY <1>5, SubsType
  <2>2. PICK done : done = Done(st[n + 1])
    OBVIOUS
  <2>3. done = a - b
    BY <2>1, <2>2 DEF Done
  <2>4. done > 0
    BY <1>7, <2>2
  <2>5. done \in 1 .. a
    BY <2>3, <2>4
  <2>. QED BY <2>1, <2>2, <2>5
<1>9. depth[st[n].file] < depth[st[n + 1].file]
  BY <1>5, <1>7, <1>8 DEF Deeper
<1>. QED BY <1>1, <1>5, <1>9

\* The files of the stack lie one above the other.
LEMMA CallersAreDeeper ==
  ASSUME IInv, Lineage, NEW depth, Deeper(depth)
  PROVE  \A n, m \in 1 .. Len(stack) :
            n < m => depth[stack[n].file] < depth[stack[m].file]
<1>1. PICK st, L : st = stack /\ L = Len(stack)
  OBVIOUS
<1>2. st \in Seq(Calls) /\ L \in Nat /\ L = Len(st)
  BY <1>1 DEF IInv, StackOK
<1>3. \A n \in 1 .. L : st[n].file \in Files /\ depth[st[n].file] \in Nat
  <2>1. ASSUME NEW n \in 1 .. L PROVE st[n] \in Calls
    BY <1>2
  <2>2. \A n \in 1 .. L : st[n].file \in Files
    BY <2>1 DEF Calls
  <2>. QED BY <2>2 DEF Deeper
<1>4. \A n \in 1 .. L : n + 1 <= L => depth[st[n].file] < depth[st[n + 1].file]
  BY <1>1, CallerIsDeeper
<1>. DEFINE Far == {m \in Nat : \A n \in 1 .. L : n + 1 + m <= L =>
                       depth[st[n].file] < depth[st[n + 1 + m].file]}
<1>5. 0 \in Far
  BY <1>2, <1>4
<1>6. ASSUME NEW m \in Nat, m \in Far PROVE m + 1 \in Far
  <2>. SUFFICES ASSUME NEW n \in 1 .. L, n + 1 + (m + 1) <= L
                PROVE  depth[st[n].file] < depth[st[n + 1 + (m + 1)].file]
    OBVIOUS
  <2>1. PICK k \in 1 .. L : k = n + 1 + m /\ k + 1 <= L
    BY <1>2
  <2>2. depth[st[n].file] < depth[st[k].file]
    BY <1>6, <2>1
  <2>3. depth[st[k].file] < depth[st[k + 1].file]
    BY <1>4, <2>1
  <2>4. k + 1 \in 1 .. L /\ k + 1 = n + 1 + (m + 1)
    BY <1>2, <2>1
  <2>. QED BY <1>3, <2>1, <2>2, <2>3, <2>4
<1>7. \A m \in Nat : m \in Far
  <2>. HIDE DEF Far
  <2>. QED BY <1>5, <1>6, NatSet
<1>8. ASSUME NEW n \in 1 .. L, NEW m \in 1 .. L, n < m
      PROVE  depth[st[n].file] < depth[st[m].file]
  <2>1. m - n - 1 \in Nat /\ n + 1 + (m - n - 1) = m
    BY <1>8
  <2>2. m - n - 1 \in Far
    BY <1>7, <2>1
  <2>. QED BY <2>1, <2>2
<1>. QED BY <1>1, <1>8

\* prepareParticles: two calls on the stack are never of one file, so its recursion is no
\* deeper than there are input files.
THEOREM RecursionIsBounded ==
  Spec => [](/\ \A n, m \in DOMAIN stack : n # m => stack[n].file # stack[m].file
             /\ Len(stack) <= Cardinality(Files))
<1>1. ASSUME IInv, Lineage
      PROVE  /\ \A n, m \in DOMAIN stack : n # m => stack[n].file # stack[m].file
             /\ Len(stack) <= Cardinality(Files)
  <2>1. PICK depth : Deeper(depth)
    BY DepthExists
  <2>2. PICK st : st = stack
    OBVIOUS
  <2>3. st \in Seq(Calls) /\ Len(st) \in Nat /\ DOMAIN st = 1 .. Len(st)
    BY <1>1, <2>2 DEF IInv, StackOK
  <2>4. \A n \in 1 .. Len(st) : st[n].file \in Files /\ depth[st[n].file] \in Nat
    <3>1. ASSUME NEW n \in 1 .. Len(st) PROVE st[n] \in Calls
      BY <2>3
    <3>2. \A n \in 1 .. Len(st) : st[n].file \in Files
      BY <3>1 DEF Calls
    <3>. QED BY <2>1, <3>2 DEF Deeper
  <2>5. \A n, m \in 1 .. Len(st) : n < m => depth[st[n].file] < depth[st[m].file]
    BY <1>1, <2>1, <2>2, CallersAreDeeper
  <2>6. \A n, m \in 1 .. Len(st) : n # m => st[n].file # st[m].file
    <3>. SUFFICES ASSUME NEW n \in 1 .. Len(st), NEW m \in 1 .. Len(st), n # m,
                         st[n].file = st[m].file
                  PROVE  FALSE
      OBVIOUS
    <3>1. n < m \/ m < n
      OBVIOUS
    <3>. QED BY <2>4, <2>5, <3>1
  <2>7. Len(st) <= Cardinality(Files)
    <3>. DEFINE F == [n \in 1 .. Len(st) |-> st[n].file]
    <3>1. F \in [1 .. Len(st) -> Files]
      BY <2>4
    <3>2. F \in Injection(1 .. Len(st), Files)
      <4>1. \A n, m \in 1 .. Len(st) : F[n] = F[m] => n = m
        BY <2>6
      <4>. HIDE DEF F
      <4>. QED BY <3>1, <4>1 DEF Injection, IsInjective
    <3>3. IsFiniteSet(Files)
      BY SubSimulationsAssumption
    <3>4. Cardinality(1 .. Len(st)) <= Cardinality(Files)
      <4>. HIDE DEF F
      <4>. QED BY <3>2, <3>3, FS_Injection
    <3>5. Cardinality(1 .. Len(st)) = Len(st)
      BY <2>3, FS_Interval
    <3>. QED BY <3>4, <3>5
  <2>. QED BY <2>2, <2>3, <2>6, <2>7
<1>. QED BY <1>1, Invariance, LineageAlways, PTL

-----------------------------------------------------------------------------
(***************************************************************************)
(* Progress                                                                *)
(***************************************************************************)

\* What a call has ahead of it, from the outermost level to the innermost: the
\* parts of prepareParticles and runSimulation, the sub simulations, the halves
\* of its iterations, its file, and the files to be removed.
StagesAhead(call) ==
    CASE call.phase = "parsed" -> 6
      [] call.phase = "params" -> 5
      [] call.phase = "sources" -> 4
      [] call.phase = "starting" -> 3
      [] call.phase \in {"loop", "notifying"} -> 2
      [] call.phase = "ending" -> 1
      [] OTHER -> 0

SourcesAhead(call) == Len(call.todo)

HalvesAhead(call) ==
    CASE call.phase = "loop" -> 2 * (EndIteration - call.iteration)
      [] call.phase = "notifying" -> 2 * (EndIteration - call.iteration) + 1
      [] OTHER -> 0

FileAhead(call) == IF call.open THEN 0 ELSE 1

StaleOf(call) ==
    {i \in DOMAIN In(call.folder) : call.start_iteration = 0 \/ i > call.start_iteration}

RemovalsAhead(call) ==
    IF call.phase \in {"starting", "result"} THEN Cardinality(StaleOf(call)) ELSE 0

Ahead(call) ==
    <<StagesAhead(call), SourcesAhead(call), HalvesAhead(call), FileAhead(call), RemovalsAhead(call)>>

\* The calls with what they have ahead of them, that of main first.
CallsAhead == [h \in 1 .. Len(stack) |-> Ahead(stack[Len(stack) + 1 - h])]

\* The lexicographic order of the levels of a call.
Less(s, t) == \E k \in 1 .. 5 : s[k] < t[k] /\ \A j \in 1 .. k - 1 : s[j] = t[j]

\* That of the calls: the first difference is a call with less ahead of it, or
\* one that is no longer there.
Smaller(s, t) ==
    \E h \in DOMAIN t :
        /\ \A g \in 1 .. h - 1 : g \in DOMAIN s /\ s[g] = t[g]
        /\ h \in DOMAIN s => Less(s[h], t[h])

LEMMA LessAt ==
  ASSUME NEW s1, NEW s2, NEW s3, NEW s4, NEW s5, NEW t1, NEW t2, NEW t3, NEW t4, NEW t5,
         \/ s1 < t1
         \/ s1 = t1 /\ s2 < t2
         \/ s1 = t1 /\ s2 = t2 /\ s3 < t3
         \/ s1 = t1 /\ s2 = t2 /\ s3 = t3 /\ s4 < t4
         \/ s1 = t1 /\ s2 = t2 /\ s3 = t3 /\ s4 = t4 /\ s5 < t5
  PROVE  Less(<<s1, s2, s3, s4, s5>>, <<t1, t2, t3, t4, t5>>)
<1>. DEFINE s == <<s1, s2, s3, s4, s5>>
            t == <<t1, t2, t3, t4, t5>>
<1>. SUFFICES \E k \in 1 .. 5 : s[k] < t[k] /\ \A j \in 1 .. k - 1 : s[j] = t[j]
  BY DEF Less
<1>1. CASE s1 < t1
  BY <1>1
<1>2. CASE s1 = t1 /\ s2 < t2
  <2>1. s[2] < t[2] /\ \A j \in 1 .. 2 - 1 : s[j] = t[j]
    BY <1>2
  <2>. QED BY <2>1
<1>3. CASE s1 = t1 /\ s2 = t2 /\ s3 < t3
  <2>1. s[3] < t[3] /\ \A j \in 1 .. 3 - 1 : s[j] = t[j]
    BY <1>3
  <2>. QED BY <2>1
<1>4. CASE s1 = t1 /\ s2 = t2 /\ s3 = t3 /\ s4 < t4
  <2>1. s[4] < t[4] /\ \A j \in 1 .. 4 - 1 : s[j] = t[j]
    BY <1>4
  <2>. QED BY <2>1
<1>5. CASE s1 = t1 /\ s2 = t2 /\ s3 = t3 /\ s4 = t4 /\ s5 < t5
  <2>1. s[5] < t[5] /\ \A j \in 1 .. 5 - 1 : s[j] = t[j]
    BY <1>5
  <2>. QED BY <2>1
<1>. QED BY <1>1, <1>2, <1>3, <1>4, <1>5

\* What a call has ahead of it does not depend on the disk, unless it removes files.
LEMMA AheadWaiting ==
  ASSUME NEW call, call.phase \notin {"starting", "result"}
  PROVE  Ahead(call)' = Ahead(call)
<1>1. RemovalsAhead(call) = 0 /\ RemovalsAhead(call)' = 0
  BY DEF RemovalsAhead
<1>2. /\ StagesAhead(call)' = StagesAhead(call) /\ SourcesAhead(call)' = SourcesAhead(call)
      /\ HalvesAhead(call)' = HalvesAhead(call) /\ FileAhead(call)' = FileAhead(call)
  BY DEF StagesAhead, SourcesAhead, HalvesAhead, FileAhead
<1>. QED BY <1>1, <1>2 DEF Ahead

\* The levels of the calls, as those of a stack of constant calls.
LEMMA AheadOfCalls ==
  ASSUME NEW st, NEW h \in 1 .. Len(st), NEW call, call = st[Len(st) + 1 - h]
  PROVE  /\ st = stack => CallsAhead[h] = Ahead(call)
         /\ stack' = st => CallsAhead'[h] = Ahead(call)'
  BY DEF CallsAhead

\* The innermost call has less ahead of it, and on it there may be a new one.
LEMMA TopIsSmaller ==
  ASSUME IInv, pc = "up", NEW st, st = stack, NEW new, stack' = new,
         NEW m \in Nat \ {0}, m = Len(st), NEW k \in {m, m + 1}, k = Len(new),
         \A n \in 2 .. m : new[k - m + n] = st[n],
         NEW old, old = st[1], NEW call, call = new[k + 1 - m],
         Less(Ahead(call)', Ahead(old))
  PROVE  Smaller(CallsAhead', CallsAhead)
<1>1. StackOK(st, writers) /\ DOMAIN st = 1 .. m
  BY TopFacts DEF StackOK
<1>2. DOMAIN CallsAhead = 1 .. m /\ DOMAIN CallsAhead' = 1 .. k /\ m \in 1 .. k /\ k \in Nat
  BY DEF CallsAhead
<1>3. ASSUME NEW g \in 1 .. m - 1 PROVE CallsAhead'[g] = CallsAhead[g]
  <2>1. PICK n \in 2 .. m : n = m + 1 - g
    <3>1. m + 1 - g \in 2 .. m
      OBVIOUS
    <3>. QED BY <3>1
  <2>2. PICK waiting : waiting = st[n]
    OBVIOUS
  <2>3. waiting.phase = "sources"
    <3>1. n \in DOMAIN st /\ n > 1
      BY <1>1, <2>1
    <3>. QED BY <1>1, <2>2, <3>1 DEF StackOK
  <2>4. PICK l : l = k + 1 - g
    OBVIOUS
  <2>5. l = k - m + n /\ g \in 1 .. m /\ g \in 1 .. k
    BY <1>2, <2>1, <2>4
  <2>6. CallsAhead'[g] = Ahead(waiting)'
    <3>1. g \in 1 .. Len(new) /\ waiting = new[Len(new) + 1 - g]
      BY <2>2, <2>4, <2>5
    <3>. QED BY <3>1, AheadOfCalls, ZenonT(40)
  <2>7. CallsAhead[g] = Ahead(waiting)
    <3>1. g \in 1 .. Len(st) /\ waiting = st[Len(st) + 1 - g]
      BY <2>1, <2>2, <2>5
    <3>. QED BY <3>1, AheadOfCalls, ZenonT(40)
  <2>. QED BY <2>3, <2>6, <2>7, AheadWaiting
<1>4. CallsAhead[m] = Ahead(old)
  <2>1. m \in 1 .. Len(st) /\ Len(st) + 1 - m = 1
    OBVIOUS
  <2>2. old = st[Len(st) + 1 - m]
    BY <2>1
  <2>. QED BY <2>1, <2>2, AheadOfCalls, ZenonT(40)
<1>5. CallsAhead'[m] = Ahead(call)'
  <2>1. m \in 1 .. Len(new) /\ call = new[Len(new) + 1 - m]
    BY <1>2
  <2>. QED BY <2>1, AheadOfCalls, ZenonT(40)
<1>6. Less(CallsAhead'[m], CallsAhead[m])
  BY <1>4, <1>5
<1>7. \A g \in 1 .. m - 1 : g \in 1 .. k
  BY <1>2
<1>8. m \in 1 .. m
  OBVIOUS
<1>. QED BY <1>2, <1>3, <1>6, <1>7, <1>8 DEF Smaller

\* The innermost call is gone, and its caller waits no longer.
LEMMA GoneIsSmaller ==
  ASSUME NEW st, st = stack, NEW new, stack' = new,
         NEW m \in Nat \ {0}, m = Len(st), Len(new) = m - 1,
         \A n \in 1 .. m - 1 :
            /\ new[n].phase = "sources"
            /\ \E call : call = st[n + 1] /\ Ahead(new[n]) = Ahead(call)
  PROVE  Smaller(CallsAhead', CallsAhead)
<1>1. DOMAIN CallsAhead = 1 .. m /\ DOMAIN CallsAhead' = 1 .. m - 1 /\ m - 1 \in Nat
  BY DEF CallsAhead
<1>2. ASSUME NEW g \in 1 .. m - 1 PROVE CallsAhead'[g] = CallsAhead[g]
  <2>1. PICK n \in 1 .. m - 1 : n = m - g
    <3>1. m - g \in 1 .. m - 1
      OBVIOUS
    <3>. QED BY <3>1
  <2>2. (m - 1) + 1 - g = n /\ m + 1 - g = n + 1 /\ g \in 1 .. m
    BY <2>1
  <2>3. PICK caller : caller = new[n]
    OBVIOUS
  <2>4. PICK call : call = st[n + 1] /\ Ahead(caller) = Ahead(call) /\ caller.phase = "sources"
    BY <2>3
  <2>5. CallsAhead[g] = Ahead(call)
    <3>1. g \in 1 .. Len(st) /\ call = st[Len(st) + 1 - g]
      BY <2>2, <2>4
    <3>. QED BY <3>1, AheadOfCalls, ZenonT(40)
  <2>6. CallsAhead'[g] = Ahead(caller)'
    <3>1. g \in 1 .. Len(new) /\ caller = new[Len(new) + 1 - g]
      BY <2>2, <2>3
    <3>. QED BY <3>1, AheadOfCalls, ZenonT(40)
  <2>. QED BY <2>4, <2>5, <2>6, AheadWaiting
<1>3. m \in 1 .. m /\ m \notin 1 .. m - 1
  OBVIOUS
<1>. QED BY <1>1, <1>2, <1>3 DEF Smaller

\* There are finitely many files to remove.
LEMMA StaleFinite ==
  ASSUME DiskOK(disk, writers), NEW call
  PROVE  IsFiniteSet(StaleOf(call))
<1>1. PICK folder : folder = call.folder
  OBVIOUS
<1>2. DOMAIN In(folder) \subseteq 0 .. EndIteration
  <2>1. CASE folder \in DOMAIN disk
    <3>1. \A n \in DOMAIN disk[folder] : Stored(disk[folder][n], folder, n, writers)
      BY <2>1 DEF DiskOK
    <3>2. In(folder) = disk[folder]
      BY <2>1 DEF In
    <3>. QED BY <3>1, <3>2 DEF Stored
  <2>2. CASE folder \notin DOMAIN disk
    <3>1. In(folder) = <<>>
      BY <2>2 DEF In
    <3>. QED BY <3>1
  <2>. QED BY <2>1, <2>2
<1>3. IsFiniteSet(0 .. EndIteration)
  BY EndIterationNat, FS_Interval
<1>4. StaleOf(call) \subseteq 0 .. EndIteration
  BY <1>1, <1>2 DEF StaleOf
<1>. QED BY <1>3, <1>4, FS_Subset

\* The innermost call is replaced by one with less ahead of it.
LEMMA TopAdvances ==
  ASSUME IInv, pc = "up", NEW old, old = top, NEW call, Top(call),
         Less(Ahead(call)', Ahead(old))
  PROVE  Smaller(CallsAhead', CallsAhead)
<1>1. PICK st, S : st = stack /\ S = Calls \cup {call}
  OBVIOUS
<1>2. PICK m \in Nat \ {0} : m = Len(st)
  BY <1>1, TopFacts
<1>3. st \in [1 .. m -> S] /\ call \in S /\ DOMAIN st = 1 .. m
  BY <1>1, <1>2, TopFacts
<1>4. PICK new : new = Replaced(st, call)
  OBVIOUS
<1>5. new \in [1 .. m -> S] /\ new[1] = call /\ \A n \in 2 .. m : new[n] = st[n]
  BY <1>2, <1>3, <1>4 DEF Replaced
<1>6. Len(new) = m
  BY <1>2, <1>5
<1>7. stack' = new /\ st[1] = old
  BY <1>1, <1>4 DEF Top, Replaced, top
<1>8. PICK k : k = m
  OBVIOUS
<1>9. /\ k \in {m, m + 1} /\ k = Len(new) /\ \A n \in 2 .. m : new[k - m + n] = st[n]
      /\ call = new[k + 1 - m]
  BY <1>2, <1>5, <1>6, <1>8
<1>10. /\ IInv /\ pc = "up" /\ st = stack /\ stack' = new /\ m \in Nat \ {0} /\ m = Len(st)
       /\ old = st[1] /\ Less(Ahead(call)', Ahead(old))
  BY <1>1, <1>2, <1>7
<1>. QED BY ONLY <1>9, <1>10, TopIsSmaller, SMTT(30)

\* All calls are gone.
LEMMA NoneIsSmaller ==
  ASSUME IInv, pc = "up", stack' = <<>>
  PROVE  Smaller(CallsAhead', CallsAhead)
<1>1. PICK m \in Nat \ {0} : m = Len(stack)
  BY TopFacts
<1>2. DOMAIN CallsAhead = 1 .. m /\ DOMAIN CallsAhead' = {}
  <2>1. Len(stack') = 0
    OBVIOUS
  <2>. QED BY <1>1, <2>1 DEF CallsAhead
<1>3. 1 \in 1 .. m /\ 1 .. 1 - 1 = {}
  BY <1>1
<1>. QED BY <1>2, <1>3 DEF Smaller

\* The levels at which a call may go on.
LEMMA StageAdvances ==
  ASSUME NEW old, NEW call, StagesAhead(call) < StagesAhead(old)
  PROVE  Less(Ahead(call)', Ahead(old))
<1>1. StagesAhead(call)' < StagesAhead(old)
  BY DEF StagesAhead
<1>. QED BY <1>1, LessAt DEF Ahead

LEMMA SourceAdvances ==
  ASSUME NEW old, NEW call, call.phase = "sources", old.phase = "sources",
         Len(call.todo) < Len(old.todo)
  PROVE  Less(Ahead(call)', Ahead(old))
<1>1. StagesAhead(call)' = StagesAhead(old) /\ SourcesAhead(call)' < SourcesAhead(old)
  BY DEF StagesAhead, SourcesAhead
<1>. QED BY <1>1, LessAt DEF Ahead

LEMMA HalfAdvances ==
  ASSUME NEW old, NEW call, call.phase \in {"loop", "notifying"},
         old.phase \in {"loop", "notifying"}, call.todo = old.todo,
         HalvesAhead(call) < HalvesAhead(old)
  PROVE  Less(Ahead(call)', Ahead(old))
<1>1. /\ StagesAhead(call)' = StagesAhead(old) /\ SourcesAhead(call)' = SourcesAhead(old)
      /\ HalvesAhead(call)' < HalvesAhead(old)
  BY DEF StagesAhead, SourcesAhead, HalvesAhead
<1>. QED BY <1>1, LessAt DEF Ahead

LEMMA FileAdvances ==
  ASSUME NEW old, NEW call, call.phase = old.phase, call.todo = old.todo,
         call.iteration = old.iteration, call.open, ~old.open
  PROVE  Less(Ahead(call)', Ahead(old))
<1>1. /\ StagesAhead(call)' = StagesAhead(old) /\ SourcesAhead(call)' = SourcesAhead(old)
      /\ HalvesAhead(call)' = HalvesAhead(old) /\ FileAhead(call)' < FileAhead(old)
  BY DEF StagesAhead, SourcesAhead, HalvesAhead, FileAhead
<1>. QED BY <1>1, LessAt DEF Ahead

\* The stages, in their order.
LEMMA Stages ==
  ASSUME NEW call
  PROVE  /\ call.phase = "parsed" => StagesAhead(call) = 6
         /\ call.phase = "params" => StagesAhead(call) = 5
         /\ call.phase = "sources" => StagesAhead(call) = 4
         /\ call.phase = "starting" => StagesAhead(call) = 3
         /\ call.phase \in {"loop", "notifying"} => StagesAhead(call) = 2
         /\ call.phase = "ending" => StagesAhead(call) = 1
         /\ call.phase = "result" => StagesAhead(call) = 0
  BY DEF StagesAhead

LEMMA PrepareAdvances ==
  ASSUME IInv, CalculateHash \/ Continue \/ Spawn
  PROVE  Smaller(CallsAhead', CallsAhead)
<1>1. pc = "up" /\ top.phase \in {"parsed", "params"}
  BY DEF CalculateHash, Continue, Spawn, Process
<1>2. PICK old \in Calls : old = top
  BY <1>1, TopFacts
<1>3. CASE CalculateHash
  <2>1. PICK call : call = [old EXCEPT !.hash = content[old.file], !.phase = "params"]
    OBVIOUS
  <2>2. old.phase = "parsed" /\ call.phase = "params" /\ Top(call)
    BY <1>2, <1>3, <2>1 DEF CalculateHash, Process, Calls
  <2>3. StagesAhead(call) < StagesAhead(old)
    BY <2>2, Stages
  <2>. QED BY <1>1, <1>2, <2>2, <2>3, StageAdvances, TopAdvances
<1>4. CASE Continue
  <2>1. PICK c : Top([top EXCEPT !.particles = c.particles, !.start_iteration = c.iteration,
                                 !.todo = <<>>, !.phase = "sources"])
    BY <1>4 DEF Continue
  <2>2. PICK call : call = [old EXCEPT !.particles = c.particles, !.start_iteration = c.iteration,
                                       !.todo = <<>>, !.phase = "sources"]
    OBVIOUS
  <2>3. old.phase = "params" /\ call.phase = "sources" /\ Top(call)
    BY <1>2, <1>4, <2>1, <2>2 DEF Continue, Process, Calls
  <2>4. StagesAhead(call) < StagesAhead(old)
    BY <2>3, Stages
  <2>. QED BY <1>1, <1>2, <2>3, <2>4, StageAdvances, TopAdvances
<1>5. CASE Spawn
  <2>1. PICK call : call = [old EXCEPT !.particles = <<<<Leg(old)>>>>, !.phase = "sources"]
    OBVIOUS
  <2>2. old.phase = "params" /\ call.phase = "sources" /\ Top(call)
    BY <1>2, <1>5, <2>1 DEF Spawn, Process, Calls
  <2>3. StagesAhead(call) < StagesAhead(old)
    BY <2>2, Stages
  <2>. QED BY <1>1, <1>2, <2>2, <2>3, StageAdvances, TopAdvances
<1>. QED BY <1>3, <1>4, <1>5

LEMMA CachedAdvances ==
  ASSUME IInv, UseCached
  PROVE  Smaller(CallsAhead', CallsAhead)
<1>1. Process("sources") /\ top.todo # <<>>
  BY DEF UseCached
<1>2. pc = "up" /\ top \in Calls /\ top.phase = "sources"
  BY <1>1, NextSub
<1>3. PICK old \in Calls : old = top
  BY <1>2
<1>4. PICK c : Top([Load(old, c) EXCEPT !.todo = Tail(@)])
  BY <1>3 DEF UseCached
<1>5. PICK particles : Load(old, c) = [old EXCEPT !.particles = particles]
  <2>1. PICK groups : groups = [k \in DOMAIN c.particles |-> Append(c.particles[k], Leg(old))]
    OBVIOUS
  <2>2. Load(old, c) = [old EXCEPT !.particles = old.particles \o groups]
    BY <1>3, <2>1 DEF Load, Calls
  <2>. QED BY <2>2
<1>6. PICK call : call = [Load(old, c) EXCEPT !.todo = Tail(@)]
  OBVIOUS
<1>7. call.phase = "sources" /\ call.todo = Tail(old.todo)
  BY <1>2, <1>3, <1>5, <1>6 DEF Calls
<1>8. Len(call.todo) < Len(old.todo)
  <2>1. PICK todo \in Seq(Files) : todo = old.todo
    BY DEF Calls
  <2>2. Len(Tail(todo)) < Len(todo)
    BY <1>1, <1>3, <2>1
  <2>. QED BY <1>7, <2>1, <2>2
<1>9. Top(call)
  BY <1>4, <1>6
<1>. QED BY <1>2, <1>3, <1>7, <1>8, <1>9, SourceAdvances, TopAdvances

LEMMA SubAdvances ==
  ASSUME IInv, StartSubSimulation
  PROVE  Smaller(CallsAhead', CallsAhead)
<1>1. Process("sources") /\ top.todo # <<>>
  BY DEF StartSubSimulation
<1>2. pc = "up" /\ top \in Calls /\ top.phase = "sources"
  BY <1>1, NextSub
<1>3. PICK old \in Calls : old = top
  BY <1>2
<1>3a. PICK st : st = stack
  OBVIOUS
<1>3b. PICK m \in Nat \ {0} : m = Len(st)
  BY <1>3a, <1>2, TopFacts
<1>4. PICK call, sub :
         /\ st = stack /\ m = Len(st)
         /\ call = [old EXCEPT !.todo = Tail(old.todo)]
         /\ sub = NewCall(Head(top.todo), Append(top.folder, Head(top.todo)))
  BY <1>3a, <1>3b
<1>5. st \in Seq(Calls) /\ m \in Nat \ {0} /\ DOMAIN st = 1 .. m /\ st[1] = old
  BY <1>2, <1>3, <1>4, TopFacts DEF top
<1>6. PICK S, between : S = Calls \cup {call, sub} /\ between = Replaced(st, call)
  OBVIOUS
<1>7. stack' = <<sub>> \o between
  <2>1. [st EXCEPT ![1].todo = Tail(@)] = [st EXCEPT ![1] = [st[1] EXCEPT !.todo = Tail(st[1].todo)]]
    BY <1>5 DEF Calls
  <2>. QED BY <1>4, <1>5, <1>6, <2>1 DEF StartSubSimulation, Replaced
<1>8. between \in [1 .. m -> S] /\ between[1] = call /\ \A n \in 2 .. m : between[n] = st[n]
  BY <1>5, <1>6 DEF Replaced
<1>9. between \in Seq(S) /\ Len(between) = m /\ sub \in S
  BY <1>5, <1>6, <1>8
<1>10. PICK new : new = <<sub>> \o between
  OBVIOUS
<1>11. Len(new) = m + 1 /\ \A n \in 1 .. m : new[n + 1] = between[n]
  BY <1>5, <1>9, <1>10
<1>12. Less(Ahead(call)', Ahead(old))
  <2>1. call.phase = "sources" /\ call.todo = Tail(old.todo)
    BY <1>2, <1>3, <1>4 DEF Calls
  <2>2. Len(call.todo) < Len(old.todo)
    <3>1. PICK todo \in Seq(Files) : todo = old.todo
      BY DEF Calls
    <3>2. Len(Tail(todo)) < Len(todo)
      BY <1>1, <1>3, <3>1
    <3>. QED BY <2>1, <3>1, <3>2
  <2>. QED BY <1>2, <1>3, <2>1, <2>2, SourceAdvances
<1>13. PICK k : k = m + 1
  OBVIOUS
<1>14. /\ k \in {m, m + 1} /\ k = Len(new) /\ \A n \in 2 .. m : new[k - m + n] = st[n]
       /\ call = new[k + 1 - m]
  <2>1. k - m = 1 /\ k + 1 - m = 1 + 1 /\ 1 \in 1 .. m
    BY <1>5, <1>13
  <2>2. call = new[1 + 1]
    BY <1>8, <1>11, <2>1
  <2>3. \A n \in 2 .. m : new[1 + n] = st[n]
    <3>1. ASSUME NEW n \in 2 .. m PROVE n \in 1 .. m /\ 1 + n = n + 1
      OBVIOUS
    <3>. QED BY <1>8, <1>11, <3>1
  <2>. QED BY <1>11, <1>13, <2>1, <2>2, <2>3
<1>15. st = stack /\ stack' = new /\ old = st[1] /\ m = Len(st)
  BY <1>4, <1>5, <1>7, <1>10
<1>16. /\ IInv /\ pc = "up" /\ st = stack /\ stack' = new /\ m \in Nat \ {0} /\ m = Len(st)
       /\ old = st[1] /\ Less(Ahead(call)', Ahead(old))
  BY <1>2, <1>5, <1>12, <1>15
<1>. QED BY ONLY <1>14, <1>16, TopIsSmaller, SMTT(30)

LEMMA RemovalAdvances ==
  ASSUME IInv, RemoveFile
  PROVE  Smaller(CallsAhead', CallsAhead)
<1>1. pc = "up" /\ top.phase \in {"starting", "result"} /\ stack' = stack
  BY DEF RemoveFile, Process
<1>2. PICK old \in Calls : old = top
  BY <1>1, TopFacts
<1>3. PICK folder, before : folder = old.folder /\ before = In(folder)
  OBVIOUS
<1>4. PICK i \in StaleOf(old) : disk' = With(folder, Restrict(before, DOMAIN before \ {i}))
  <2>1. Stale = StaleOf(old)
    BY <1>2 DEF Stale, StaleOf, OutputFolder
  <2>. QED BY <1>2, <1>3, <2>1 DEF RemoveFile, OutputFolder
<1>5. In(folder)' = Restrict(before, DOMAIN before \ {i})
  <2>1. folder \in DOMAIN disk' /\ disk'[folder] = Restrict(before, DOMAIN before \ {i})
    BY <1>4 DEF With
  <2>. QED BY <2>1 DEF In
<1>6. DOMAIN In(folder)' = DOMAIN before \ {i}
  BY <1>5 DEF Restrict
<1>7. StaleOf(old)' = StaleOf(old) \ {i}
  BY <1>3, <1>6 DEF StaleOf
<1>8. IsFiniteSet(StaleOf(old))
  BY StaleFinite DEF IInv
<1>9. RemovalsAhead(old)' < RemovalsAhead(old)
  <2>1. Cardinality(StaleOf(old) \ {i}) = Cardinality(StaleOf(old)) - 1
    BY <1>4, <1>8, FS_RemoveElement
  <2>2. Cardinality(StaleOf(old)) \in Nat
    BY <1>8, FS_CardinalityType
  <2>3. /\ RemovalsAhead(old) = Cardinality(StaleOf(old))
        /\ RemovalsAhead(old)' = Cardinality(StaleOf(old)')
    BY <1>1, <1>2 DEF RemovalsAhead
  <2>. QED BY <1>7, <2>1, <2>2, <2>3
<1>10. /\ StagesAhead(old)' = StagesAhead(old) /\ SourcesAhead(old)' = SourcesAhead(old)
       /\ HalvesAhead(old)' = HalvesAhead(old) /\ FileAhead(old)' = FileAhead(old)
  BY DEF StagesAhead, SourcesAhead, HalvesAhead, FileAhead
<1>11. Less(Ahead(old)', Ahead(old))
  BY <1>9, <1>10, LessAt DEF Ahead
<1>12. Top(old)
  <2>1. stack \in Seq(Calls) /\ Len(stack) \in Nat \ {0}
    BY <1>1, TopFacts
  <2>2. [stack EXCEPT ![1] = stack[1]] = stack
    BY <2>1
  <2>. QED BY <1>1, <1>2, <2>2 DEF Top, top
<1>. QED BY <1>1, <1>2, <1>11, <1>12, TopAdvances

LEMMA SimulationAdvances ==
  ASSUME IInv, StartSimulation \/ SkipFirstFile
  PROVE  Smaller(CallsAhead', CallsAhead)
<1>1. pc = "up" /\ top.phase \in {"sources", "starting"}
  BY DEF StartSimulation, SkipFirstFile, Process
<1>2. PICK old \in Calls : old = top
  BY <1>1, TopFacts
<1>3. CASE StartSimulation
  <2>1. PICK call : call = [old EXCEPT !.iteration = old.start_iteration,
                                       !.phase = IF old.file \in writers THEN "starting" ELSE "loop"]
    OBVIOUS
  <2>2. old.phase = "sources" /\ call.phase \in {"starting", "loop"} /\ Top(call)
    BY <1>2, <1>3, <2>1 DEF StartSimulation, Process, Calls
  <2>3. StagesAhead(call) < StagesAhead(old)
    BY <2>2, Stages
  <2>. QED BY <1>1, <1>2, <2>2, <2>3, StageAdvances, TopAdvances
<1>4. CASE SkipFirstFile
  <2>1. PICK call : call = [old EXCEPT !.phase = "loop"]
    OBVIOUS
  <2>2. old.phase = "starting" /\ call.phase = "loop" /\ Top(call)
    BY <1>2, <1>4, <2>1 DEF SkipFirstFile, Process, Calls
  <2>3. StagesAhead(call) < StagesAhead(old)
    BY <2>2, Stages
  <2>. QED BY <1>1, <1>2, <2>2, <2>3, StageAdvances, TopAdvances
<1>. QED BY <1>3, <1>4

LEMMA WritingAdvances ==
  ASSUME IInv, OpenFile \/ CloseFile
  PROVE  Smaller(CallsAhead', CallsAhead)
<1>1. pc = "up"
  BY DEF OpenFile, CloseFile, Writes, Process
<1>2. PICK old \in Calls : old = top
  BY <1>1, TopFacts
<1>3. CASE OpenFile
  <2>1. PICK call : call = [old EXCEPT !.open = TRUE]
    OBVIOUS
  <2>2. /\ ~old.open /\ call.open /\ Top(call)
        /\ call.phase = old.phase /\ call.todo = old.todo /\ call.iteration = old.iteration
    BY <1>2, <1>3, <2>1 DEF OpenFile, Writes, Process, Calls
  <2>. QED BY <1>1, <1>2, <2>2, FileAdvances, TopAdvances
<1>4. CASE CloseFile
  <2>1. PICK call : call = [old EXCEPT !.open = FALSE, !.phase = "loop"]
    OBVIOUS
  <2>2. /\ old.phase \in {"starting", "notifying"} /\ Top(call)
        /\ call.phase = "loop" /\ call.todo = old.todo /\ call.iteration = old.iteration
    BY <1>2, <1>4, <2>1 DEF CloseFile, Calls
  <2>3. CASE old.phase = "starting"
    <3>1. StagesAhead(call) < StagesAhead(old)
      BY <2>2, <2>3, Stages
    <3>. QED BY <1>1, <1>2, <2>2, <3>1, StageAdvances, TopAdvances
  <2>4. CASE old.phase = "notifying"
    <3>1. HalvesAhead(call) < HalvesAhead(old)
      <4>1. old.iteration \in Nat
        BY DEF Calls
      <4>. QED BY <2>2, <2>4, <4>1, EndIterationNat DEF HalvesAhead
    <3>. QED BY <1>1, <1>2, <2>2, <2>4, <3>1, HalfAdvances, TopAdvances
  <2>. QED BY <2>2, <2>3, <2>4
<1>. QED BY <1>3, <1>4

LEMMA StepAdvances ==
  ASSUME IInv, Step
  PROVE  Smaller(CallsAhead', CallsAhead)
<1>1. pc = "up" /\ top.phase = "loop" /\ top.iteration < EndIteration
  BY DEF Step, Process
<1>2. PICK old \in Calls : old = top
  BY <1>1, TopFacts
<1>3. PICK particles, phase :
         /\ phase \in {"loop", "notifying"}
         /\ Top([old EXCEPT !.iteration = @ + 1, !.particles = particles, !.phase = phase])
  <2>1. PICK particles, phase :
           /\ particles = [k \in DOMAIN old.particles |-> Moved(old.particles[k])]
           /\ phase = IF old.file \in writers THEN "notifying" ELSE "loop"
    OBVIOUS
  <2>2. Top([old EXCEPT !.iteration = @ + 1, !.particles = particles, !.phase = phase])
    BY <1>2, <2>1 DEF Step
  <2>. QED BY <2>1, <2>2
<1>4. PICK call : call = [old EXCEPT !.iteration = @ + 1, !.particles = particles, !.phase = phase]
  OBVIOUS
<1>5. /\ call.phase \in {"loop", "notifying"} /\ call.todo = old.todo
      /\ call.iteration = old.iteration + 1 /\ old.phase = "loop" /\ Top(call)
  BY <1>1, <1>2, <1>3, <1>4 DEF Calls
<1>6. HalvesAhead(call) < HalvesAhead(old)
  <2>1. old.iteration \in Nat
    BY DEF Calls
  <2>. QED BY <1>1, <1>2, <1>5, <2>1, EndIterationNat DEF HalvesAhead
<1>. QED BY <1>1, <1>2, <1>5, <1>6, HalfAdvances, TopAdvances

LEMMA ReturnAdvances ==
  ASSUME IInv, pc = "up", Return, top.phase \in {"loop", "ending"}
  PROVE  Smaller(CallsAhead', CallsAhead)
<1>1. CASE ~IsSub
  BY <1>1, NoneIsSmaller DEF Return
<1>2. CASE IsSub
  <2>1. PICK old \in Calls : old = top
    BY TopFacts
  <2>2. PICK call : call = [old EXCEPT !.open = FALSE, !.phase = "result"]
    OBVIOUS
  <2>3. call.phase = "result" /\ Top(call)
    BY <1>2, <2>1, <2>2 DEF Return, Calls
  <2>4. StagesAhead(call) < StagesAhead(old)
    BY <2>1, <2>3, Stages
  <2>. QED BY <2>1, <2>3, <2>4, StageAdvances, TopAdvances
<1>. QED BY <1>1, <1>2

LEMMA LeaveAdvances ==
  ASSUME IInv, LeaveLoop \/ CloseLastFile
  PROVE  Smaller(CallsAhead', CallsAhead)
<1>1. pc = "up" /\ top.phase \in {"loop", "ending"}
  BY DEF LeaveLoop, CloseLastFile, Process
<1>2. CASE Return
  BY <1>1, <1>2, ReturnAdvances
<1>3. CASE top.phase = "loop" /\ Top([top EXCEPT !.phase = "ending"])
  <2>1. PICK old \in Calls : old = top
    BY <1>1, TopFacts
  <2>2. PICK call : call = [old EXCEPT !.phase = "ending"]
    OBVIOUS
  <2>3. call.phase = "ending" /\ Top(call)
    BY <1>3, <2>1, <2>2 DEF Calls
  <2>4. StagesAhead(call) < StagesAhead(old)
    BY <1>3, <2>1, <2>3, Stages
  <2>. QED BY <1>1, <2>1, <2>3, <2>4, StageAdvances, TopAdvances
<1>. QED BY <1>2, <1>3 DEF LeaveLoop, CloseLastFile, Process

\* The stack without its innermost call, and with another caller.
LEMMA PoppedCalls ==
  ASSUME NEW S, NEW st \in Seq(S), NEW m, m = Len(st), m > 1, NEW call \in S,
         NEW new, new = <<call>> \o SubSeq(st, 3, m)
  PROVE  /\ Len(new) = m - 1 /\ new[1] = call
         /\ \A n \in 2 .. m - 1 : new[n] = st[n + 1]
<1>1. m \in Nat /\ DOMAIN st = 1 .. m
  OBVIOUS
<1>2. PICK rest : rest = SubSeq(st, 3, m)
  OBVIOUS
<1>3. /\ rest \in Seq(S) /\ Len(rest) = m - 2
      /\ \A n \in 1 .. m - 2 : rest[n] = st[n + 2]
  <2>1. CASE m = 2
    <3>1. rest = <<>>
      BY <1>2, <2>1
    <3>. QED BY <2>1, <3>1
  <2>2. CASE m > 2
    <3>1. rest \in Seq(S) /\ Len(rest) = m - 2
      BY <1>1, <1>2, <2>2
    <3>2. ASSUME NEW n \in 1 .. m - 2 PROVE rest[n] = st[n + 2]
      BY <1>1, <1>2, <2>2
    <3>. QED BY <3>1, <3>2
  <2>. QED BY <1>1, <2>1, <2>2
<1>4. new \in Seq(S) /\ Len(new) = m - 1 /\ new[1] = call
  BY <1>1, <1>2, <1>3
<1>5. ASSUME NEW n \in 2 .. m - 1 PROVE new[n] = st[n + 1]
  <2>1. new[n] = rest[n - 1]
    BY <1>1, <1>2, <1>3
  <2>2. n - 1 \in 1 .. m - 2 /\ (n - 1) + 2 = n + 1
    BY <1>1
  <2>. QED BY <1>3, <2>1, <2>2
<1>. QED BY <1>4, <1>5

LEMMA LoadAdvances ==
  ASSUME IInv, LoadResult
  PROVE  Smaller(CallsAhead', CallsAhead)
<1>1. pc = "up" /\ top.phase = "result"
  BY DEF LoadResult
<1>2. PICK st : st = stack
  OBVIOUS
<1>3. PICK m \in Nat \ {0} : m = Len(st)
  BY <1>1, <1>2, TopFacts
<1>4. st \in Seq(Calls) /\ StackOK(st, writers) /\ DOMAIN st = 1 .. m /\ m > 1
  BY <1>1, <1>2, <1>3, TopFacts DEF IsSub
<1>5. \A n \in 2 .. m : st[n] \in Calls /\ st[n].phase = "sources"
  BY <1>3, <1>4 DEF StackOK
<1>6. PICK old \in Calls : old = st[2]
  BY <1>3, <1>4, <1>5
<1>7. PICK c : c = Checkpoint(TRUE)
  OBVIOUS
<1>8. PICK particles : Load(old, c) = [old EXCEPT !.particles = particles]
  <2>1. PICK groups : groups = [k \in DOMAIN c.particles |-> Append(c.particles[k], Leg(old))]
    OBVIOUS
  <2>2. Load(old, c) = [old EXCEPT !.particles = old.particles \o groups]
    BY <2>1 DEF Load, Calls
  <2>. QED BY <2>2
<1>9. PICK call : call = Load(old, c)
  OBVIOUS
<1>10. /\ call.phase = "sources" /\ call.todo = old.todo /\ call.open = old.open
       /\ call.iteration = old.iteration /\ old.phase = "sources"
  <2>1. 2 \in 2 .. m
    BY <1>3, <1>4
  <2>2. old.phase = "sources"
    BY <1>5, <1>6, <2>1
  <2>3. call = [old EXCEPT !.particles = particles]
    BY <1>8, <1>9
  <2>. QED BY <2>2, <2>3 DEF Calls
<1>11. Ahead(call) = Ahead(old)
  BY <1>10 DEF Ahead, StagesAhead, SourcesAhead, HalvesAhead, FileAhead, RemovalsAhead
<1>12. PICK new : new = <<call>> \o SubSeq(st, 3, m)
  OBVIOUS
<1>13. stack' = new
  BY <1>2, <1>3, <1>6, <1>7, <1>9, <1>12 DEF LoadResult
<1>14. /\ Len(new) = m - 1 /\ new[1] = call /\ \A n \in 2 .. m - 1 : new[n] = st[n + 1]
  <2>1. PICK S : S = Calls \cup {call}
    OBVIOUS
  <2>2. st \in Seq(S) /\ call \in S
    BY <1>3, <1>4, <2>1
  <2>3. m = Len(st) /\ m > 1 /\ new = <<call>> \o SubSeq(st, 3, m)
    BY <1>3, <1>4, <1>12
  <2>. QED BY ONLY <2>2, <2>3, PoppedCalls
<1>15. ASSUME NEW n \in 1 .. m - 1
       PROVE  /\ new[n].phase = "sources"
              /\ \E other : other = st[n + 1] /\ Ahead(new[n]) = Ahead(other)
  <2>1. PICK next \in 2 .. m : next = n + 1
    OBVIOUS
  <2>2. PICK mine, theirs : mine = new[n] /\ theirs = st[next]
    OBVIOUS
  <2>3. CASE n = 1
    <3>1. mine = call /\ theirs = old
      BY <1>6, <1>14, <2>1, <2>2, <2>3
    <3>. QED BY <1>10, <1>11, <2>1, <2>2, <3>1
  <2>4. CASE n # 1
    <3>1. mine = theirs
      BY <1>14, <2>1, <2>2, <2>4
    <3>2. theirs.phase = "sources"
      BY <1>5, <2>1, <2>2
    <3>. QED BY <2>1, <2>2, <3>1, <3>2
  <2>. QED BY <2>3, <2>4
<1>. QED BY <1>2, <1>3, <1>13, <1>14, <1>15, GoneIsSmaller

LEMMA EveryStep ==
  ASSUME IInv, ProcessStep
  PROVE  Smaller(CallsAhead', CallsAhead)
<1>1. CASE CalculateHash \/ Continue \/ Spawn
  BY <1>1, PrepareAdvances
<1>2. CASE CheckpointThrows
  <2>1. pc = "up" /\ stack' = <<>>
    BY <1>2 DEF CheckpointThrows, Fail, Process
  <2>. QED BY <2>1, NoneIsSmaller
<1>3. CASE UseCached
  BY <1>3, CachedAdvances
<1>4. CASE StartSubSimulation
  BY <1>4, SubAdvances
<1>5. CASE StartSimulation \/ SkipFirstFile
  BY <1>5, SimulationAdvances
<1>6. CASE RemoveFile
  BY <1>6, RemovalAdvances
<1>7. CASE OpenFile \/ CloseFile
  BY <1>7, WritingAdvances
<1>8. CASE Step
  BY <1>8, StepAdvances
<1>9. CASE LeaveLoop \/ CloseLastFile
  BY <1>9, LeaveAdvances
<1>10. CASE LoadResult
  BY <1>10, LoadAdvances
<1>. QED BY <1>1, <1>2, <1>3, <1>4, <1>5, <1>6, <1>7, <1>8, <1>9, <1>10 DEF ProcessStep

\* The lists with the least entry at a level.
LEMMA LeastAt ==
  ASSUME NEW S \in SUBSET [1 .. 5 -> Nat], S # {}, NEW k \in 1 .. 5
  PROVE  \E m \in S : \A s \in S : m[k] <= s[k]
<1>. DEFINE Before == OpToRel(<, Nat)
            T == {s[k] : s \in S}
<1>1. IsWellFoundedOn(Before, Nat)
  BY NatLessThanWellFounded
<1>2. \A m, n \in Nat : <<m, n>> \in Before <=> m < n
  BY DEF OpToRel
<1>. HIDE DEF Before
<1>3. T \subseteq Nat /\ T # {}
  OBVIOUS
<1>4. PICK n \in T : \A m \in T : <<m, n>> \notin Before
  <2>. HIDE DEF T
  <2>. QED BY <1>1, <1>3, WFMin
<1>5. \A m \in T : n <= m
  <2>. HIDE DEF T
  <2>1. \A m \in T : m \in Nat /\ n \in Nat /\ ~(m < n)
    <3>1. n \in Nat /\ \A m \in T : m \in Nat
      BY <1>3, Zenon
    <3>2. \A m \in T : <<m, n>> \notin Before
      BY <1>4
    <3>. QED BY <1>2, <3>1, <3>2, Zenon
  <2>2. \A a, b \in Nat : ~(a < b) => b <= a
    OBVIOUS
  <2>. QED BY <2>1, <2>2, Zenon
<1>6. \A s \in S : s[k] \in T
  OBVIOUS
<1>7. PICK m \in S : n = m[k]
  OBVIOUS
<1>. QED BY <1>5, <1>6, <1>7, Zenon

\* The order has no infinite descent: a set of such lists has a least one.
LEMMA LessWellFounded ==
  ASSUME NEW S \in SUBSET [1 .. 5 -> Nat], S # {}
  PROVE  \E m \in S : \A s \in S : ~Less(s, m)
<1>1. PICK m1 \in S : \A s \in S : m1[1] <= s[1]
  <2>1. 1 \in 1 .. 5
    OBVIOUS
  <2>. QED BY <2>1, LeastAt, Zenon
<1>. DEFINE S2 == {s \in S : s[1] = m1[1]}
<1>2. PICK m2 \in S2 : \A s \in S2 : m2[2] <= s[2]
  <2>1. 2 \in 1 .. 5 /\ S2 \in SUBSET [1 .. 5 -> Nat] /\ m1 \in S2
    OBVIOUS
  <2>2. S2 # {}
    BY <2>1, Zenon
  <2>. HIDE DEF S2
  <2>. QED BY <2>1, <2>2, LeastAt, Zenon
<1>. DEFINE S3 == {s \in S2 : s[2] = m2[2]}
<1>3. PICK m3 \in S3 : \A s \in S3 : m3[3] <= s[3]
  <2>1. 3 \in 1 .. 5 /\ S3 \in SUBSET [1 .. 5 -> Nat] /\ m2 \in S3
    OBVIOUS
  <2>2. S3 # {}
    BY <2>1, Zenon
  <2>. HIDE DEF S3
  <2>. QED BY <2>1, <2>2, LeastAt, Zenon
<1>. DEFINE S4 == {s \in S3 : s[3] = m3[3]}
<1>4. PICK m4 \in S4 : \A s \in S4 : m4[4] <= s[4]
  <2>1. 4 \in 1 .. 5 /\ S4 \in SUBSET [1 .. 5 -> Nat] /\ m3 \in S4
    OBVIOUS
  <2>2. S4 # {}
    BY <2>1, Zenon
  <2>. HIDE DEF S4
  <2>. QED BY <2>1, <2>2, LeastAt, Zenon
<1>. DEFINE S5 == {s \in S4 : s[4] = m4[4]}
<1>5. PICK m \in S5 : \A s \in S5 : m[5] <= s[5]
  <2>1. 5 \in 1 .. 5 /\ S5 \in SUBSET [1 .. 5 -> Nat] /\ m4 \in S5
    OBVIOUS
  <2>2. S5 # {}
    BY <2>1, Zenon
  <2>. HIDE DEF S5
  <2>. QED BY <2>1, <2>2, LeastAt, Zenon
<1>6. /\ m \in S /\ m[1] = m1[1] /\ m[2] = m2[2] /\ m[3] = m3[3] /\ m[4] = m4[4]
  BY <1>5
<1>7. ASSUME NEW s \in S, Less(s, m) PROVE FALSE
  <2>1. PICK k \in 1 .. 5 : s[k] < m[k] /\ \A j \in 1 .. k - 1 : s[j] = m[j]
    BY <1>7 DEF Less
  <2>2. s \in [1 .. 5 -> Nat] /\ m \in [1 .. 5 -> Nat]
    BY <1>6
  <2>3. CASE k = 1
    BY <1>1, <1>6, <2>1, <2>2, <2>3
  <2>4. CASE k = 2
    <3>1. s[1] = m[1]
      BY <2>1, <2>4
    <3>2. m[2] <= s[2]
      BY <1>2, <1>6, <3>1
    <3>. QED BY <2>1, <2>2, <2>4, <3>2
  <2>5. CASE k = 3
    <3>1. s[1] = m[1] /\ s[2] = m[2]
      BY <2>1, <2>5
    <3>2. m[3] <= s[3]
      BY <1>3, <1>6, <3>1
    <3>. QED BY <2>1, <2>2, <2>5, <3>2
  <2>6. CASE k = 4
    <3>1. s[1] = m[1] /\ s[2] = m[2] /\ s[3] = m[3]
      BY <2>1, <2>6
    <3>2. m[4] <= s[4]
      BY <1>4, <1>6, <3>1
    <3>. QED BY <2>1, <2>2, <2>6, <3>2
  <2>7. CASE k = 5
    <3>1. s[1] = m[1] /\ s[2] = m[2] /\ s[3] = m[3] /\ s[4] = m[4]
      BY <2>1, <2>7
    <3>2. m[5] <= s[5]
      BY <1>5, <1>6, <3>1
    <3>. QED BY <2>1, <2>2, <2>7, <3>2
  <2>. QED BY <2>1, <2>3, <2>4, <2>5, <2>6, <2>7
<1>. QED BY <1>6, <1>7

\* What a call may have ahead of it, in a recursion of bounded depth.
Depths == 0 .. Cardinality(Files)
Heights == UNION {[1 .. n -> [1 .. 5 -> Nat]] : n \in Depths}

\* Nor has that of the calls, as there are never more calls than files.
LEMMA SmallerWellFounded ==
  ASSUME NEW S \in SUBSET Heights, S # {}
  PROVE  \E m \in S : \A s \in S : ~Smaller(s, m)
<1>. DEFINE Least(m, g) ==
              \A s \in S : ~(\E h \in DOMAIN m :
                 /\ h <= g
                 /\ \A f \in 1 .. h - 1 : f \in DOMAIN s /\ s[f] = m[f]
                 /\ h \in DOMAIN s => Less(s[h], m[h]))
            Levels == {g \in Nat : \E m \in S : Least(m, g)}
<1>1. Cardinality(Files) \in Nat
  BY SubSimulationsAssumption, FS_CardinalityType
<1>2. ASSUME NEW s \in S
      PROVE  \E n \in Depths : s \in [1 .. n -> [1 .. 5 -> Nat]]
  BY DEF Heights
<1>3. ASSUME NEW s \in S
      PROVE  /\ DOMAIN s \subseteq 1 .. Cardinality(Files)
             /\ \A h \in DOMAIN s : s[h] \in [1 .. 5 -> Nat] /\ h \in Nat
  <2>1. PICK n \in Depths : s \in [1 .. n -> [1 .. 5 -> Nat]]
    BY <1>2
  <2>2. n \in Nat /\ n <= Cardinality(Files) /\ DOMAIN s = 1 .. n
    BY <1>1, <2>1 DEF Depths
  <2>3. 1 .. n \subseteq 1 .. Cardinality(Files)
    BY <1>1, <2>2
  <2>. QED BY <2>1, <2>2, <2>3
<1>4. 0 \in Levels
  <2>1. PICK m \in S : TRUE
    OBVIOUS
  <2>2. \A h \in DOMAIN m : ~(h <= 0)
    BY <1>1, <1>3
  <2>3. Least(m, 0)
    BY <2>2
  <2>. QED BY <2>1, <2>3
<1>5. ASSUME NEW g \in Nat, g \in Levels PROVE g + 1 \in Levels
  <2>1. PICK m \in S : Least(m, g)
    BY <1>5
  <2>2. CASE g + 1 \notin DOMAIN m
    <3>1. \A h \in DOMAIN m : h <= g + 1 => h <= g
      BY <1>3, <2>2
    <3>2. Least(m, g + 1)
      BY <2>1, <3>1
    <3>. QED BY <3>2
  <2>3. CASE g + 1 \in DOMAIN m
    <3>. DEFINE Same(s) == \A f \in 1 .. g : f \in DOMAIN s /\ s[f] = m[f]
                T == {s \in S : Same(s)}
    <3>1. \A f \in 1 .. g : f \in DOMAIN m
      <4>1. PICK n \in Depths : m \in [1 .. n -> [1 .. 5 -> Nat]]
        BY <1>2
      <4>. QED BY <1>1, <2>3, <4>1 DEF Depths
    <3>2. m \in T
      BY <3>1
    <3>3. ASSUME NEW s \in T, NEW r \in S, NEW h \in DOMAIN s, h <= g,
                 \A f \in 1 .. h - 1 : f \in DOMAIN r /\ r[f] = s[f],
                 h \in DOMAIN r => Less(r[h], s[h])
          PROVE  FALSE
      <4>1. h \in 1 .. g
        BY <1>3, <3>3
      <4>2. h \in DOMAIN m /\ s[h] = m[h]
        BY <3>1, <4>1
      <4>3. \A f \in 1 .. h - 1 : f \in DOMAIN r /\ r[f] = m[f]
        BY <3>3, <4>1
      <4>. QED BY <2>1, <3>3, <4>2, <4>3
    <3>4. CASE \E s \in T : g + 1 \notin DOMAIN s
      <4>1. PICK s \in T : g + 1 \notin DOMAIN s
        BY <3>4
      <4>2. \A h \in DOMAIN s : h <= g + 1 => h <= g
        <5>1. \A h \in DOMAIN s : h \in Nat
          <6>. HIDE DEF Least
          <6>. QED BY <1>3
        <5>2. \A h \in DOMAIN s : h # g + 1
          BY <4>1
        <5>. QED BY <5>1, <5>2
      <4>3. Least(s, g + 1)
        BY <3>3, <4>2
      <4>. QED BY <4>3
    <3>5. CASE \A s \in T : g + 1 \in DOMAIN s
      <4>. DEFINE At == {s[g + 1] : s \in T}
      <4>1. At \in SUBSET [1 .. 5 -> Nat] /\ At # {}
        BY <1>3, <3>2, <3>5
      <4>2. PICK x \in At : \A y \in At : ~Less(y, x)
        <5>. HIDE DEF At
        <5>. QED BY <4>1, LessWellFounded
      <4>3. PICK s \in T : x = s[g + 1]
        OBVIOUS
      <4>4. ASSUME NEW r \in S, \A f \in 1 .. g : f \in DOMAIN r /\ r[f] = s[f],
                   g + 1 \in DOMAIN r => Less(r[g + 1], s[g + 1])
            PROVE  FALSE
        <5>1. r \in T
          BY <4>4
        <5>2. r[g + 1] \in At /\ g + 1 \in DOMAIN r
          BY <3>5, <5>1
        <5>. QED BY <4>2, <4>3, <4>4, <5>2
      <4>5. ASSUME NEW r \in S, NEW h \in DOMAIN s, h <= g + 1,
                   \A f \in 1 .. h - 1 : f \in DOMAIN r /\ r[f] = s[f],
                   h \in DOMAIN r => Less(r[h], s[h])
            PROVE  FALSE
        <5>1. CASE h <= g
          BY <3>3, <4>5, <5>1
        <5>2. CASE h = g + 1
          <6>1. h - 1 = g
            BY <5>2
          <6>. QED BY <4>4, <4>5, <5>2, <6>1
        <5>. QED BY <1>3, <4>5, <5>1, <5>2
      <4>6. Least(s, g + 1)
        BY <4>5
      <4>. QED BY <4>6
    <3>. QED BY <3>4, <3>5
  <2>. QED BY <2>2, <2>3
<1>6. PICK m \in S : Least(m, Cardinality(Files))
  <2>1. \A g \in Nat : g \in Levels
    <3>. HIDE DEF Levels
    <3>. QED BY <1>4, <1>5, NatSet
  <2>. QED BY <1>1, <2>1
<1>7. \A h \in DOMAIN m : h <= Cardinality(Files)
  BY <1>1, <1>3
<1>8. ASSUME NEW s \in S PROVE ~Smaller(s, m)
  BY <1>6, <1>7 DEF Smaller
<1>. QED BY <1>8

LEMMA AheadType ==
  ASSUME IInv, NEW call \in Calls, CallOK(call, writers)
  PROVE  Ahead(call) \in [1 .. 5 -> Nat]
<1>1. StagesAhead(call) \in Nat /\ FileAhead(call) \in Nat
  BY DEF StagesAhead, FileAhead
<1>2. SourcesAhead(call) \in Nat
  BY DEF SourcesAhead, Calls
<1>3. HalvesAhead(call) \in Nat
  <2>1. call.iteration \in Nat /\ call.iteration <= EndIteration
    BY DEF Calls, CallOK
  <2>2. EndIteration - call.iteration \in Nat
    BY <2>1, EndIterationNat
  <2>. QED BY <2>2 DEF HalvesAhead
<1>4. RemovalsAhead(call) \in Nat
  BY StaleFinite, FS_CardinalityType DEF RemovalsAhead, IInv
<1>. QED BY <1>1, <1>2, <1>3, <1>4 DEF Ahead

\* prepareParticles and runSimulation come to an end, with all the sub simulations they run:
\* whatever is in the folders, every step of the process leaves less ahead of the calls, in
\* an order without infinite descent.  Only a start begins anew.
THEOREM EveryStepAdvances ==
  Spec => /\ [](CallsAhead \in Heights)
          /\ [][ProcessStep => Smaller(CallsAhead', CallsAhead)]_vars
<1>1. IInv /\ Len(stack) <= Cardinality(Files) => CallsAhead \in Heights
  <2>. SUFFICES ASSUME IInv, Len(stack) <= Cardinality(Files) PROVE CallsAhead \in Heights
    OBVIOUS
  <2>1. stack \in Seq(Calls) /\ StackOK(stack, writers) /\ Len(stack) \in Nat
    BY DEF IInv, StackOK
  <2>2. ASSUME NEW h \in 1 .. Len(stack)
        PROVE  Ahead(stack[Len(stack) + 1 - h]) \in [1 .. 5 -> Nat]
    <3>1. PICK n \in 1 .. Len(stack) : n = Len(stack) + 1 - h
      <4>1. Len(stack) + 1 - h \in 1 .. Len(stack)
        BY <2>1
      <4>. QED BY <4>1
    <3>2. PICK call : call = stack[n]
      OBVIOUS
    <3>3. call \in Calls /\ CallOK(call, writers)
      BY <2>1, <3>2 DEF StackOK
    <3>4. Ahead(call) \in [1 .. 5 -> Nat]
      BY <3>3, AheadType
    <3>. QED BY <3>1, <3>2, <3>4
  <2>3. CallsAhead \in [1 .. Len(stack) -> [1 .. 5 -> Nat]]
    BY <2>2 DEF CallsAhead
  <2>4. Len(stack) \in Depths
    <3>1. Cardinality(Files) \in Nat
      BY SubSimulationsAssumption, FS_CardinalityType
    <3>. QED BY <2>1, <3>1 DEF Depths
  <2>. QED BY <2>3, <2>4 DEF Heights
<1>2. IInv /\ [Next]_vars => [ProcessStep => Smaller(CallsAhead', CallsAhead)]_vars
  BY EveryStep
<1>. QED BY <1>1, <1>2, Invariance, RecursionIsBounded, PTL DEF Spec

=============================================================================
