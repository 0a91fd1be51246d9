--------------------------- MODULE StatisticsProofs ---------------------------
(***************************************************************************)
(* Proofs about Statistics, for every length of a simulation, every period *)
(* of its interceptors and any number of crashes and restarts: the types,  *)
(* what the CSV files contain, what becomes of the diffusion function, and *)
(* how near its target the thermostat keeps the temperature.               *)
(***************************************************************************)
EXTENDS Statistics, FiniteSetTheorems, WellFoundedInduction, TLAPS

USE StatisticsAssumption

Turn == [TEMPERATURE |-> 3, DIFFUSION |-> 4, RDF |-> 5, VELOCITY |-> 6]

Temperatures == {NaN} \cup 0 .. MaxTemperature

SavedTypes ==
    saved # None =>
        saved \in [iteration : 1 .. EndIteration, temperature : Temperatures, size : 0 .. Size]

\* How far the process is.
Phases ==
    /\ start_iteration <= iteration
    /\ pc = "loop" => turn = 1
    /\ pc = "starting" => iteration = start_iteration
    /\ pc = "notifying" => start_iteration < iteration
    /\ pc \in {"ending", "finished"} => iteration = EndIteration
    /\ start_iteration > 0 => continued # <<>>

\* The diffusion function has been initialized.
Initialized == pc \in {"loop", "notifying", "ending", "finished"} \/ (pc = "starting" /\ turn > 4)

\* There are no fewer old positions than particles, or, in a simulation that was
\* continued, none; and then no sample has been due while there were particles.
OldPositions ==
    /\ unlike \subseteq {EndIteration}
    /\ pc = "starting" /\ turn <= 4 => old_particle_positions = 0
    /\ Initialized /\ start_iteration = 0 =>
         size <= old_particle_positions /\ (size = Size => unlike = {})
    /\ Initialized /\ start_iteration > 0 =>
         /\ old_particle_positions = 0
         /\ size > 0 => \A i \in start_iteration + 1 .. iteration :
              Due("DIFFUSION", i) => i = iteration /\ pc = "notifying" /\ turn <= 4
    /\ pc = "failed" => start_iteration > 0 \/ size < Size

Sampled(s, i) == rows[s][i] > 0 \/ i \in unseen[s] \/ \E k \in DOMAIN continued : continued[k] = i

SampledUpTo(s, n) == \A i \in 0 .. n : Due(s, i) => Sampled(s, i)

\* What the last checkpoint and the process vouch for.
Samples(s) ==
    /\ saved # None => SampledUpTo(s, saved.iteration - 1)
    /\ pc = "starting" /\ start_iteration = 0 /\ turn > 1 => saved = None
    /\ pc = "starting" /\ (start_iteration > 0 \/ turn > Turn[s]) => SampledUpTo(s, iteration)
    /\ pc \in {"loop", "ending", "finished"} => SampledUpTo(s, iteration)
    /\ pc = "notifying" => SampledUpTo(s, iteration - 1)
    /\ pc = "notifying" /\ turn > Turn[s] => SampledUpTo(s, iteration)

IInv ==
    /\ TypeOK /\ SavedTypes /\ Phases /\ OldPositions
    /\ \A s \in Sensors \ {"DIFFUSION"} : Samples(s)

-----------------------------------------------------------------------------
(***************************************************************************)
(* Periods and turns                                                       *)
(***************************************************************************)

LEMMA MaxOfTwo == ASSUME NEW a \in Int, NEW b \in Int
                  PROVE  Max({a, b}) \in {a, b} /\ Max({a, b}) >= a /\ Max({a, b}) >= b
<1>1. \E x \in {a, b} : \A y \in {a, b} : x >= y
  <2>1. CASE a >= b
    BY <2>1
  <2>2. CASE b >= a
    BY <2>2
  <2>. QED BY <2>1, <2>2
<1>. QED BY <1>1 DEF Max

LEMMA MinOfTwo == ASSUME NEW a \in Int, NEW b \in Int
                  PROVE  Min({a, b}) \in {a, b} /\ Min({a, b}) <= a /\ Min({a, b}) <= b
<1>1. \E x \in {a, b} : \A y \in {a, b} : x =< y
  <2>1. CASE a <= b
    BY <2>1
  <2>2. CASE b <= a
    BY <2>2
  <2>. QED BY <2>1, <2>2
<1>. QED BY <1>1 DEF Min

\* The diffusion function is due after a positive number of iterations.
LEMMA PeriodPositive == EveryNth("DIFFUSION") \in Nat \ {0}
<1>. DEFINE n == (Percent["DIFFUSION"] * ExpectedIterations("DIFFUSION")) \div 100
<1>1. n \in Int
  BY DEF ExpectedIterations, Sensors
<1>2. EveryNth("DIFFUSION") = Max({1, n})
  BY DEF EveryNth
<1>. HIDE DEF n
<1>3. Max({1, n}) \in {1, n} /\ Max({1, n}) >= 1
  BY <1>1, MaxOfTwo
<1>. QED BY <1>1, <1>2, <1>3

\* The last sample is not later than the start.
LEMMA LastSampleType ==
  ASSUME NEW i \in Iterations
  PROVE  (i \div EveryNth("DIFFUSION")) * EveryNth("DIFFUSION") \in Iterations
<1>. DEFINE n == EveryNth("DIFFUSION")
<1>1. n \in Nat \ {0}
  BY PeriodPositive
<1>2. ASSUME NEW m \in Nat \ {0}, NEW j \in Nat
      PROVE  (j \div m) * m \in 0 .. j
  <2>1. j = m * (j \div m) + (j % m) /\ j % m \in 0 .. m - 1
    OBVIOUS
  <2>2. (j \div m) \in Nat
    OBVIOUS
  <2>3. (j \div m) * m \in Nat /\ (j \div m) * m = m * (j \div m)
    BY <2>2
  <2>. QED BY <2>1, <2>3
<1>3. (i \div n) * n \in 0 .. i
  BY <1>1, <1>2 DEF Iterations
<1>. HIDE DEF n
<1>. QED BY <1>3 DEF Iterations, n

LEMMA SensorTurns == \A s \in Sensors \ {"DIFFUSION"} : Turn[s] \in {3, 5, 6}
  BY DEF Turn, Sensors

\* Which interceptor has its turn.
LEMMA Turns ==
  ASSUME TypeOK
  PROVE  /\ Len(Interceptors) = 6 /\ turn \in 1 .. 6
         /\ interceptor = "CHKPT" <=> turn = 1
         /\ interceptor = "THERMOSTAT" <=> turn = 2
         /\ \A s \in Sensors : interceptor = s <=> turn = Turn[s]
<1>1. turn \in 1 .. 6 /\ Len(Interceptors) = 6
  BY DEF TypeOK, Interceptors
<1>2. interceptor = CASE turn = 1 -> "CHKPT" [] turn = 2 -> "THERMOSTAT"
                      [] turn = 3 -> "TEMPERATURE" [] turn = 4 -> "DIFFUSION"
                      [] turn = 5 -> "RDF" [] turn = 6 -> "VELOCITY"
  BY <1>1 DEF Interceptors, interceptor
<1>3. /\ Turn["TEMPERATURE"] = 3 /\ Turn["DIFFUSION"] = 4
      /\ Turn["RDF"] = 5 /\ Turn["VELOCITY"] = 6
  BY DEF Turn
<1>. QED BY <1>1, <1>2, <1>3 DEF Sensors

-----------------------------------------------------------------------------
(***************************************************************************)
(* The parts of the invariant, each from what a step does to a few things  *)
(***************************************************************************)

LEMMA NextTurnTypes ==
  ASSUME TypeOK, NextTurn
  PROVE  /\ turn' \in 1 .. 6
         /\ \/ turn' = turn + 1 /\ pc' = pc
            \/ turn = 6 /\ turn' = 1 /\ pc = "ending" /\ pc' = "finished"
            \/ turn = 6 /\ turn' = 1 /\ pc # "ending" /\ pc' = "loop"
<1>1. Len(Interceptors) = 6 /\ turn \in 1 .. 6
  BY Turns
<1>. QED BY <1>1 DEF NextTurn

\* Samples are not lost as long as rows only grow.
LEMMA SampledGrows ==
  ASSUME NEW s \in Sensors, NEW n \in Int, SampledUpTo(s, n),
         NEW m \in Int, m <= n,
         TypeOK, TypeOK',
         n <= EndIteration,
         \A i \in Iterations : rows'[s][i] >= rows[s][i],
         unseen[s] \subseteq unseen'[s],
         DOMAIN continued \subseteq DOMAIN continued',
         \A k \in DOMAIN continued : continued'[k] = continued[k]
  PROVE  SampledUpTo(s, m)'
<1>. SUFFICES ASSUME NEW i \in 0 .. m, Due(s, i)'
              PROVE  Sampled(s, i)'
  BY DEF SampledUpTo
<1>1. Due(s, i) /\ i \in Iterations /\ i \in 0 .. n
  BY DEF Due, Iterations
<1>2. Sampled(s, i)
  BY <1>1 DEF SampledUpTo
<1>3. rows[s][i] \in Nat /\ rows'[s][i] \in Nat
  BY <1>1 DEF TypeOK
<1>. QED BY <1>1, <1>2, <1>3 DEF Sampled

LEMMA SampledSame ==
  ASSUME rows' = rows, unseen' = unseen, continued' = continued
  PROVE  \A s, n : SampledUpTo(s, n)' <=> SampledUpTo(s, n)
  BY DEF SampledUpTo, Sampled, Due

\* What the phase is worth after a turn.
LEMMA PhasesTurn ==
  ASSUME TypeOK, Phases, NextTurn, pc \in {"starting", "notifying", "ending"},
         UNCHANGED <<iteration, start_iteration>>,
         continued' = continued \/ start_iteration = 0
  PROVE  Phases'
  BY NextTurnTypes, SMTT(30) DEF Phases, TypeOK, Iterations

\* The turn of another interceptor leaves the diffusion function alone.
LEMMA OldPositionsTurn ==
  ASSUME TypeOK, OldPositions, NextTurn, pc \in {"starting", "notifying", "ending"},
         turn # 4, UNCHANGED <<iteration, start_iteration, size, old_particle_positions, unlike>>
  PROVE  OldPositions'
<1>1. turn \in 1 .. 6
  BY Turns
<1>2. Initialized' => Initialized
  BY NextTurnTypes, <1>1 DEF Initialized
<1>3. \A i : Due("DIFFUSION", i)' <=> Due("DIFFUSION", i)
  BY DEF Due
<1>. QED BY NextTurnTypes, <1>1, <1>2, <1>3 DEF OldPositions

\* The turn of s itself must produce its sample; that of another interceptor must
\* not take any away.
LEMMA SamplesTurn ==
  ASSUME TypeOK, TypeOK', Phases, SavedTypes, NextTurn, pc \in {"starting", "notifying", "ending"},
         NEW s \in Sensors \ {"DIFFUSION"}, Samples(s),
         UNCHANGED <<iteration, start_iteration, saved, continued>>,
         pc = "starting" /\ turn = 1 => start_iteration > 0,
         \/ unseen[s] \subseteq unseen'[s] /\ \A i \in Iterations : rows'[s][i] >= rows[s][i]
         \/ pc = "starting" /\ start_iteration = 0 /\ turn = Turn[s],
         turn = Turn[s] /\ pc # "ending" /\ (pc = "starting" => start_iteration = 0)
            => SampledUpTo(s, iteration)'
  PROVE  Samples(s)'
<1>1. turn \in 1 .. 6 /\ Turn[s] \in 3 .. 6
  BY Turns DEF Turn, Sensors
<1>2. iteration \in 0 .. EndIteration /\ start_iteration \in 0 .. EndIteration
  BY DEF TypeOK, Iterations
<1>3. ASSUME \A i \in Iterations : rows'[s][i] >= rows[s][i], unseen[s] \subseteq unseen'[s]
      PROVE  \A n, m \in -1 .. EndIteration : m <= n /\ SampledUpTo(s, n) => SampledUpTo(s, m)'
  <2>. SUFFICES ASSUME NEW n \in -1 .. EndIteration, NEW m \in -1 .. EndIteration,
                       m <= n, SampledUpTo(s, n)
                PROVE  SampledUpTo(s, m)'
    OBVIOUS
  <2>. QED BY <1>3, SampledGrows
<1>4. CASE pc = "starting" /\ start_iteration = 0 /\ turn = Turn[s]
  <2>1. saved = None
    BY <1>1, <1>4 DEF Samples
  <2>2. SampledUpTo(s, iteration)'
    BY <1>4
  <2>. QED BY <1>1, <1>4, <2>1, <2>2, NextTurnTypes DEF Samples
<1>5. CASE unseen[s] \subseteq unseen'[s] /\ \A i \in Iterations : rows'[s][i] >= rows[s][i]
  <2>1. saved # None => SampledUpTo(s, saved.iteration - 1)'
    BY <1>3, <1>5 DEF Samples, SavedTypes
  <2>2. SampledUpTo(s, iteration) => SampledUpTo(s, iteration)'
    BY <1>2, <1>3, <1>5
  <2>3. SampledUpTo(s, iteration - 1) => SampledUpTo(s, iteration - 1)'
    BY <1>2, <1>3, <1>5
  <2>4. pc = "starting" => (pc' = "starting" /\ turn' = turn + 1) \/ (pc' = "loop" /\ turn = 6)
    BY <1>1, NextTurnTypes
  <2>5. CASE pc = "starting"
    BY <1>1, <1>2, <2>1, <2>2, <2>4, <2>5 DEF Samples
  <2>6. CASE pc = "notifying"
    <3>1. turn >= Turn[s] => SampledUpTo(s, iteration)'
      BY <1>1, <2>2, <2>6 DEF Samples
    <3>2. SampledUpTo(s, iteration - 1)'
      BY <2>3, <2>6 DEF Samples
    <3>3. \/ pc' = "notifying" /\ turn' = turn + 1
          \/ pc' = "loop" /\ turn' = 1 /\ turn = 6
      BY <1>1, <2>6, NextTurnTypes
    <3>4. CASE pc' = "notifying" /\ turn' = turn + 1
      BY <1>1, <2>1, <3>1, <3>2, <3>4 DEF Samples
    <3>5. CASE pc' = "loop" /\ turn = 6
      BY <1>1, <2>1, <3>1, <3>5 DEF Samples
    <3>. QED BY <3>3, <3>4, <3>5
  <2>7. CASE pc = "ending"
    BY <1>1, <1>2, <2>1, <2>2, <2>7, NextTurnTypes DEF Samples
  <2>. QED BY <2>5, <2>6, <2>7
<1>. QED BY <1>4, <1>5

-----------------------------------------------------------------------------
(***************************************************************************)
(* The process                                                             *)
(***************************************************************************)

LEMMA RowsType == NoRows \in [Iterations -> Nat]
  BY DEF NoRows, Iterations

LEMMA InitInv == Init => IInv
<1>. SUFFICES ASSUME Init PROVE IInv
  OBVIOUS
<1>1. TypeOK
  <2>1. turn \in DOMAIN Interceptors
    BY DEF Init, Interceptors
  <2>2. rows \in [Sensors -> [Iterations -> Nat]]
    BY RowsType DEF Init
  <2>. QED BY <2>1, <2>2 DEF Init, TypeOK, None, Iterations, NaN
<1>2. SavedTypes /\ Phases
  BY DEF Init, SavedTypes, Phases
<1>3. OldPositions
  BY DEF Init, OldPositions, Initialized
<1>4. \A s \in Sensors \ {"DIFFUSION"} : Samples(s)
  BY DEF Init, Samples
<1>. QED BY <1>1, <1>2, <1>3, <1>4 DEF IInv

\* Neither kind of start continues a simulation the CSV files do not belong to.
LEMMA StartInv ==
  ASSUME IInv, StartFromScratch \/ Continue
  PROVE  IInv'
<1>1. TypeOK'
  <2>1. turn' \in DOMAIN Interceptors
    BY DEF StartFromScratch, Continue, StartProcess, Interceptors
  <2>2. CASE StartFromScratch
    BY <2>1, <2>2 DEF IInv, TypeOK, StartFromScratch, StartProcess, files, Iterations
  <2>3. CASE Continue
    <3>1. saved \in [iteration : 1 .. EndIteration, temperature : Temperatures, size : 0 .. Size]
      BY <2>3 DEF IInv, SavedTypes, Continue
    <3>. QED BY <2>1, <2>3, <3>1
             DEF IInv, TypeOK, Continue, StartProcess, Iterations, Temperatures
  <2>. QED BY <2>2, <2>3
<1>2. SavedTypes'
  BY DEF IInv, SavedTypes, StartFromScratch, Continue, files, None
<1>3. Phases'
  BY DEF IInv, SavedTypes, Phases, TypeOK, StartFromScratch, Continue, StartProcess, files
<1>4. OldPositions'
  <2>1. /\ pc' = "starting" /\ turn' = 1 /\ old_particle_positions' = 0
        /\ unlike' = unlike
    BY DEF StartFromScratch, Continue, StartProcess, files
  <2>2. ~Initialized' /\ unlike \subseteq {EndIteration}
    BY <2>1 DEF Initialized, IInv, OldPositions
  <2>. QED BY <2>1, <2>2 DEF OldPositions
<1>5. ASSUME NEW s \in Sensors \ {"DIFFUSION"}
      PROVE  Samples(s)'
  <2>. Turn[s] \in 3 .. 6 /\ Samples(s)
    BY DEF Turn, Sensors, IInv
  <2>1. CASE StartFromScratch
    BY <2>1, SampledSame DEF Samples, StartFromScratch, StartProcess, files
  <2>2. CASE Continue
    <3>1. saved \in [iteration : 1 .. EndIteration, temperature : Temperatures, size : 0 .. Size]
      BY <2>2 DEF IInv, SavedTypes, Continue
    <3>2. SampledUpTo(s, saved.iteration - 1)
      BY <2>2 DEF Samples, Continue
    <3>3. rows' = rows /\ unseen' = unseen /\ continued \in Seq(1 .. EndIteration)
          /\ continued' = Append(continued, saved.iteration)
      BY <2>2 DEF Continue, IInv, TypeOK
    <3>4. SampledUpTo(s, saved.iteration)'
      <4>. SUFFICES ASSUME NEW i \in 0 .. saved.iteration, Due(s, i)
                    PROVE  Sampled(s, i)'
        BY <2>2 DEF SampledUpTo, Due, Continue
      <4>1. CASE i = saved.iteration
        <5>1. Len(continued) + 1 \in DOMAIN continued' /\ continued'[Len(continued) + 1] = i
          BY <3>1, <3>3, <4>1
        <5>. QED BY <5>1 DEF Sampled
      <4>2. CASE i # saved.iteration
        <5>1. Sampled(s, i)
          BY <3>1, <3>2, <4>2 DEF SampledUpTo
        <5>2. \A k \in DOMAIN continued : k \in DOMAIN continued' /\ continued'[k] = continued[k]
          BY <3>1, <3>3
        <5>. QED BY <3>3, <5>1, <5>2 DEF Sampled
      <4>. QED BY <4>1, <4>2
    <3>5. SampledUpTo(s, saved.iteration - 1)'
      BY <3>1, <3>4, <2>2 DEF SampledUpTo, Continue
    <3>6. /\ pc' = "starting" /\ start_iteration' = saved.iteration
          /\ iteration' = saved.iteration /\ saved' = saved
      BY <2>2 DEF Continue, StartProcess
    <3>. QED BY <3>1, <3>4, <3>5, <3>6 DEF Samples
  <2>. QED BY <2>1, <2>2
<1>. QED BY <1>1, <1>2, <1>3, <1>4, <1>5 DEF IInv

LEMMA StepInv == ASSUME IInv, Step PROVE IInv'
<1>1. TypeOK'
  <2>1. Moved(temperature) \subseteq Temperatures /\ NaN \in Temperatures
    BY DEF IInv, TypeOK, Moved, Temperatures, NaN
  <2>. QED BY <2>1 DEF IInv, TypeOK, Step, process, files, sampled, Iterations, Temperatures
<1>2. SavedTypes' /\ Phases'
  BY DEF IInv, TypeOK, SavedTypes, Phases, Step, process, files, Iterations, None
<1>3. OldPositions'
  <2>1. /\ pc' = "notifying" /\ turn' = 1 /\ iteration' = iteration + 1 /\ size' <= size
        /\ size \in 0 .. Size /\ size' \in 0 .. Size /\ old_particle_positions \in 0 .. Size
        /\ iteration \in Nat /\ start_iteration \in Nat
        /\ UNCHANGED <<start_iteration, old_particle_positions, unlike>>
    BY <1>1 DEF Step, IInv, TypeOK, Phases, process, files, sampled, Iterations
  <2>2. Initialized /\ pc = "loop"
    BY DEF Step, Initialized
  <2>3. \A i : Due("DIFFUSION", i)' <=> Due("DIFFUSION", i)
    BY DEF Due
  <2>4. start_iteration > 0 /\ size' > 0 =>
          \A i \in start_iteration' + 1 .. iteration' :
            Due("DIFFUSION", i)' => i = iteration' /\ pc' = "notifying" /\ turn' <= 4
    <3>. SUFFICES ASSUME start_iteration > 0, size' > 0,
                         NEW i \in start_iteration' + 1 .. iteration', Due("DIFFUSION", i)'
                  PROVE  i = iteration'
      BY <2>1
    <3>1. i = iteration + 1 \/ i \in start_iteration + 1 .. iteration
      BY <2>1
    <3>. QED BY <2>1, <2>2, <2>3, <3>1 DEF OldPositions, IInv
  <2>. QED BY <2>1, <2>2, <2>4 DEF OldPositions, IInv
<1>4. ASSUME NEW s \in Sensors \ {"DIFFUSION"} PROVE Samples(s)'
  <2>1. Turn[s] \in 3 .. 6 /\ Samples(s) /\ turn' = 1
    BY DEF Turn, Sensors, IInv, Step, Phases
  <2>2. pc' = "notifying" /\ saved' = saved /\ iteration' - 1 = iteration
    BY DEF Step, IInv, TypeOK, Iterations, files
  <2>3. SampledUpTo(s, iteration) /\ (saved # None => SampledUpTo(s, saved.iteration - 1))
    BY <2>1 DEF Samples, Step
  <2>4. SampledUpTo(s, iteration - 1)'
    BY <2>2, <2>3 DEF Step, files, SampledUpTo, Sampled, Due
  <2>5. (saved # None => SampledUpTo(s, saved.iteration - 1))'
    BY <2>2, <2>3 DEF Step, files, SampledUpTo, Sampled, Due
  <2>. QED BY <2>1, <2>2, <2>4, <2>5 DEF Samples
<1>. QED BY <1>1, <1>2, <1>3, <1>4 DEF IInv

\* The process dies, ends, or leaves its loop.
LEMMA StopInv ==
  ASSUME IInv, LeaveLoop \/ Crash \/ RefuseDiffusion \/ ReadOutOfRange \/ Over \/ UNCHANGED vars
  PROVE  IInv'
<1>. USE DEF LeaveLoop, Crash, RefuseDiffusion, ReadOutOfRange, Over, vars, process, files, sampled,
             particles
<1>1. TypeOK' /\ SavedTypes'
  BY DEF IInv, TypeOK, SavedTypes, None
<1>2. Phases'
  BY DEF IInv, Phases, Called
<1>3. OldPositions'
  <2>1. \A i : Due("DIFFUSION", i)' <=> Due("DIFFUSION", i)
    BY DEF Due
  <2>2. Called("notifying", "DIFFUSION") => pc = "notifying" /\ turn = 4
    BY Turns DEF Called, IInv, Turn, Sensors
  <2>3. start_iteration' = start_iteration /\ iteration' = iteration /\ size' = size
        /\ old_particle_positions' = old_particle_positions /\ unlike' = unlike /\ turn' = turn
    OBVIOUS
  <2>4. Initialized' => Initialized /\ (pc' = pc \/ pc' = "ending")
    BY <2>2, <2>3 DEF Initialized, Called
  <2>5. start_iteration \in Nat /\ size \in 0 .. Size /\ old_particle_positions \in 0 .. Size
    BY DEF IInv, TypeOK, Iterations
  <2>6. pc' = "failed" => start_iteration > 0 \/ size < Size
    <3>1. CASE RefuseDiffusion
      BY <3>1, <2>2, <2>5 DEF IInv, OldPositions, Initialized, Called
    <3>2. CASE ReadOutOfRange
      BY <3>2, <2>5 DEF IInv, OldPositions, Initialized, Called
    <3>. QED BY <3>1, <3>2 DEF IInv, OldPositions
  <2>7. pc' = "starting" => pc = "starting"
    OBVIOUS
  <2>8. ASSUME Initialized', start_iteration > 0, size > 0,
               NEW i \in start_iteration + 1 .. iteration, Due("DIFFUSION", i)
        PROVE  i = iteration /\ pc' = "notifying" /\ turn <= 4
    <3>1. i = iteration /\ pc = "notifying" /\ turn <= 4
      BY <2>4, <2>8 DEF IInv, OldPositions
    <3>. QED BY <2>4, <2>8, <3>1
  <2>. QED BY <2>1, <2>3, <2>4, <2>5, <2>6, <2>7, <2>8 DEF OldPositions, IInv
<1>4. ASSUME NEW s \in Sensors \ {"DIFFUSION"} PROVE Samples(s)'
  BY SampledSame DEF Samples, IInv
<1>. QED BY <1>1, <1>2, <1>3, <1>4 DEF IInv

-----------------------------------------------------------------------------
(***************************************************************************)
(* The interceptors                                                        *)
(***************************************************************************)

LEMMA TurnTypes ==
  ASSUME TypeOK, NextTurn
  PROVE  turn' \in DOMAIN Interceptors /\ pc' \in {pc, "finished", "loop"}
  BY NextTurnTypes DEF Interceptors

LEMMA WriteCheckpointInv == ASSUME IInv, WriteCheckpoint PROVE IInv'
<1>. USE DEF IInv
<1>1. /\ turn = 1 /\ turn' = 2 /\ pc' = pc /\ pc \in {"starting", "notifying", "ending"}
      /\ UNCHANGED <<iteration, start_iteration, size, old_particle_positions, unlike, rows, unseen>>
  BY Turns, NextTurnTypes DEF WriteCheckpoint, Called, process, particles, sampled
<1>2. pc = "starting" /\ start_iteration = 0 <=> iteration = 0
  BY <1>1 DEF Phases, WriteCheckpoint, TypeOK, Iterations, Called
<1>3. TypeOK'
  <2>1. saved'.iteration \in Iterations
    BY DEF WriteCheckpoint, TypeOK, None
  <2>2. continued' \in Seq(1 .. EndIteration)
    <3>1. continued' = <<>> \/ continued' = continued
      BY DEF WriteCheckpoint
    <3>2. continued \in Seq(1 .. EndIteration)
      BY DEF TypeOK
    <3>3. <<>> \in Seq(1 .. EndIteration)
      OBVIOUS
    <3>. QED BY <3>1, <3>2, <3>3
  <2>. QED BY TurnTypes, <1>1, <2>1, <2>2 DEF WriteCheckpoint, TypeOK, process, particles, sampled
<1>4. SavedTypes'
  BY <1>1 DEF WriteCheckpoint, SavedTypes, TypeOK, Iterations, Temperatures, None
<1>5. Phases'
  BY <1>1, <1>2, PhasesTurn DEF WriteCheckpoint
<1>6. OldPositions'
  BY <1>1, OldPositionsTurn DEF WriteCheckpoint
<1>7. ASSUME NEW s \in Sensors \ {"DIFFUSION"} PROVE Samples(s)'
  <2>1. Turn[s] \in {3, 5, 6} /\ Samples(s) /\ iteration \in Nat
    BY SensorTurns DEF TypeOK, Iterations
  <2>2. CASE iteration = 0
    BY <1>1, <1>2, <2>1, <2>2 DEF Samples, WriteCheckpoint
  <2>3. CASE iteration # 0
    <3>1. saved' = [iteration |-> iteration, temperature |-> temperature, size |-> size]
          /\ continued' = continued
      BY <2>3 DEF WriteCheckpoint
    <3>2. pc = "starting" => start_iteration > 0
      BY <1>2, <2>3 DEF TypeOK, Iterations
    <3>3. SampledUpTo(s, iteration - 1)
      <4>1. SampledUpTo(s, iteration) => SampledUpTo(s, iteration - 1)
        BY <2>1 DEF SampledUpTo
      <4>. QED BY <1>1, <2>1, <3>2, <4>1 DEF Samples
    <3>4. (saved # None => SampledUpTo(s, saved.iteration - 1))'
      BY <1>1, <3>1, <3>3 DEF SampledUpTo, Sampled, Due
    <3>5. \A n : SampledUpTo(s, n)' <=> SampledUpTo(s, n)
      BY <1>1, <3>1, SampledSame
    <3>. QED BY <1>1, <2>1, <3>2, <3>4, <3>5 DEF Samples
  <2>. QED BY <2>2, <2>3
<1>. QED BY <1>3, <1>4, <1>5, <1>6, <1>7

LEMMA ScaleTemperatureInv == ASSUME IInv, ScaleTemperature PROVE IInv'
<1>. USE DEF IInv
<1>1. /\ turn = 2 /\ pc = "notifying"
      /\ UNCHANGED <<iteration, start_iteration, size, old_particle_positions, unlike, rows,
                     unseen, saved, continued>>
  BY Turns DEF ScaleTemperature, Called, process, files, sampled
<1>2. Scaled(temperature) \in Temperatures
  <2>. DEFINE t == temperature
              d == Distance(t)
  <2>1. CASE t = NaN \/ t = 0
    BY <2>1 DEF Scaled, Temperatures
  <2>2. CASE ~(t = NaN \/ t = 0)
    <3>1. t \in 0 .. MaxTemperature
      BY <2>2 DEF TypeOK
    <3>2. d \in Nat /\ (target_temperature > t => t + d = target_temperature)
          /\ (~(target_temperature > t) => t - d = target_temperature)
      BY <3>1 DEF Distance
    <3>3. Min({d, max_temperature_change}) \in 0 .. d
      <4>1. d \in Int /\ max_temperature_change \in Int
        BY <3>2
      <4>. HIDE DEF d
      <4>2. /\ Min({d, max_temperature_change}) \in {d, max_temperature_change}
            /\ Min({d, max_temperature_change}) <= d
        BY <4>1, MinOfTwo
      <4>. QED BY <3>2, <4>2
    <3>. QED BY <2>2, <3>1, <3>2, <3>3 DEF Scaled, Temperatures
  <2>. QED BY <2>1, <2>2
<1>3. TypeOK'
  BY TurnTypes, <1>1, <1>2 DEF ScaleTemperature, TypeOK, Temperatures, process, files, sampled
<1>4. SavedTypes'
  BY <1>1 DEF SavedTypes
<1>5. Phases' /\ OldPositions'
  BY <1>1, PhasesTurn, OldPositionsTurn DEF ScaleTemperature
<1>6. ASSUME NEW s \in Sensors \ {"DIFFUSION"} PROVE Samples(s)'
  <2>1. Turn[s] \in {3, 5, 6} /\ unseen[s] \subseteq unseen'[s]
        /\ \A i \in Iterations : rows'[s][i] >= rows[s][i]
    BY <1>1, SensorTurns DEF TypeOK
  <2>. QED BY <1>1, <1>3, <2>1, SamplesTurn DEF ScaleTemperature
<1>. QED BY <1>3, <1>4, <1>5, <1>6

LEMMA InitializeInv == ASSUME IInv, Initialize PROVE IInv'
<1>. USE DEF IInv
<1>1. /\ turn \in {3, 5, 6} /\ pc = "starting" /\ interceptor \in Sensors
      /\ turn = Turn[interceptor]
      /\ UNCHANGED <<iteration, start_iteration, size, old_particle_positions, unlike, saved,
                     continued>>
  BY Turns DEF Initialize, Sensors, process, particles, sampled, Turn
<1>2. TypeOK'
  <2>1. CASE start_iteration = 0
    <3>1. PICK first \in {0, 1} : rows' = [rows EXCEPT ![interceptor] = [NoRows EXCEPT ![0] = first]]
      BY <2>1 DEF Initialize
    <3>2. [NoRows EXCEPT ![0] = first] \in [Iterations -> Nat]
      BY RowsType DEF NoRows, Iterations
    <3>3. rows' \in [Sensors -> [Iterations -> Nat]]
      BY <1>1, <3>1, <3>2 DEF TypeOK
    <3>4. PICK none \in {{}, {0}} : unseen' = [unseen EXCEPT ![interceptor] = none]
      BY <2>1 DEF Initialize
    <3>5. {} \subseteq Iterations /\ {0} \subseteq Iterations
      BY DEF Iterations
    <3>6. unseen' \in [Sensors -> SUBSET Iterations]
      BY <1>1, <3>4, <3>5 DEF TypeOK
    <3>. QED BY TurnTypes, <1>1, <3>3, <3>6 DEF Initialize, TypeOK, process, particles, sampled
  <2>2. CASE start_iteration # 0
    BY TurnTypes, <1>1, <2>2 DEF Initialize, TypeOK, process, particles, sampled
  <2>. QED BY <2>1, <2>2
<1>3. SavedTypes' /\ Phases' /\ OldPositions'
  BY <1>1, PhasesTurn, OldPositionsTurn DEF Initialize, SavedTypes
<1>4. ASSUME NEW s \in Sensors \ {"DIFFUSION"} PROVE Samples(s)'
  <2>. DEFINE first == start_iteration = 0 /\ turn = Turn[s]
  <2>1. interceptor = s <=> turn = Turn[s]
    BY Turns
  <2>2. CASE first
    <3>1. (rows'[s][0] = 1 \/ 0 \in unseen'[s]) /\ iteration = 0
      BY <1>1, <2>1, <2>2 DEF Initialize, TypeOK, Phases, NoRows, Iterations
    <3>2. SampledUpTo(s, iteration)'
      BY <1>1, <3>1 DEF SampledUpTo, Sampled
    <3>. QED BY <1>1, <1>2, <2>2, <3>2, SamplesTurn DEF Initialize
  <2>3. CASE ~first
    <3>1. rows'[s] = rows[s] /\ unseen'[s] = unseen[s] /\ \A i \in Iterations : rows[s][i] \in Nat
      BY <1>1, <2>1, <2>3 DEF Initialize, TypeOK
    <3>2. unseen[s] \subseteq unseen'[s] /\ \A i \in Iterations : rows'[s][i] >= rows[s][i]
      BY <3>1
    <3>. QED BY <1>1, <1>2, <2>3, <3>2, SamplesTurn DEF Initialize
  <2>. QED BY <2>2, <2>3
<1>. QED BY <1>2, <1>3, <1>4

\* A row more, and none less.
LEMMA WriteRowGrows ==
  ASSUME TypeOK, WriteRow, interceptor \in Sensors
  PROVE  /\ rows' \in [Sensors -> [Iterations -> Nat]]
         /\ \A s \in Sensors, i \in Iterations : rows'[s][i] >= rows[s][i]
         /\ rows'[interceptor][iteration] > 0
<1>1. rows \in [Sensors -> [Iterations -> Nat]] /\ iteration \in Iterations
  BY DEF TypeOK
<1>2. rows' = [rows EXCEPT ![interceptor][iteration] = rows[interceptor][iteration] + 1]
  BY DEF WriteRow
<1>3. rows' \in [Sensors -> [Iterations -> Nat]]
  BY <1>1, <1>2
<1>4. rows'[interceptor][iteration] = rows[interceptor][iteration] + 1
      /\ rows[interceptor][iteration] \in Nat
  BY <1>1, <1>2
<1>5. ASSUME NEW s \in Sensors, NEW i \in Iterations
      PROVE  rows'[s][i] >= rows[s][i]
  <2>1. rows[s][i] \in Nat
    BY <1>1
  <2>2. CASE s = interceptor /\ i = iteration
    BY <1>4, <2>2
  <2>3. CASE s # interceptor
    BY <1>1, <1>2, <2>1, <2>3
  <2>4. CASE s = interceptor /\ i # iteration
    <3>1. rows'[s] = [rows[s] EXCEPT ![iteration] = rows[s][iteration] + 1]
      BY <1>1, <1>2, <2>4
    <3>. QED BY <1>1, <2>1, <2>4, <3>1
  <2>. QED BY <2>2, <2>3, <2>4
<1>. QED BY <1>3, <1>4, <1>5

\* A row more, or one that is known to be missing.
LEMMA TakeSampleGrows ==
  ASSUME TypeOK, TakeSample, interceptor \in Sensors
  PROVE  /\ rows' \in [Sensors -> [Iterations -> Nat]] /\ unseen' \in [Sensors -> SUBSET Iterations]
         /\ \A s \in Sensors : unseen[s] \subseteq unseen'[s]
         /\ \A s \in Sensors, i \in Iterations : rows'[s][i] >= rows[s][i]
         /\ rows'[interceptor][iteration] > 0 \/ iteration \in unseen'[interceptor]
<1>1. CASE WriteRow /\ UNCHANGED unseen
  BY <1>1, WriteRowGrows DEF TypeOK
<1>2. CASE /\ unseen' = [unseen EXCEPT ![interceptor] = @ \cup {iteration}]
           /\ UNCHANGED rows
  <2>1. \A s \in Sensors, i \in Iterations : rows[s][i] \in Nat
    BY DEF TypeOK
  <2>. QED BY <1>2, <2>1 DEF TypeOK
<1>. QED BY <1>1, <1>2 DEF TakeSample

LEMMA SampleInv == ASSUME IInv, Sample PROVE IInv'
<1>. USE DEF IInv
<1>1. /\ turn \in {3, 5, 6} /\ pc \in {"notifying", "ending"} /\ interceptor \in Sensors
      /\ turn = Turn[interceptor]
      /\ UNCHANGED <<iteration, start_iteration, size, old_particle_positions, unlike, saved,
                     continued>>
  BY Turns DEF Sample, Sensors, process, particles, sampled, Turn
<1>2. /\ rows' \in [Sensors -> [Iterations -> Nat]] /\ unseen' \in [Sensors -> SUBSET Iterations]
      /\ \A s \in Sensors : unseen[s] \subseteq unseen'[s]
      /\ \A s \in Sensors, i \in Iterations : rows'[s][i] >= rows[s][i]
      /\ rows'[interceptor][iteration] > 0 \/ iteration \in unseen'[interceptor]
  BY <1>1, TakeSampleGrows DEF Sample
<1>3. TypeOK'
  BY TurnTypes, <1>1, <1>2 DEF Sample, TypeOK, process, particles, sampled
<1>4. SavedTypes' /\ Phases' /\ OldPositions'
  BY <1>1, PhasesTurn, OldPositionsTurn DEF Sample, SavedTypes
<1>5. ASSUME NEW s \in Sensors \ {"DIFFUSION"} PROVE Samples(s)'
  <2>1. interceptor = s <=> turn = Turn[s]
    BY Turns
  <2>2. ASSUME turn = Turn[s], pc = "notifying"
        PROVE  SampledUpTo(s, iteration)'
    <3>1. iteration' = iteration /\ iteration \in Nat /\ iteration - 1 \in -1 .. EndIteration
          /\ iteration <= EndIteration
      BY <1>1 DEF TypeOK, Iterations
    <3>2. SampledUpTo(s, iteration - 1)
      BY <2>2 DEF Samples
    <3>3. SampledUpTo(s, iteration - 1)'
      BY <1>1, <1>2, <1>3, <3>1, <3>2, SampledGrows
    <3>4. Sampled(s, iteration)'
      BY <1>2, <2>1, <2>2, <3>1 DEF Sampled
    <3>5. ASSUME NEW i \in 0 .. iteration', Due(s, i)'
          PROVE  Sampled(s, i)'
      <4>1. CASE i = iteration
        BY <3>1, <3>4, <4>1 DEF Sampled
      <4>2. CASE i # iteration
        BY <3>1, <3>3, <3>5, <4>2 DEF SampledUpTo
      <4>. QED BY <4>1, <4>2
    <3>. QED BY <3>5 DEF SampledUpTo
  <2>. QED BY <1>1, <1>2, <1>3, <2>2, SamplesTurn DEF Sample
<1>. QED BY <1>3, <1>4, <1>5

LEMMA InitializeDiffusionInv == ASSUME IInv, InitializeDiffusion PROVE IInv'
<1>. USE DEF IInv
<1>1. /\ turn = 4 /\ pc = "starting" /\ turn' = 5 /\ pc' = "starting"
      /\ UNCHANGED <<iteration, start_iteration, size, unseen, saved, continued>>
  BY Turns, NextTurnTypes DEF InitializeDiffusion, Called, Sensors, process, particles, Turn
<1>2. TypeOK'
  <2>1. last_sampled_iteration' \in Iterations
    BY LastSampleType DEF InitializeDiffusion, TypeOK
  <2>2. rows' \in [Sensors -> [Iterations -> Nat]]
    BY RowsType DEF InitializeDiffusion, TypeOK, Sensors
  <2>3. old_particle_positions' \in 0 .. Size /\ unlike' \subseteq Iterations
    BY DEF InitializeDiffusion, TypeOK
  <2>. QED BY TurnTypes, <1>1, <2>1, <2>2, <2>3
           DEF InitializeDiffusion, TypeOK, process, particles
<1>3. SavedTypes' /\ Phases'
  BY <1>1, PhasesTurn DEF InitializeDiffusion, SavedTypes
<1>4. OldPositions'
  <2>1. start_iteration = iteration /\ iteration \in Nat /\ size \in 0 .. Size
        /\ old_particle_positions = 0
    BY <1>1 DEF Phases, OldPositions, TypeOK, Iterations
  <2>2. CASE start_iteration = 0
    BY <1>1, <2>1, <2>2 DEF InitializeDiffusion, OldPositions
  <2>3. CASE start_iteration # 0
    <3>1. old_particle_positions' = 0 /\ unlike' = unlike /\ unlike \subseteq {EndIteration}
      BY <2>1, <2>3 DEF InitializeDiffusion, OldPositions
    <3>2. start_iteration' + 1 .. iteration' = {} /\ start_iteration' > 0
      BY <1>1, <2>1, <2>3
    <3>. QED BY <1>1, <3>1, <3>2 DEF OldPositions
  <2>. QED BY <2>2, <2>3
<1>5. ASSUME NEW s \in Sensors \ {"DIFFUSION"} PROVE Samples(s)'
  <2>1. rows'[s] = rows[s] /\ Turn[s] # 4
    <3>1. rows' = rows \/ rows' = [rows EXCEPT !["DIFFUSION"] = NoRows]
      BY DEF InitializeDiffusion
    <3>2. rows \in [Sensors -> [Iterations -> Nat]] /\ s # "DIFFUSION" /\ s \in Sensors
      BY DEF TypeOK
    <3>3. Turn[s] # 4
      BY SensorTurns
    <3>. QED BY <3>1, <3>2, <3>3
  <2>3. \A i \in Iterations : rows[s][i] \in Nat
    BY DEF TypeOK
  <2>2. unseen[s] \subseteq unseen'[s] /\ \A i \in Iterations : rows'[s][i] >= rows[s][i]
    BY <1>1, <2>1, <2>3
  <2>. QED BY <1>1, <1>2, <2>1, <2>2, SamplesTurn DEF InitializeDiffusion
<1>. QED BY <1>2, <1>3, <1>4, <1>5

LEMMA DiffusionInv == ASSUME IInv, SampleDiffusion \/ SampleLastDiffusion PROVE IInv'
<1>. USE DEF IInv
<1>1. /\ turn = 4 /\ pc \in {"notifying", "ending"} /\ turn' = 5 /\ pc' = pc /\ NextTurn
      /\ interceptor \in Sensors
      /\ UNCHANGED <<iteration, start_iteration, size, unseen, saved, continued>>
  BY Turns, NextTurnTypes
  DEF SampleDiffusion, SampleLastDiffusion, Called, Sensors, process, particles, Turn
<1>2. /\ rows' \in [Sensors -> [Iterations -> Nat]]
      /\ \A s \in Sensors, i \in Iterations : rows'[s][i] >= rows[s][i]
  BY <1>1, WriteRowGrows DEF SampleDiffusion, SampleLastDiffusion, WriteDiffusion
<1>3. TypeOK'
  <2>1. unlike' \subseteq Iterations /\ last_sampled_iteration' \in Iterations
    BY DEF SampleDiffusion, SampleLastDiffusion, WriteDiffusion, TypeOK, sampled
  <2>2. old_particle_positions' \in 0 .. Size
    BY DEF SampleDiffusion, SampleLastDiffusion, TypeOK, sampled
  <2>. QED BY TurnTypes, <1>1, <1>2, <2>1, <2>2
           DEF SampleDiffusion, SampleLastDiffusion, TypeOK, process, particles
<1>4. SavedTypes' /\ Phases'
  BY <1>1, PhasesTurn DEF SavedTypes
<1>5. OldPositions'
  <2>1. Initialized /\ start_iteration \in Nat /\ iteration \in Nat /\ size \in 0 .. Size
    BY <1>1 DEF Initialized, TypeOK, Iterations
  <2>2. \A i : Due("DIFFUSION", i)' <=> Due("DIFFUSION", i)
    BY DEF Due
  <2>3. CASE SampleDiffusion
    <3>1. old_particle_positions = size /\ old_particle_positions' = size /\ unlike' = unlike
      BY <2>3 DEF SampleDiffusion, WriteDiffusion
    <3>2. start_iteration = 0 \/ size = 0
      BY <2>1, <3>1 DEF OldPositions
    <3>. QED BY <1>1, <2>1, <3>1, <3>2 DEF OldPositions
  <2>4. CASE SampleLastDiffusion
    <3>1. /\ old_particle_positions' = old_particle_positions /\ pc = "ending"
          /\ unlike' = IF size = old_particle_positions THEN unlike ELSE unlike \cup {iteration}
      BY <2>4 DEF SampleLastDiffusion, WriteDiffusion, Called, sampled
    <3>2. iteration = EndIteration /\ old_particle_positions \in 0 .. Size
      BY <3>1 DEF Phases, TypeOK
    <3>3. unlike' \subseteq {EndIteration}
      BY <3>1, <3>2 DEF OldPositions
    <3>4. start_iteration = 0 => size <= old_particle_positions /\ (size = Size => unlike' = {})
      BY <2>1, <3>1, <3>2 DEF OldPositions
    <3>. QED BY <1>1, <2>1, <2>2, <3>1, <3>3, <3>4 DEF OldPositions
  <2>. QED BY <2>3, <2>4
<1>6. ASSUME NEW s \in Sensors \ {"DIFFUSION"} PROVE Samples(s)'
  BY <1>1, <1>2, <1>3, SensorTurns, SamplesTurn
<1>. QED BY <1>3, <1>4, <1>5, <1>6

LEMMA PassTurnInv == ASSUME IInv, PassTurn PROVE IInv'
<1>. USE DEF IInv
<1>1. /\ turn \in 1 .. 6 /\ pc \in {"starting", "notifying", "ending"} /\ NextTurn
      /\ UNCHANGED <<iteration, start_iteration, size, old_particle_positions, unlike, saved,
                     continued, rows, unseen>>
  BY Turns DEF PassTurn, process, particles, files, sampled
<1>2. TypeOK'
  BY TurnTypes, <1>1 DEF PassTurn, TypeOK, process, particles, files, sampled
<1>3. SavedTypes' /\ Phases'
  BY <1>1, PhasesTurn DEF SavedTypes
<1>4. OldPositions'
  <2>1. CASE turn # 4
    BY <1>1, <2>1, OldPositionsTurn
  <2>2. CASE turn = 4
    <3>1. pc' = pc /\ turn' = 5
      BY <1>1, <2>2, NextTurnTypes
    <3>2. interceptor = "DIFFUSION"
      BY <2>2, Turns DEF Turn, Sensors
    <3>3. Initialized /\ (pc = "ending" \/ ~Due("DIFFUSION", iteration))
      BY <3>2 DEF PassTurn, Initialized
    <3>4. \A i : Due("DIFFUSION", i)' <=> Due("DIFFUSION", i)
      BY DEF Due
    <3>5. start_iteration > 0 /\ size > 0 =>
            \A i \in start_iteration + 1 .. iteration : ~Due("DIFFUSION", i)
      BY <3>3, <2>2 DEF OldPositions
    <3>. QED BY <1>1, <3>1, <3>3, <3>4, <3>5 DEF OldPositions
  <2>. QED BY <2>1, <2>2
<1>5. ASSUME NEW s \in Sensors \ {"DIFFUSION"} PROVE Samples(s)'
  <2>1. interceptor = s <=> turn = Turn[s]
    BY Turns
  <2>2. unseen[s] \subseteq unseen'[s] /\ (\A i \in Iterations : rows'[s][i] >= rows[s][i])
        /\ Turn[s] \in {3, 5, 6}
    BY <1>1, SensorTurns DEF TypeOK
  <2>3. pc = "starting" /\ turn = 1 => start_iteration > 0
    BY Turns DEF PassTurn, TypeOK, Iterations
  <2>4. ASSUME turn = Turn[s], pc # "ending", pc = "starting" => start_iteration = 0
        PROVE  SampledUpTo(s, iteration)'
    <3>1. s # "CHKPT" /\ s # "THERMOSTAT"
      BY DEF Sensors
    <3>2. pc = "notifying" /\ ~Due(s, iteration)
      BY <2>1, <2>4, <3>1 DEF PassTurn
    <3>3. SampledUpTo(s, iteration - 1) /\ iteration \in Nat
      BY <3>2 DEF Samples, TypeOK, Iterations
    <3>4. SampledUpTo(s, iteration)
      BY <3>2, <3>3 DEF SampledUpTo
    <3>. QED BY <1>1, <3>4 DEF SampledUpTo, Sampled, Due
  <2>. QED BY <1>1, <1>2, <2>2, <2>3, <2>4, SamplesTurn
<1>. QED BY <1>2, <1>3, <1>4, <1>5

-----------------------------------------------------------------------------
(***************************************************************************)
(* The inductive invariant                                                 *)
(***************************************************************************)

LEMMA NextInv == IInv /\ [Next]_vars => IInv'
  BY StartInv, StepInv, StopInv, WriteCheckpointInv, ScaleTemperatureInv, InitializeInv,
     SampleInv, InitializeDiffusionInv, DiffusionInv, PassTurnInv
  DEF Next

\* The inductive invariant: what the checkpoint and the CSV files contain at
\* every point between two crashes, and how far the diffusion function is.
THEOREM Invariance == Spec => []IInv
  BY InitInv, NextInv, PTL DEF Spec

-----------------------------------------------------------------------------
(***************************************************************************)
(* How often a sample is written                                           *)
(***************************************************************************)

\* How many samples of an iteration there may be.
MayHold(i) ==
    1 + Continuations(0 .. i - 1) + IF i = EndIteration THEN 1 + Len(continued) ELSE 0

\* How many of them the process can still write: one when it is notified, and
\* one at its end.
Ahead(s, i) ==
    (IF i > iteration \/ (i = iteration /\ pc = "notifying" /\ turn <= Turn[s]) THEN 1 ELSE 0)
    + (IF i = EndIteration /\ pc # "finished" /\ ~(pc = "ending" /\ turn > Turn[s])
       THEN 1 ELSE 0)

\* The file belongs to the simulation that is running.
Opened(s) ==
    \/ pc = "starting" /\ (start_iteration > 0 \/ turn > Turn[s])
    \/ pc \in {"loop", "notifying", "ending", "finished"}

\* The process has room for the samples ahead, and so has the next one, if it can
\* be continued.
Room(s) ==
    /\ saved # None => \A i \in Iterations : rows[s][i] <= MayHold(i)
    /\ Opened(s) => \A i \in Iterations : rows[s][i] + Ahead(s, i) <= MayHold(i)

\* The continuations before an iteration are counted, and a later one only adds
\* to them.
LEMMA CountType ==
  ASSUME NEW c \in Seq(1 .. EndIteration), NEW S
  PROVE  Cardinality({k \in DOMAIN c : c[k] \in S}) \in Nat
<1>. DEFINE C == {k \in DOMAIN c : c[k] \in S}
<1>1. DOMAIN c = 1 .. Len(c) /\ Len(c) \in Nat
  OBVIOUS
<1>2. IsFiniteSet(1 .. Len(c))
  BY <1>1, FS_Interval
<1>3. IsFiniteSet(C)
  BY <1>1, <1>2, FS_Subset
<1>. QED BY <1>3, FS_CardinalityType

LEMMA ContinuationsAppend ==
  ASSUME continued \in Seq(1 .. EndIteration), NEW c \in 1 .. EndIteration,
         continued' = Append(continued, c)
  PROVE  \A S : Continuations(S)' = Continuations(S) + IF c \in S THEN 1 ELSE 0
<1>. SUFFICES ASSUME NEW S
              PROVE  Continuations(S)' = Continuations(S) + IF c \in S THEN 1 ELSE 0
  OBVIOUS
<1>. DEFINE C == {k \in DOMAIN continued : continued[k] \in S}
            n == Len(continued)
            D == {k \in DOMAIN continued' : continued'[k] \in S}
<1>1. DOMAIN continued = 1 .. n /\ n \in Nat
  OBVIOUS
<1>2. IsFiniteSet(1 .. n)
  BY <1>1, FS_Interval
<1>3. IsFiniteSet(C)
  BY <1>1, <1>2, FS_Subset
<1>4. /\ DOMAIN continued' = 1 .. n + 1
      /\ continued'[n + 1] = c
      /\ \A k \in 1 .. n : continued'[k] = continued[k]
  OBVIOUS
<1>5. D = IF c \in S THEN C \cup {n + 1} ELSE C
  BY <1>1, <1>4
<1>6. n + 1 \notin C
  BY <1>1
<1>7. Cardinality(C \cup {n + 1}) = Cardinality(C) + 1
  BY <1>3, <1>6, FS_AddElement
<1>8. Cardinality(C) \in Nat
  BY <1>3, FS_CardinalityType
<1>9. Continuations(S) = Cardinality(C) /\ Continuations(S)' = Cardinality(D)
  BY DEF Continuations
<1>. HIDE DEF C, D, n
<1>. QED BY <1>5, <1>7, <1>8, <1>9

LEMMA MayHoldType ==
  ASSUME continued \in Seq(1 .. EndIteration)
  PROVE  \A i \in Iterations : MayHold(i) \in Nat
                            /\ MayHold(i) >= 1 + IF i = EndIteration THEN 1 ELSE 0
<1>1. Len(continued) \in Nat
  OBVIOUS
<1>2. \A S : Continuations(S) \in Nat
  BY CountType DEF Continuations
<1>. QED BY <1>1, <1>2 DEF MayHold

\* After a step, too.
LEMMA MayHoldTypeNext ==
  ASSUME continued' \in Seq(1 .. EndIteration)
  PROVE  \A i \in Iterations : MayHold(i)' \in Nat
                            /\ MayHold(i)' >= 1 + IF i = EndIteration THEN 1 ELSE 0
<1>1. Len(continued') \in Nat
  OBVIOUS
<1>2. \A S : Continuations(S)' \in Nat
  BY CountType DEF Continuations
<1>. QED BY <1>1, <1>2 DEF MayHold

LEMMA MayHoldSame ==
  ASSUME continued' = continued
  PROVE  \A i : MayHold(i)' = MayHold(i)
  BY DEF MayHold, Continuations

LEMMA AheadType == \A s \in Sensors, i \in Iterations : Ahead(s, i) \in {0, 1, 2}
  BY DEF Ahead

LEMMA AllTurns == \A s \in Sensors : Turn[s] \in 3 .. 6
  BY DEF Turn, Sensors

\* After a turn, there is less ahead: for the sensor that has written, one
\* sample less.
LEMMA AheadTurn ==
  ASSUME TypeOK, Phases, NextTurn, iteration' = iteration,
         pc \in {"starting", "notifying", "ending"},
         NEW s \in Sensors, NEW i \in Iterations
  PROVE  /\ Ahead(s, i)' <= Ahead(s, i)
         /\ turn = Turn[s] /\ i = iteration /\ pc # "starting" => Ahead(s, i)' + 1 <= Ahead(s, i)
<1>1. /\ turn \in 1 .. 6 /\ Turn[s] \in 3 .. 6 /\ i \in Int /\ iteration \in Int
      /\ pc = "ending" => iteration = EndIteration
  BY Turns, AllTurns DEF TypeOK, Iterations, Phases
<1>2. CASE turn' = turn + 1 /\ pc' = pc
  BY <1>1, <1>2 DEF Ahead
<1>3. CASE turn = 6 /\ turn' = 1 /\ pc = "ending" /\ pc' = "finished"
  BY <1>1, <1>3 DEF Ahead
<1>4. CASE turn = 6 /\ turn' = 1 /\ pc # "ending" /\ pc' = "loop"
  BY <1>1, <1>4 DEF Ahead
<1>. QED BY <1>2, <1>3, <1>4, NextTurnTypes

LEMMA OpenedTurn ==
  ASSUME TypeOK, NextTurn, start_iteration' = start_iteration,
         pc \in {"starting", "notifying", "ending"}, NEW s \in Sensors
  PROVE  Opened(s)' => Opened(s) \/ (pc = "starting" /\ start_iteration = 0 /\ turn = Turn[s])
<1>1. turn \in 1 .. 6 /\ Turn[s] \in 3 .. 6 /\ start_iteration \in Nat
  BY Turns, AllTurns, SMTT(30) DEF TypeOK, Iterations
<1>. QED BY <1>1, NextTurnTypes DEF Opened

\* The first file of a simulation is opened when there is no checkpoint.
LEMMA NothingSaved ==
  ASSUME IInv, pc = "starting", start_iteration = 0, turn > 1
  PROVE  saved = None
<1>1. Samples("RDF")
  BY DEF IInv, Sensors
<1>. QED BY <1>1 DEF Samples

\* A turn in which the sensor writes at most the sample it is notified for.
LEMMA RoomTurn ==
  ASSUME IInv, TypeOK', NextTurn, pc \in {"starting", "notifying", "ending"},
         NEW s \in Sensors, Room(s), UNCHANGED <<iteration, start_iteration, continued>>,
         saved' = saved \/ (Opened(s) /\ turn # Turn[s]),
         pc = "starting" /\ start_iteration = 0 => turn # Turn[s],
         \A i \in Iterations :
            rows'[s][i] <= rows[s][i] + IF turn = Turn[s] /\ pc # "starting" /\ i = iteration
                                        THEN 1 ELSE 0
  PROVE  Room(s)'
<1>1. /\ rows \in [Sensors -> [Iterations -> Nat]] /\ rows' \in [Sensors -> [Iterations -> Nat]]
      /\ continued \in Seq(1 .. EndIteration) /\ continued' = continued
  BY DEF IInv, TypeOK
<1>8. \A i \in Iterations : rows[s][i] \in Nat /\ rows'[s][i] \in Nat
  BY <1>1
<1>9. \A i \in Iterations : /\ MayHold(i) \in Nat /\ MayHold(i)' = MayHold(i)
                            /\ Ahead(s, i) \in {0, 1, 2} /\ Ahead(s, i)' \in {0, 1, 2}
  <2>1. \A i \in Iterations : MayHold(i) \in Nat /\ MayHold(i)' = MayHold(i)
    BY <1>1, MayHoldType, MayHoldSame
  <2>. QED BY <2>1 DEF Ahead
<1>2. Opened(s)' => Opened(s)
  BY OpenedTurn DEF IInv
<1>3. \A i \in Iterations :
         /\ Ahead(s, i)' <= Ahead(s, i)
         /\ turn = Turn[s] /\ i = iteration /\ pc # "starting" => Ahead(s, i)' + 1 <= Ahead(s, i)
  BY AheadTurn DEF IInv
<1>4. pc # "starting" => Opened(s)
  BY DEF Opened
<1>5. ASSUME Opened(s), NEW i \in Iterations
      PROVE  rows'[s][i] <= MayHold(i)' /\ rows'[s][i] + Ahead(s, i)' <= MayHold(i)'
  <2>1. rows[s][i] + Ahead(s, i) <= MayHold(i)
    BY <1>5 DEF Room
  <2>. QED BY <1>8, <1>9, <1>3, <2>1
<1>6. ASSUME saved' # None, NEW i \in Iterations
      PROVE  rows'[s][i] <= MayHold(i)'
  <2>1. CASE Opened(s)
    BY <1>5, <2>1
  <2>2. CASE ~Opened(s)
    BY <1>8, <1>9, <1>4, <1>6, <2>2 DEF Room
  <2>. QED BY <2>1, <2>2
<1>. QED BY <1>2, <1>5, <1>6 DEF Room

\* The turn in which a simulation from scratch overwrites the file.
LEMMA RoomFirst ==
  ASSUME IInv, TypeOK', NextTurn, pc = "starting", start_iteration = 0,
         NEW s \in Sensors, turn = Turn[s], UNCHANGED <<iteration, start_iteration, saved>>,
         \A i \in Iterations : rows'[s][i] \in Nat /\ rows'[s][i] <= IF i = 0 /\ s # "DIFFUSION" THEN 1 ELSE 0
  PROVE  Room(s)'
<1>1. iteration = 0 /\ turn \in 3 .. 6
  BY DEF IInv, Phases, Turn, Sensors
<1>2. saved' = None
  BY <1>1, NothingSaved
<1>3. pc' \in {"starting", "loop"}
  BY NextTurnTypes DEF IInv
<1>4. ASSUME NEW i \in Iterations
      PROVE  rows'[s][i] + Ahead(s, i)' <= MayHold(i)'
  <2>1. MayHold(i)' \in Nat /\ MayHold(i)' >= 1 + IF i = EndIteration THEN 1 ELSE 0
    BY MayHoldTypeNext DEF TypeOK
  <2>2. Ahead(s, i)' = (IF i > 0 THEN 1 ELSE 0) + (IF i = EndIteration THEN 1 ELSE 0)
    BY <1>1, <1>3 DEF Ahead
  <2>3. i \in Nat /\ rows'[s][i] \in Nat /\ rows'[s][i] <= IF i = 0 /\ s # "DIFFUSION" THEN 1 ELSE 0
    BY DEF Iterations
  <2>. QED BY <2>1, <2>2, <2>3
<1>. QED BY <1>2, <1>4 DEF Room

LEMMA RoomInit == Init => \A s \in Sensors : Room(s)
<1>. SUFFICES ASSUME Init, NEW s \in Sensors PROVE Room(s)
  OBVIOUS
<1>. QED BY DEF Init, Room, Opened

\* A process that continues may write what comes after the checkpoint once more.
LEMMA RoomStart ==
  ASSUME IInv, StartFromScratch \/ Continue, NEW s \in Sensors, Room(s)
  PROVE  Room(s)'
<1>1. pc' = "starting" /\ turn' = 1 /\ rows' = rows /\ saved' = saved /\ Turn[s] \in 3 .. 6
  BY AllTurns DEF StartFromScratch, Continue, StartProcess, files
<1>2. CASE StartFromScratch
  <2>1. ~Opened(s)' /\ continued' = continued
    BY <1>1, <1>2 DEF Opened, StartFromScratch, files
  <2>. QED BY <1>1, <2>1, MayHoldSame DEF Room
<1>3. CASE Continue
  <2>. DEFINE c == saved.iteration
  <2>1. saved \in [iteration : 1 .. EndIteration, temperature : Temperatures, size : 0 .. Size]
        /\ continued \in Seq(1 .. EndIteration)
    BY <1>3 DEF IInv, SavedTypes, Continue, TypeOK
  <2>2. c \in 1 .. EndIteration /\ continued' = Append(continued, c) /\ iteration' = c
        /\ saved # None
    BY <1>3, <2>1 DEF Continue
  <2>. HIDE DEF c
  <2>3. \A S : Continuations(S)' = Continuations(S) + IF c \in S THEN 1 ELSE 0
    BY <2>1, <2>2, ContinuationsAppend
  <2>4. \A S : Continuations(S) \in Nat
    BY <2>1, CountType DEF Continuations
  <2>5. Len(continued) \in Nat /\ Len(continued') = Len(continued) + 1
    BY <2>1, <2>2
  <2>6. ASSUME NEW i \in Iterations
        PROVE  rows'[s][i] + Ahead(s, i)' <= MayHold(i)' /\ rows'[s][i] <= MayHold(i)'
    <3>1. i \in Nat /\ (c \in 0 .. i - 1 <=> i > c)
      BY <2>2 DEF Iterations
    <3>2. Ahead(s, i)' = (IF i > c THEN 1 ELSE 0) + (IF i = EndIteration THEN 1 ELSE 0)
      BY <1>1, <2>2 DEF Ahead
    <3>3. MayHold(i)' = MayHold(i) + (IF i > c THEN 1 ELSE 0) + (IF i = EndIteration THEN 1 ELSE 0)
      <4>1. Continuations(0 .. i - 1)' = Continuations(0 .. i - 1) + IF i > c THEN 1 ELSE 0
        BY <2>3, <3>1
      <4>2. Continuations(0 .. i - 1) \in Nat
        BY <2>4
      <4>3. PICK now \in Nat : now = Continuations(0 .. i - 1)
        BY <4>2
      <4>4. PICK later \in Nat : /\ later = Continuations(0 .. i - 1)'
                                /\ later = now + IF i > c THEN 1 ELSE 0
        BY <4>1, <4>3
      <4>5. PICK n \in Nat : n = Len(continued) /\ Len(continued') = n + 1
        BY <2>5
      <4>6. MayHold(i) = 1 + now + IF i = EndIteration THEN 1 + n ELSE 0
        BY <4>3, <4>5, Zenon DEF MayHold
      <4>7. MayHold(i)' = 1 + later + IF i = EndIteration THEN 1 + (n + 1) ELSE 0
        BY <4>4, <4>5, Zenon DEF MayHold
      <4>. QED BY <4>4, <4>6, <4>7
    <3>4. rows[s][i] <= MayHold(i) /\ rows[s][i] \in Nat /\ MayHold(i) \in Nat
      BY <2>1, <2>2, MayHoldType DEF Room, IInv, TypeOK
    <3>. QED BY <1>1, <3>2, <3>3, <3>4
  <2>. QED BY <2>6 DEF Room
<1>. QED BY <1>2, <1>3

\* An iteration more, or the end of the loop or of the process.
LEMMA RoomStep ==
  ASSUME IInv, NEW s \in Sensors, Room(s),
         \/ Step \/ LeaveLoop \/ Crash \/ RefuseDiffusion \/ ReadOutOfRange \/ Over
         \/ UNCHANGED vars
  PROVE  Room(s)'
<1>. USE DEF process, files, sampled, particles
<1>1. rows' = rows /\ saved' = saved /\ continued' = continued /\ Turn[s] \in 3 .. 6
  BY AllTurns DEF Step, LeaveLoop, Crash, RefuseDiffusion, ReadOutOfRange, Over, vars
<1>2. /\ \A i : MayHold(i)' = MayHold(i)
      /\ \A i \in Iterations : MayHold(i) \in Nat /\ rows[s][i] \in Nat
  BY <1>1, MayHoldSame, MayHoldType DEF IInv, TypeOK
<1>3. Opened(s)' => Opened(s)
  BY DEF Opened, Step, LeaveLoop, Crash, RefuseDiffusion, ReadOutOfRange, Over, vars
<1>4. ASSUME Opened(s)', NEW i \in Iterations
      PROVE  Ahead(s, i)' = Ahead(s, i)
  <2>1. i \in Nat /\ iteration \in Nat
    BY DEF IInv, TypeOK, Iterations
  <2>2. CASE Step
    <3>1. pc = "loop" /\ pc' = "notifying" /\ turn' = 1 /\ iteration' = iteration + 1
      BY <2>2 DEF Step, IInv, Phases
    <3>. QED BY <1>1, <2>1, <3>1 DEF Ahead
  <2>3. CASE LeaveLoop
    <3>1. pc = "loop" /\ pc' = "ending" /\ turn' = 1 /\ iteration' = iteration
      BY <2>3 DEF LeaveLoop, IInv, Phases
    <3>. QED BY <1>1, <2>1, <3>1 DEF Ahead
  <2>4. CASE Crash \/ RefuseDiffusion \/ ReadOutOfRange
    BY <1>4, <2>4 DEF Opened, Crash, RefuseDiffusion, ReadOutOfRange
  <2>5. CASE Over \/ UNCHANGED vars
    BY <2>5 DEF Over, vars, Ahead
  <2>. QED BY <2>2, <2>3, <2>4, <2>5
<1>. QED BY <1>1, <1>2, <1>3, <1>4 DEF Room

\* The turns in which nothing is written to a file.
LEMMA RoomOther ==
  ASSUME IInv, TypeOK', NEW s \in Sensors, Room(s),
         WriteCheckpoint \/ ScaleTemperature \/ PassTurn
  PROVE  Room(s)'
<1>. USE DEF process, files, sampled, particles
<1>1. /\ NextTurn /\ pc \in {"starting", "notifying", "ending"}
      /\ UNCHANGED <<iteration, start_iteration, rows>>
  BY DEF WriteCheckpoint, ScaleTemperature, PassTurn, Called
<1>2. rows \in [Sensors -> [Iterations -> Nat]] /\ Turn[s] \in 3 .. 6 /\ turn \in 1 .. 6
  BY AllTurns, Turns DEF IInv, TypeOK
<1>3. \A i \in Iterations : rows'[s][i] = rows[s][i] + 0 /\ rows[s][i] \in Nat
  BY <1>1, <1>2
<1>4. CASE WriteCheckpoint
  <2>1. turn = 1 /\ turn' = 2 /\ pc' = pc
    BY <1>4, Turns, NextTurnTypes DEF WriteCheckpoint, Called, IInv
  <2>2. CASE iteration = 0
    <3>1. pc = "starting" /\ start_iteration = 0
      <4>1. start_iteration \in Nat /\ iteration = 0
        BY <2>2 DEF IInv, TypeOK, Iterations
      <4>2. pc \notin {"notifying", "ending"}
        BY <4>1 DEF IInv, Phases
      <4>. QED BY <1>4, <4>2 DEF WriteCheckpoint, Called
    <3>2. saved' = None /\ ~Opened(s)'
      BY <1>1, <1>2, <1>4, <2>1, <2>2, <3>1 DEF WriteCheckpoint, Opened
    <3>. QED BY <3>2 DEF Room
  <2>3. CASE iteration # 0
    <3>1. continued' = continued /\ (pc = "starting" => start_iteration > 0)
      BY <1>4, <2>3 DEF WriteCheckpoint, IInv, Phases, TypeOK, Iterations
    <3>2. Opened(s)
      BY <1>1, <3>1 DEF Opened
    <3>3. turn # Turn[s]
      BY <1>2, <2>1
    <3>. QED BY <1>1, <1>3, <2>1, <3>1, <3>2, <3>3, RoomTurn
  <2>. QED BY <2>2, <2>3
<1>5. CASE ScaleTemperature
  <2>1. turn = 2 /\ continued' = continued /\ saved' = saved
    BY <1>5, Turns DEF ScaleTemperature, Called, IInv
  <2>. QED BY <1>1, <1>2, <1>3, <2>1, RoomTurn
<1>6. CASE PassTurn
  <2>1. /\ continued' = continued /\ saved' = saved
        /\ pc = "starting" /\ start_iteration = 0 => turn # Turn[s]
    BY <1>6, <1>2, Turns DEF PassTurn, IInv, Sensors
  <2>. QED BY <1>1, <1>2, <1>3, <2>1, RoomTurn
<1>. QED BY <1>4, <1>5, <1>6

\* The turns in which a sensor writes to its own file.
LEMMA RoomSample ==
  ASSUME IInv, TypeOK', NEW s \in Sensors, Room(s),
         Sample \/ SampleDiffusion \/ SampleLastDiffusion
  PROVE  Room(s)'
<1>. USE DEF process, files, sampled, particles
<1>1. /\ NextTurn /\ pc \in {"notifying", "ending"} /\ interceptor \in Sensors
      /\ WriteRow \/ rows' = rows
      /\ UNCHANGED <<iteration, start_iteration, saved, continued>>
  BY DEF Sample, TakeSample, SampleDiffusion, SampleLastDiffusion, WriteDiffusion, Called, Sensors
<1>2. interceptor = s <=> turn = Turn[s]
  BY Turns DEF IInv
<1>3. rows \in [Sensors -> [Iterations -> Nat]] /\ iteration \in Iterations
  BY DEF IInv, TypeOK
<1>4. \/ rows' = [rows EXCEPT ![interceptor][iteration] = rows[interceptor][iteration] + 1]
      \/ rows' = rows
  BY <1>1 DEF WriteRow
<1>5. ASSUME NEW i \in Iterations
      PROVE  rows'[s][i] <= rows[s][i] + IF turn = Turn[s] /\ pc # "starting" /\ i = iteration
                                         THEN 1 ELSE 0
  <2>1. rows[s] \in [Iterations -> Nat] /\ rows[s][i] \in Nat
    BY <1>3
  <2>2. CASE turn = Turn[s]
    <3>1. rows'[s] = [rows[s] EXCEPT ![iteration] = rows[s][iteration] + 1] \/ rows'[s] = rows[s]
      BY <1>2, <1>3, <1>4, <2>2
    <3>2. rows'[s][i] <= rows[s][i] + IF i = iteration THEN 1 ELSE 0
      <4>1. CASE rows'[s] = rows[s]
        BY <2>1, <4>1
      <4>2. CASE rows'[s] = [rows[s] EXCEPT ![iteration] = rows[s][iteration] + 1]
        BY <1>3, <2>1, <4>2
      <4>. QED BY <3>1, <4>1, <4>2
    <3>. QED BY <1>1, <2>2, <3>2
  <2>3. CASE turn # Turn[s]
    <3>1. rows'[s] = rows[s]
      BY <1>1, <1>2, <1>3, <1>4, <2>3
    <3>. QED BY <2>1, <2>3, <3>1
  <2>. QED BY <2>2, <2>3
<1>. QED BY <1>1, <1>5, RoomTurn

\* The turns in which a file is opened.
LEMMA RoomOpen ==
  ASSUME IInv, TypeOK', NEW s \in Sensors, Room(s), Initialize \/ InitializeDiffusion
  PROVE  Room(s)'
<1>. USE DEF process, files, sampled, particles
<1>1. /\ NextTurn /\ pc = "starting" /\ interceptor \in Sensors
      /\ UNCHANGED <<iteration, start_iteration, saved, continued>>
  BY DEF Initialize, InitializeDiffusion, Called, Sensors
<1>2. interceptor = s <=> turn = Turn[s]
  BY Turns DEF IInv
<1>3. rows \in [Sensors -> [Iterations -> Nat]] /\ NoRows \in [Iterations -> Nat]
      /\ 0 \in Iterations
  <2>1. 0 \in Iterations
    BY DEF Iterations
  <2>. QED BY <2>1, RowsType DEF IInv, TypeOK
<1>4. PICK first \in {0, 1} :
        rows' = IF start_iteration # 0 THEN rows
                ELSE [rows EXCEPT ![interceptor] = IF interceptor = "DIFFUSION" THEN NoRows
                                                   ELSE [NoRows EXCEPT ![0] = first]]
  <2>1. CASE Initialize
    BY <2>1 DEF Initialize
  <2>2. CASE InitializeDiffusion
    BY <2>2 DEF InitializeDiffusion, Called
  <2>. QED BY <2>1, <2>2
<1>5. CASE start_iteration = 0 /\ turn = Turn[s]
  <2>1. rows'[s] = IF s = "DIFFUSION" THEN NoRows ELSE [NoRows EXCEPT ![0] = first]
    BY <1>2, <1>3, <1>4, <1>5
  <2>2. \A i \in Iterations : NoRows[i] = 0
    BY DEF NoRows, Iterations
  <2>3. \A i \in Iterations : rows'[s][i] \in Nat
                                /\ rows'[s][i] <= IF i = 0 /\ s # "DIFFUSION" THEN 1 ELSE 0
    BY <1>3, <2>1, <2>2
  <2>. QED BY <1>1, <1>5, <2>3, RoomFirst
<1>6. CASE ~(start_iteration = 0 /\ turn = Turn[s])
  <2>1. rows'[s] = rows[s]
    BY <1>2, <1>3, <1>4, <1>6
  <2>2. \A i \in Iterations :
           rows'[s][i] <= rows[s][i] + IF turn = Turn[s] /\ pc # "starting" /\ i = iteration
                                       THEN 1 ELSE 0
    BY <1>1, <1>3, <2>1
  <2>. QED BY <1>1, <1>6, <2>2, RoomTurn
<1>. QED BY <1>5, <1>6

LEMMA RoomNext ==
  ASSUME IInv, IInv', [Next]_vars, NEW s \in Sensors, Room(s)
  PROVE  Room(s)'
<1>1. TypeOK'
  BY DEF IInv
<1>. QED BY <1>1, RoomStart, RoomStep, RoomOther, RoomSample, RoomOpen DEF Next

\* For every file there is room for the samples ahead, in this process and the next.
THEOREM RoomAlways == Spec => [](\A s \in Sensors : Room(s))
<1>. DEFINE Rooms == \A s \in Sensors : Room(s)
<1>1. Init => Rooms
  BY RoomInit
<1>2. IInv /\ IInv' /\ Rooms /\ [Next]_vars => Rooms'
  BY RoomNext
<1>. QED BY <1>1, <1>2, Invariance, PTL DEF Spec

-----------------------------------------------------------------------------
(***************************************************************************)
(* The temperature                                                         *)
(***************************************************************************)

\* Of the initial temperatures, the distance of the one farthest from the target.
Farthest == Max({Distance(t) : t \in InitialTemperatures})

\* How often the thermostat has been due.
Applications(i) == i \div application_interval

\* A temperature that has not reached the target yet has moved by one in every
\* iteration, and towards it in every application but one for each of the
\* continuations.
OnItsWay(d, i, continuations) ==
    d <= Farthest + i - Applications(i) * max_temperature_change
                  + continuations * max_temperature_change

\* One that has, if the thermostat is strong enough to keep it there.
Held(d, i, continuations) ==
    /\ application_interval <= max_temperature_change
    /\ d <= continuations * application_interval + i - Applications(i) * application_interval

Near(t, i, continuations) ==
    t # NaN => OnItsWay(Distance(t), i, continuations) \/ Held(Distance(t), i, continuations)

\* An iteration has passed, but the thermostat has not been applied.
NearBefore(t, i, continuations) ==
    t # NaN => \/ OnItsWay(Distance(t) - 1, i - 1, continuations)
               \/ Held(Distance(t) - 1, i - 1, continuations)

Regulated ==
    /\ InitialTemperatures # {}
    /\ pc = "starting" /\ start_iteration = 0 => temperature \in InitialTemperatures
    /\ pc \in {"starting", "loop", "ending", "finished"} =>
         Near(temperature, iteration, Len(continued))
    /\ pc = "notifying" =>
         IF turn <= 2 THEN NearBefore(temperature, iteration, Len(continued))
         ELSE Near(temperature, iteration, Len(continued))
    /\ saved # None => NearBefore(saved.temperature, saved.iteration, Len(continued))

\* In an iteration in which it is due, the thermostat is applied once more; in
\* another one, it is not.
LEMMA ApplicationsStep ==
  ASSUME NEW i \in Nat \ {0}
  PROVE  /\ Applications(i) \in Nat /\ Applications(i - 1) \in Nat
         /\ Applications(i) = Applications(i - 1)
                              + IF Due("THERMOSTAT", i) THEN 1 ELSE 0
<1>1. ASSUME NEW a \in Nat \ {0}, NEW j \in Nat \ {0}
      PROVE  /\ (j \div a) \in Nat /\ ((j - 1) \div a) \in Nat
             /\ j \div a = ((j - 1) \div a) + IF j % a = 0 THEN 1 ELSE 0
  <2>. DEFINE q == j \div a
              p == (j - 1) \div a
              r == j % a
              u == (j - 1) % a
  <2>1. q \in Nat /\ p \in Nat
    OBVIOUS
  <2>2. j = a * q + r /\ r \in 0 .. a - 1 /\ j - 1 = a * p + u /\ u \in 0 .. a - 1
    OBVIOUS
  <2>. HIDE DEF q, p, r, u
  <2>3. a * (q - p) = a * q - a * p
    BY <2>1
  <2>4. a * (q - p) = 1 + u - r
    BY <2>1, <2>2, <2>3
  <2>5. q - p \in Int /\ 1 + u - r \in 2 - a .. a
    BY <2>1, <2>2
  <2>6. q - p \in {0, 1}
    <3>1. CASE q - p >= 2
      <4>1. a * (q - p) >= a * 2
        BY <3>1, <2>5
      <4>. QED BY <4>1, <2>4, <2>5
    <3>2. CASE q - p <= -1
      <4>1. a * (q - p) <= a * (-1)
        BY <3>2, <2>5
      <4>. QED BY <4>1, <2>4, <2>5
    <3>. QED BY <2>5, <3>1, <3>2
  <2>7. CASE q - p = 0
    <3>1. r = 1 + u
      BY <2>2, <2>4, <2>7
    <3>. QED BY <2>1, <2>2, <2>7, <3>1 DEF q, p, r, u
  <2>8. CASE q - p = 1
    <3>1. a = 1 + u - r
      BY <2>4, <2>5, <2>8
    <3>2. r = 0
      BY <3>1, <2>2
    <3>. QED BY <2>1, <2>8, <3>2 DEF q, p, r, u
  <2>. QED BY <2>6, <2>7, <2>8
<1>. QED BY <1>1 DEF Applications, Due, EveryNth

LEMMA ApplicationsRest ==
  ASSUME NEW i \in Nat
  PROVE  /\ Applications(i) \in Nat
         /\ i - Applications(i) * application_interval \in 0 .. application_interval - 1
<1>1. ASSUME NEW a \in Nat \ {0}, NEW j \in Nat
      PROVE  (j \div a) \in Nat /\ j - (j \div a) * a \in 0 .. a - 1
  <2>1. j = a * (j \div a) + (j % a) /\ j % a \in 0 .. a - 1 /\ (j \div a) \in Nat
    OBVIOUS
  <2>2. a * (j \div a) = (j \div a) * a
    BY <2>1
  <2>. QED BY <2>1, <2>2
<1>. QED BY <1>1 DEF Applications

LEMMA DistanceType == \A t \in 0 .. MaxTemperature : Distance(t) \in 0 .. MaxTemperature
  BY DEF Distance

\* A set of numbers up to n that is not empty has a greatest element: its least
\* bound.
LEMMA MaxExists ==
  ASSUME NEW n \in Nat, NEW S \in SUBSET (0 .. n), S # {}
  PROVE  Max(S) \in S /\ \A y \in S : y <= Max(S)
<1>. DEFINE Less == OpToRel(<, Nat)
            Bounds == {m \in Nat : \A y \in S : y <= m}
<1>1. IsWellFoundedOn(Less, Nat)
  BY NatLessThanWellFounded
<1>2. \A u, v \in Nat : <<u, v>> \in Less <=> u < v
  BY DEF OpToRel
<1>3. Bounds \subseteq Nat /\ Bounds # {}
  <2>1. n \in Bounds
    OBVIOUS
  <2>. QED BY <2>1
<1>4. \A m : m \in Bounds <=> m \in Nat /\ \A y \in S : y <= m
  OBVIOUS
<1>. HIDE DEF Less, Bounds
<1>5. PICK m \in Bounds : \A k \in Bounds : <<k, m>> \notin Less
  BY <1>1, <1>3, WFMin
<1>6. m \in Nat /\ \A y \in S : y \in Nat /\ y <= m
  BY <1>4
<1>7. m \in S
  <2>1. SUFFICES ASSUME m \notin S PROVE FALSE
    OBVIOUS
  <2>2. \A y \in S : y <= m - 1
    BY <1>6, <2>1
  <2>6. PICK y \in S : TRUE
    OBVIOUS
  <2>3. m - 1 \in Nat
    BY <1>6, <2>2, <2>6
  <2>4. m - 1 \in Bounds
    BY <1>4, <2>2, <2>3
  <2>5. m - 1 < m
    BY <1>6
  <2>7. <<m - 1, m>> \in Less
    BY <1>2, <1>6, <2>3, <2>5
  <2>. QED BY <1>5, <2>4, <2>7, Zenon
<1>8. \E x \in S : \A y \in S : x >= y
  BY <1>6, <1>7
<1>9. Max(S) \in S /\ \A y \in S : Max(S) >= y
  BY <1>8, Zenon DEF Max
<1>. QED BY <1>6, <1>9

LEMMA FarthestIs ==
  ASSUME InitialTemperatures # {}
  PROVE  Farthest \in Nat /\ \A t \in InitialTemperatures : Distance(t) <= Farthest
<1>. DEFINE S == {Distance(t) : t \in InitialTemperatures}
<1>1. S \in SUBSET (0 .. MaxTemperature) /\ S # {} /\ MaxTemperature \in Nat
  BY DistanceType
<1>2. Farthest = Max(S)
  BY DEF Farthest
<1>3. \A t \in InitialTemperatures : Distance(t) \in S
  OBVIOUS
<1>5. \A y \in S : y \in Nat
  BY <1>1
<1>. HIDE DEF S
<1>4. Max(S) \in S /\ \A y \in S : y <= Max(S)
  BY <1>1, MaxExists
<1>. QED BY <1>2, <1>3, <1>4, <1>5, Zenon

\* In every application, the thermostat takes off what it may.
LEMMA ScaledDistance ==
  ASSUME NEW t \in 1 .. MaxTemperature
  PROVE  /\ Distance(t) <= max_temperature_change => Distance(Scaled(t)) = 0
         /\ Distance(t) > max_temperature_change =>
              Distance(Scaled(t)) = Distance(t) - max_temperature_change
<1>1. Distance(t) \in Nat /\ max_temperature_change \in Nat
  BY DistanceType
<1>2. PICK d \in Nat : d = Distance(t)
  BY <1>1
<1>3. PICK m \in Nat : m = max_temperature_change
  BY <1>1
<1>4. PICK c \in Nat : c = IF d <= m THEN d ELSE m
  OBVIOUS
<1>5. Min({d, m}) = c
  BY MinOfTwo, <1>4
<1>6. Scaled(t) = IF target_temperature > t THEN t + c ELSE t - c
  BY <1>2, <1>3, <1>5 DEF Scaled, NaN
<1>7. c <= d /\ d = IF t < target_temperature THEN target_temperature - t
                    ELSE t - target_temperature
  BY <1>2, <1>4 DEF Distance
<1>8. Distance(Scaled(t)) = d - c
  <2>1. CASE target_temperature > t
    BY <1>6, <1>7, <2>1 DEF Distance
  <2>2. CASE ~(target_temperature > t)
    BY <1>6, <1>7, <2>2 DEF Distance
  <2>. QED BY <2>1, <2>2
<1>. QED BY <1>2, <1>3, <1>4, <1>8

\* What an iteration, an application and a continuation do to the bounds.
LEMMA BoundsStep ==
  ASSUME NEW i \in Nat \ {0}, NEW L \in Nat, NEW d \in Int, InitialTemperatures # {}
  PROVE  LET a == application_interval
             m == max_temperature_change
         IN  /\ OnItsWay(d - 1, i - 1, L) =>
                  /\ OnItsWay(IF Due("THERMOSTAT", i) THEN d - m ELSE d, i, L)
                  /\ d <= Farthest + i - Applications(i) * m + (L + 1) * m
             /\ Held(d - 1, i - 1, L) =>
                  /\ Held(IF Due("THERMOSTAT", i) THEN d - m ELSE d, i, L)
                  /\ d <= (L + 1) * a + i - Applications(i) * a
             /\ OnItsWay(d, i, L) =>
                  /\ OnItsWay(d - 1, i - 1, L)
                  /\ d <= Farthest + i - Applications(i) * m + (L + 1) * m
             /\ Held(d, i, L) =>
                  /\ Held(d - 1, i - 1, L)
                  /\ d <= (L + 1) * a + i - Applications(i) * a
             /\ OnItsWay(0, i, L) \/ Held(0, i, L)
<1>1. PICK m \in Nat : m = max_temperature_change
  OBVIOUS
<1>2. PICK a \in Nat \ {0} : a = application_interval
  OBVIOUS
<1>3. PICK q \in Nat : q = Applications(i)
  BY ApplicationsStep
<1>4. PICK p \in Nat : p = Applications(i - 1)
  BY ApplicationsStep
<1>5. q = p + IF Due("THERMOSTAT", i) THEN 1 ELSE 0
  BY <1>3, <1>4, ApplicationsStep
<1>6. PICK F \in Nat : F = Farthest
  BY FarthestIs
<1>7. i - q * a \in 0 .. a - 1
  BY <1>2, <1>3, ApplicationsRest
<1>8. PICK qm \in Nat, qa \in Nat, pm \in Nat, pa \in Nat, Lm \in Nat, La \in Nat :
         qm = q * m /\ qa = q * a /\ pm = p * m /\ pa = p * a /\ Lm = L * m /\ La = L * a
  <2>1. /\ q * m \in Nat /\ q * a \in Nat /\ p * m \in Nat /\ p * a \in Nat
        /\ L * m \in Nat /\ L * a \in Nat
    OBVIOUS
  <2>. QED BY <2>1
<1>9. m < a => qm <= qa
  BY <1>8
<1>10. /\ Due("THERMOSTAT", i) => qm = pm + m /\ qa = pa + a
       /\ ~Due("THERMOSTAT", i) => qm = pm /\ qa = pa
       /\ (L + 1) * m = Lm + m /\ (L + 1) * a = La + a
  <2>1. /\ (p + 1) * m = p * m + m /\ (p + 1) * a = p * a + a
        /\ (L + 1) * m = L * m + m /\ (L + 1) * a = L * a + a
    OBVIOUS
  <2>. QED BY <1>5, <1>8, <2>1
<1>11. \A e \in Int :
         /\ OnItsWay(e, i, L) <=> e <= F + i - qm + Lm
         /\ OnItsWay(e, i - 1, L) <=> e <= F + (i - 1) - pm + Lm
         /\ Held(e, i, L) <=> a <= m /\ e <= La + i - qa
         /\ Held(e, i - 1, L) <=> a <= m /\ e <= La + (i - 1) - pa
  BY <1>1, <1>2, <1>3, <1>4, <1>6, <1>8 DEF OnItsWay, Held
<1>12. i - qa \in 0 .. a - 1
  BY <1>7, <1>8
<1>13. /\ Farthest + i - Applications(i) * max_temperature_change + (L + 1) * max_temperature_change
          = F + i - qm + (Lm + m)
       /\ (L + 1) * application_interval + i - Applications(i) * application_interval
          = (La + a) + i - qa
  BY <1>1, <1>2, <1>3, <1>6, <1>8, <1>10
<1>14. CASE Due("THERMOSTAT", i)
  <2>1. qm = pm + m /\ qa = pa + a
    BY <1>10, <1>14
  <2>2. OnItsWay(0, i, L) \/ Held(0, i, L)
    BY <1>9, <1>11, <1>12
  <2>3. /\ OnItsWay(d - 1, i - 1, L) => OnItsWay(d - m, i, L) /\ d <= F + i - qm + (Lm + m)
        /\ OnItsWay(d, i, L) => OnItsWay(d - 1, i - 1, L) /\ d <= F + i - qm + (Lm + m)
    BY <1>11, <2>1
  <2>4. /\ Held(d - 1, i - 1, L) => Held(d - m, i, L) /\ d <= (La + a) + i - qa
        /\ Held(d, i, L) => Held(d - 1, i - 1, L) /\ d <= (La + a) + i - qa
    BY <1>11, <2>1
  <2>. QED BY <1>1, <1>2, <1>13, <1>14, <2>2, <2>3, <2>4
<1>15. CASE ~Due("THERMOSTAT", i)
  <2>1. qm = pm /\ qa = pa
    BY <1>10, <1>15
  <2>2. OnItsWay(0, i, L) \/ Held(0, i, L)
    BY <1>9, <1>11, <1>12
  <2>3. /\ OnItsWay(d - 1, i - 1, L) => OnItsWay(d, i, L) /\ d <= F + i - qm + (Lm + m)
        /\ OnItsWay(d, i, L) => OnItsWay(d - 1, i - 1, L) /\ d <= F + i - qm + (Lm + m)
    BY <1>11, <2>1
  <2>4. /\ Held(d - 1, i - 1, L) => Held(d, i, L) /\ d <= (La + a) + i - qa
        /\ Held(d, i, L) => Held(d - 1, i - 1, L) /\ d <= (La + a) + i - qa
    BY <1>11, <2>1
  <2>. QED BY <1>1, <1>2, <1>13, <1>15, <2>2, <2>3, <2>4
<1>. QED BY <1>14, <1>15

\* What is so far from the target may be closer to it.
LEMMA Closer ==
  ASSUME NEW L \in Nat, InitialTemperatures # {},
         NEW i \in Nat, NEW d \in Int, NEW e \in Int, e <= d
  PROVE  /\ OnItsWay(d, i, L) => OnItsWay(e, i, L)
         /\ Held(d, i, L) => Held(e, i, L)
<1>1. /\ Farthest \in Nat /\ Applications(i) \in Nat
      /\ application_interval \in Nat /\ max_temperature_change \in Nat
  BY FarthestIs, ApplicationsRest
<1>2. /\ Applications(i) * max_temperature_change \in Int
      /\ L * max_temperature_change \in Int
      /\ Applications(i) * application_interval \in Int
      /\ L * application_interval \in Int
  BY <1>1
<1>3. PICK x \in Int, y \in Int :
         /\ x = Farthest + i - Applications(i) * max_temperature_change
                  + L * max_temperature_change
         /\ y = L * application_interval + i - Applications(i) * application_interval
  BY <1>1, <1>2
<1>. QED BY <1>3 DEF OnItsWay, Held

\* The turn of the thermostat; and a checkpoint after it.
LEMMA NearTurn ==
  ASSUME NEW L \in Nat, InitialTemperatures # {},
         NEW i \in Nat \ {0}, NEW t \in Temperatures
  PROVE  /\ NearBefore(t, i, L) => Near(IF Due("THERMOSTAT", i) THEN Scaled(t) ELSE t, i, L)
         /\ Near(t, i, L) => NearBefore(t, i, L)
<1>. DEFINE d == Distance(t)
            m == max_temperature_change
<1>1. CASE t = NaN
  BY <1>1 DEF Near, NearBefore, Scaled
<1>2. CASE t # NaN
  <2>1. t \in 0 .. MaxTemperature /\ d \in Nat /\ m \in Nat
    BY <1>2, DistanceType DEF Temperatures
  <2>. HIDE DEF d, m
  <2>3. /\ OnItsWay(d - 1, i - 1, L) => OnItsWay(IF Due("THERMOSTAT", i) THEN d - m ELSE d, i, L)
        /\ Held(d - 1, i - 1, L) => Held(IF Due("THERMOSTAT", i) THEN d - m ELSE d, i, L)
        /\ OnItsWay(d, i, L) => OnItsWay(d - 1, i - 1, L)
        /\ Held(d, i, L) => Held(d - 1, i - 1, L)
        /\ OnItsWay(0, i, L) \/ Held(0, i, L)
    BY <2>1, BoundsStep DEF m
  <2>4. Near(t, i, L) => NearBefore(t, i, L)
    BY <2>3 DEF Near, NearBefore, d
  <2>5. ASSUME NearBefore(t, i, L)
        PROVE  Near(IF Due("THERMOSTAT", i) THEN Scaled(t) ELSE t, i, L)
    <3>1. OnItsWay(d - 1, i - 1, L) \/ Held(d - 1, i - 1, L)
      BY <1>2, <2>5 DEF NearBefore, d
    <3>2. CASE ~Due("THERMOSTAT", i)
      BY <2>3, <3>1, <3>2 DEF Near, d
    <3>3. CASE Due("THERMOSTAT", i) /\ t = 0
      BY <3>3 DEF Near, Scaled
    <3>4. CASE Due("THERMOSTAT", i) /\ t # 0
      <4>1. t \in 1 .. MaxTemperature
        BY <2>1, <3>4
      <4>2. Distance(Scaled(t)) = 0 \/ Distance(Scaled(t)) = d - m
        BY <2>1, <4>1, ScaledDistance DEF d, m
      <4>3. OnItsWay(d - m, i, L) \/ Held(d - m, i, L)
        BY <2>3, <3>1, <3>4
      <4>. QED BY <2>3, <3>4, <4>2, <4>3 DEF Near
    <3>. QED BY <3>2, <3>3, <3>4
  <2>. QED BY <2>4, <2>5
<1>. QED BY <1>1, <1>2

\* An iteration.
LEMMA NearMoved ==
  ASSUME NEW L \in Nat, InitialTemperatures # {},
         NEW i \in Nat, NEW t \in Temperatures, NEW u \in Moved(t), Near(t, i, L)
  PROVE  NearBefore(u, i + 1, L)
<1>1. CASE t = NaN
  BY <1>1 DEF NearBefore, Moved
<1>2. CASE t # NaN
  <2>1. t \in 0 .. MaxTemperature /\ u \in 0 .. MaxTemperature /\ u \in {t - 1, t, t + 1}
    BY <1>2 DEF Temperatures, Moved
  <2>2. Distance(t) \in Nat /\ Distance(u) \in Nat /\ Distance(u) - 1 <= Distance(t)
    BY <2>1 DEF Distance
  <2>3. (i + 1) - 1 = i /\ Distance(u) - 1 \in Int
    BY <2>2
  <2>4. OnItsWay(Distance(t), i, L) \/ Held(Distance(t), i, L)
    BY <1>2 DEF Near
  <2>5. OnItsWay(Distance(u) - 1, i, L) \/ Held(Distance(u) - 1, i, L)
    BY <2>2, <2>3, <2>4, Closer
  <2>. QED BY <2>3, <2>5 DEF NearBefore
<1>. QED BY <1>1, <1>2

\* A continuation, which leaves out the application its checkpoint did not have.
LEMMA NearContinued ==
  ASSUME NEW L \in Nat, InitialTemperatures # {},
         NEW i \in Nat \ {0}, NEW t \in Temperatures, NearBefore(t, i, L)
  PROVE  Near(t, i, L + 1) /\ NearBefore(t, i, L + 1)
<1>1. CASE t = NaN
  BY <1>1 DEF Near, NearBefore
<1>2. CASE t # NaN
  <2>1. t \in 0 .. MaxTemperature /\ Distance(t) \in Nat
    BY <1>2, DistanceType DEF Temperatures
  <2>2. PICK d \in Int : d = Distance(t)
    BY <2>1
  <2>3. OnItsWay(d - 1, i - 1, L) \/ Held(d - 1, i - 1, L)
    BY <1>2, <2>2 DEF NearBefore
  <2>4. OnItsWay(d - 1, i - 1, L) => OnItsWay(d, i, L + 1)
    BY BoundsStep DEF OnItsWay
  <2>5. Held(d - 1, i - 1, L) => Held(d, i, L + 1)
    <3>1. Held(d - 1, i - 1, L) =>
            d <= (L + 1) * application_interval + i - Applications(i) * application_interval
      BY BoundsStep
    <3>. QED BY <3>1 DEF Held
  <2>6. Near(t, i, L + 1)
    BY <2>2, <2>3, <2>4, <2>5 DEF Near
  <2>7. L + 1 \in Nat
    OBVIOUS
  <2>. QED BY <2>6, <2>7, NearTurn
<1>. QED BY <1>1, <1>2

\* The start of a simulation.
LEMMA NearFirst ==
  ASSUME NEW L \in Nat, NEW t \in InitialTemperatures
  PROVE  Near(t, 0, L)
<1>1. Farthest \in Nat /\ Distance(t) <= Farthest /\ Distance(t) \in Nat
  BY FarthestIs, DistanceType
<1>2. Applications(0) = 0
  BY DEF Applications
<1>3. PICK m \in Nat : m = max_temperature_change
  OBVIOUS
<1>4. L * m \in Nat /\ 0 * m = 0
  OBVIOUS
<1>5. OnItsWay(Distance(t), 0, L)
  BY <1>1, <1>2, <1>3, <1>4 DEF OnItsWay
<1>. QED BY <1>5 DEF Near

LEMMA RegulatedInit == Init => Regulated
<1>. SUFFICES ASSUME Init PROVE Regulated
  OBVIOUS
<1>. QED BY DEF Init, Regulated

\* A process starts with the temperature of the input file, or of the checkpoint.
LEMMA RegulatedStart ==
  ASSUME IInv, Regulated, StartFromScratch \/ Continue
  PROVE  Regulated'
<1>1. /\ pc' = "starting" /\ turn' = 1 /\ saved' = saved /\ InitialTemperatures # {}
      /\ continued \in Seq(1 .. EndIteration)
  BY DEF StartFromScratch, Continue, StartProcess, files, Regulated, IInv, TypeOK
<1>2. PICK L \in Nat : L = Len(continued)
  BY <1>1
<1>3. CASE StartFromScratch
  <2>1. /\ continued' = continued /\ temperature' \in InitialTemperatures
        /\ iteration' = 0 /\ start_iteration' = 0
    BY <1>3 DEF StartFromScratch, files
  <2>2. Near(temperature', 0, L)
    BY <2>1, NearFirst
  <2>3. saved # None => NearBefore(saved.temperature, saved.iteration, L)
    BY <1>2 DEF Regulated
  <2>. QED BY <1>1, <1>2, <2>1, <2>2, <2>3 DEF Regulated
<1>4. CASE Continue
  <2>1. saved \in [iteration : 1 .. EndIteration, temperature : Temperatures, size : 0 .. Size]
        /\ saved # None
    BY <1>4 DEF IInv, SavedTypes, Continue
  <2>2. /\ Len(continued') = L + 1 /\ temperature' = saved.temperature
        /\ iteration' = saved.iteration /\ start_iteration' = saved.iteration
    BY <1>1, <1>2, <1>4, <2>1 DEF Continue
  <2>3. PICK i \in Nat \ {0} : i = saved.iteration
    BY <2>1
  <2>4. PICK t \in Temperatures : t = saved.temperature
    BY <2>1
  <2>5. NearBefore(t, i, L)
    BY <1>2, <2>1, <2>3, <2>4 DEF Regulated
  <2>6. Near(t, i, L + 1) /\ NearBefore(t, i, L + 1)
    BY <1>1, <2>5, NearContinued
  <2>. QED BY <1>1, <2>2, <2>3, <2>4, <2>6 DEF Regulated
<1>. QED BY <1>3, <1>4

LEMMA RegulatedStep ==
  ASSUME IInv, Regulated, Step
  PROVE  Regulated'
<1>1. /\ pc = "loop" /\ pc' = "notifying" /\ turn' = 1 /\ iteration' = iteration + 1
      /\ saved' = saved /\ continued' = continued /\ temperature' \in {NaN} \cup Moved(temperature)
      /\ InitialTemperatures # {} /\ continued \in Seq(1 .. EndIteration)
  BY DEF Step, IInv, Phases, files, Regulated, TypeOK
<1>2. PICK L \in Nat : L = Len(continued)
  BY <1>1
<1>3. PICK i \in Nat : i = iteration
  BY DEF IInv, TypeOK, Iterations
<1>4. PICK t \in Temperatures : t = temperature
  BY DEF IInv, TypeOK, Temperatures
<1>5. Near(t, i, L)
  BY <1>1, <1>2, <1>3, <1>4 DEF Regulated
<1>6. NearBefore(temperature', i + 1, L)
  <2>1. CASE temperature' = NaN
    BY <2>1 DEF NearBefore
  <2>2. CASE temperature' \in Moved(temperature)
    BY <1>1, <1>4, <1>5, <2>2, NearMoved
  <2>. QED BY <1>1, <2>1, <2>2
<1>7. saved # None => NearBefore(saved.temperature, saved.iteration, L)
  BY <1>2 DEF Regulated
<1>. QED BY <1>1, <1>2, <1>3, <1>6, <1>7 DEF Regulated

LEMMA RegulatedStop ==
  ASSUME IInv, Regulated,
         LeaveLoop \/ Crash \/ RefuseDiffusion \/ ReadOutOfRange \/ Over \/ UNCHANGED vars
  PROVE  Regulated'
<1>1. /\ UNCHANGED <<temperature, iteration, saved, continued, turn, start_iteration>>
      /\ pc' \in {pc, "down", "failed"} \/ (pc = "loop" /\ pc' = "ending")
  BY DEF LeaveLoop, Crash, RefuseDiffusion, ReadOutOfRange, Over, vars, process, files, sampled,
         particles
<1>. QED BY <1>1 DEF Regulated

\* A turn after which the temperature is as near as it has to be.
LEMMA RegulatedTurn ==
  ASSUME IInv, Regulated, NextTurn, pc \in {"starting", "notifying", "ending"},
         UNCHANGED <<iteration, start_iteration>>,
         pc = "starting" => temperature' = temperature,
         NEW L \in Nat, L = Len(continued'),
         pc = "notifying" /\ turn = 1 => NearBefore(temperature', iteration, L),
         pc # "notifying" \/ turn > 1 => Near(temperature', iteration, L),
         saved' # None => NearBefore(saved'.temperature, saved'.iteration, L)
  PROVE  Regulated'
<1>1. turn \in 1 .. 6
  BY Turns DEF IInv
<1>2. CASE turn' = turn + 1 /\ pc' = pc
  BY <1>1, <1>2 DEF Regulated
<1>3. CASE turn = 6 /\ pc' \in {"finished", "loop"}
  BY <1>1, <1>3 DEF Regulated
<1>. QED BY <1>2, <1>3, NextTurnTypes DEF IInv

\* The turns that do not change the temperature, nor what is saved of it.
LEMMA RegulatedOther ==
  ASSUME IInv, Regulated,
         \/ Initialize \/ Sample \/ InitializeDiffusion \/ SampleDiffusion \/ SampleLastDiffusion
         \/ PassTurn
  PROVE  Regulated'
<1>. USE DEF process, files, sampled, particles
<1>1. /\ NextTurn /\ pc \in {"starting", "notifying", "ending"}
      /\ UNCHANGED <<iteration, start_iteration, temperature, saved, continued>>
      /\ continued \in Seq(1 .. EndIteration)
  BY DEF Initialize, Sample, InitializeDiffusion, SampleDiffusion, SampleLastDiffusion, PassTurn,
         Called, IInv, TypeOK
<1>2. PICK L \in Nat : L = Len(continued)
  BY <1>1
<1>3. turn \in 1 .. 6
  BY Turns DEF IInv
<1>4. ASSUME pc = "notifying", turn = 2
      PROVE  Near(temperature, iteration, L)
  <2>1. ~Due("THERMOSTAT", iteration)
    <3>1. interceptor = "THERMOSTAT"
      BY <1>4, Turns DEF IInv
    <3>. QED BY <1>4, <3>1 DEF Initialize, Sample, InitializeDiffusion, SampleDiffusion,
                               SampleLastDiffusion, PassTurn, Called, Sensors
  <2>2. PICK i \in Nat \ {0} : i = iteration
    BY <1>4 DEF IInv, Phases, TypeOK, Iterations
  <2>3. PICK t \in Temperatures : t = temperature
    BY DEF IInv, TypeOK, Temperatures
  <2>4. NearBefore(t, i, L) /\ InitialTemperatures # {}
    BY <1>2, <1>4, <2>2, <2>3 DEF Regulated
  <2>5. Near(IF Due("THERMOSTAT", i) THEN Scaled(t) ELSE t, i, L)
    BY <2>4, NearTurn
  <2>. QED BY <2>1, <2>2, <2>3, <2>5
<1>5. pc = "notifying" /\ turn = 1 => NearBefore(temperature, iteration, L)
  BY <1>2 DEF Regulated
<1>6. pc # "notifying" \/ turn > 1 => Near(temperature, iteration, L)
  BY <1>1, <1>2, <1>3, <1>4 DEF Regulated
<1>7. saved # None => NearBefore(saved.temperature, saved.iteration, L)
  BY <1>2 DEF Regulated
<1>. QED BY <1>1, <1>2, <1>5, <1>6, <1>7, RegulatedTurn

LEMMA RegulatedScale ==
  ASSUME IInv, Regulated, ScaleTemperature
  PROVE  Regulated'
<1>. USE DEF process, files, sampled, particles
<1>1. /\ NextTurn /\ pc = "notifying" /\ turn = 2 /\ temperature' = Scaled(temperature)
      /\ UNCHANGED <<iteration, start_iteration, saved, continued>>
      /\ continued \in Seq(1 .. EndIteration) /\ Due("THERMOSTAT", iteration)
  BY Turns DEF ScaleTemperature, Called, IInv, TypeOK
<1>2. PICK L \in Nat : L = Len(continued)
  BY <1>1
<1>3. Near(temperature', iteration, L)
  <2>2. PICK i \in Nat \ {0} : i = iteration
    BY <1>1 DEF IInv, Phases, TypeOK, Iterations
  <2>3. PICK t \in Temperatures : t = temperature
    BY DEF IInv, TypeOK, Temperatures
  <2>4. NearBefore(t, i, L) /\ InitialTemperatures # {}
    BY <1>1, <1>2, <2>2, <2>3 DEF Regulated
  <2>5. Near(IF Due("THERMOSTAT", i) THEN Scaled(t) ELSE t, i, L)
    BY <2>4, NearTurn
  <2>. QED BY <1>1, <2>2, <2>3, <2>5
<1>4. saved # None => NearBefore(saved.temperature, saved.iteration, L)
  BY <1>2 DEF Regulated
<1>. QED BY <1>1, <1>2, <1>3, <1>4, RegulatedTurn

\* The checkpoint comes before the thermostat; the first one of a simulation
\* forgets the continuations of the simulation before.
LEMMA RegulatedCheckpoint ==
  ASSUME IInv, Regulated, WriteCheckpoint
  PROVE  Regulated'
<1>. USE DEF process, files, sampled, particles
<1>1. /\ NextTurn /\ pc \in {"starting", "notifying", "ending"} /\ turn = 1
      /\ UNCHANGED <<iteration, start_iteration, temperature>>
      /\ continued \in Seq(1 .. EndIteration) /\ InitialTemperatures # {}
  BY Turns DEF WriteCheckpoint, Called, IInv, TypeOK, Regulated
<1>2. CASE iteration = 0
  <2>1. /\ saved' = None /\ continued' = <<>> /\ Len(continued') = 0
    BY <1>2 DEF WriteCheckpoint
  <2>2. pc = "starting" /\ start_iteration = 0
    <3>1. start_iteration \in Nat /\ iteration = 0
      BY <1>2 DEF IInv, TypeOK, Iterations
    <3>2. pc \notin {"notifying", "ending"}
      BY <3>1 DEF IInv, Phases
    <3>. QED BY <3>2 DEF WriteCheckpoint, Called
  <2>3. temperature \in InitialTemperatures
    BY <2>2 DEF Regulated
  <2>4. Near(temperature, 0, 0)
    BY <2>3, NearFirst
  <2>. QED BY <1>1, <1>2, <2>1, <2>2, <2>4, RegulatedTurn
<1>3. CASE iteration # 0
  <2>1. /\ saved' = [iteration |-> iteration, temperature |-> temperature, size |-> size]
        /\ continued' = continued
    BY <1>3 DEF WriteCheckpoint
  <2>2. PICK L \in Nat : L = Len(continued)
    BY <1>1
  <2>3. PICK i \in Nat \ {0} : i = iteration
    BY <1>3 DEF IInv, TypeOK, Iterations
  <2>4. PICK t \in Temperatures : t = temperature
    BY DEF IInv, TypeOK, Temperatures
  <2>5. /\ pc = "notifying" => NearBefore(t, i, L)
        /\ pc # "notifying" => Near(t, i, L)
    BY <1>1, <2>2, <2>3, <2>4 DEF Regulated
  <2>6. Near(t, i, L) => NearBefore(t, i, L)
    BY <1>1, NearTurn
  <2>7. NearBefore(saved'.temperature, saved'.iteration, L)
    BY <2>1, <2>3, <2>4, <2>5, <2>6
  <2>. QED BY <1>1, <2>1, <2>2, <2>3, <2>4, <2>5, <2>7, RegulatedTurn
<1>. QED BY <1>2, <1>3

\* The temperature is never farther from the target than its way there allows.
THEOREM RegulatedAlways == Spec => []Regulated
<1>1. Init => Regulated
  BY RegulatedInit
<1>2. IInv /\ Regulated /\ [Next]_vars => Regulated'
  BY RegulatedStart, RegulatedStep, RegulatedStop, RegulatedOther, RegulatedScale,
     RegulatedCheckpoint DEF Next
<1>. QED BY <1>1, <1>2, Invariance, PTL DEF Spec

-----------------------------------------------------------------------------
(***************************************************************************)
(* Theorems                                                                *)
(***************************************************************************)

\* Types.  In particular no temperature leaves its scale, except for NaN.
THEOREM TypeCorrect == Spec => []TypeOK
<1>1. IInv => TypeOK
  BY DEF IInv
<1>. QED BY <1>1, Invariance, PTL

\* The CSV files are complete across crashes, however many, but for the
\* iterations at which a sensor had nothing to write, and for those the
\* simulation has been continued from (CSVWriter appends, and the frame writer
\* comes first).
THEOREM FilesComplete == Spec => []SamplesComplete
<1>1. IInv => SamplesComplete
  <2>. SUFFICES ASSUME IInv, Between, NEW s \in Sensors \ {"DIFFUSION"}, NEW i \in 0 .. iteration,
                       i % EveryNth(s) = 0, ~(rows[s][i] > 0), i \notin unseen[s]
                PROVE  Continuations({i}) > 0
    BY DEF SamplesComplete
  <2>1. Sampled(s, i)
    BY DEF IInv, Samples, SampledUpTo, Due, Between
  <2>2. continued \in Seq(1 .. EndIteration)
    BY DEF IInv, TypeOK
  <2>3. PICK k \in DOMAIN continued : continued[k] = i
    BY <2>1 DEF Sampled
  <2>. DEFINE C == {j \in DOMAIN continued : continued[j] \in {i}}
  <2>4. k \in C
    BY <2>3
  <2>5. IsFiniteSet(1 .. Len(continued)) /\ C \subseteq 1 .. Len(continued)
    <3>1. Len(continued) \in Nat /\ DOMAIN continued = 1 .. Len(continued)
      BY <2>2
    <3>2. IsFiniteSet(1 .. Len(continued))
      BY <3>1, FS_Interval
    <3>. QED BY <3>1, <3>2
  <2>6. IsFiniteSet(C)
    BY <2>5, FS_Subset
  <2>7. Cardinality(C) \in Nat /\ Cardinality(C) # 0
    BY <2>4, <2>6, FS_CardinalityType, FS_EmptySet
  <2>8. Continuations({i}) = Cardinality(C)
    BY DEF Continuations
  <2>. QED BY <2>7, <2>8
<1>. QED BY <1>1, Invariance, PTL

\* No sample is in a file more often than processes have passed its iteration: a
\* simulation from scratch overwrites the file (CSVWriter), and a continued one
\* appends only what comes after its checkpoint, and once more at its end.
THEOREM SampledOncePerProcess == Spec => []OncePerProcess
<1>. DEFINE Rooms == \A s \in Sensors : Room(s)
<1>1. IInv /\ Rooms => OncePerProcess
  <2>. SUFFICES ASSUME IInv, Rooms, Between, NEW s \in Sensors, NEW i \in Iterations
                PROVE  rows[s][i] <= MayHold(i)
    BY DEF OncePerProcess, MayHold
  <2>1. rows[s][i] + Ahead(s, i) <= MayHold(i)
    BY DEF Room, Opened, Between
  <2>2. rows[s][i] \in Nat /\ MayHold(i) \in Nat /\ Ahead(s, i) \in {0, 1, 2}
    BY MayHoldType, AheadType DEF IInv, TypeOK
  <2>. QED BY <2>1, <2>2
<1>. QED BY <1>1, RoomAlways, Invariance, PTL

\* DiffusionFunctionInterceptor never compares different particles, except in
\* the last row of a simulation that was continued or has lost particles.
THEOREM ComparesLike == Spec => []DiffusionComparesLike
<1>1. IInv => DiffusionComparesLike
  <2>. SUFFICES ASSUME IInv, Between, unlike # {}
                PROVE  unlike = {EndIteration} /\ (continued # <<>> \/ size < Size)
    BY DEF DiffusionComparesLike
  <2>1. Initialized /\ unlike = {EndIteration}
    BY DEF IInv, OldPositions, Initialized, Between
  <2>2. start_iteration \in Nat /\ size \in 0 .. Size
    BY DEF IInv, TypeOK, Iterations
  <2>. QED BY <2>1, <2>2 DEF IInv, OldPositions, Phases
<1>. QED BY <1>1, Invariance, PTL

\* A simulation with a diffusion function that is continued cannot get past its
\* next sample as long as it has a particle; nothing else but a lost particle
\* makes it fail.
THEOREM ContinuedAreRefused == Spec => []ContinuedFails
<1>1. IInv => ContinuedFails
  <2>. SUFFICES ASSUME IInv PROVE ContinuedFails
    OBVIOUS
  <2>1. ASSUME pc = "finished", start_iteration > 0, size > 0,
               NEW i \in start_iteration + 1 .. EndIteration
        PROVE  i % EveryNth("DIFFUSION") # 0
    <3>1. Initialized /\ iteration = EndIteration
      BY <2>1 DEF Initialized, IInv, Phases
    <3>. QED BY <2>1, <3>1 DEF IInv, OldPositions, Due
  <2>. QED BY <2>1 DEF ContinuedFails, IInv, OldPositions
<1>. QED BY <1>1, Invariance, PTL

\* "gradual scaling of the temperature towards a set target" (Thermostat.h): from
\* any initial temperature, at the pace max_temperature_change allows, with one
\* application lost for each continuation, whatever the particles do in between.
THEOREM Thermostatted == Spec => []TemperatureIsRegulated
<1>1. IInv /\ Regulated => TemperatureIsRegulated
  <2>. SUFFICES ASSUME IInv, Regulated, Between, temperature # NaN
                PROVE  Distance(temperature) <= MaxDistance
    BY DEF TemperatureIsRegulated
  <2>1. PICK L \in Nat : L = Len(continued)
    BY DEF IInv, TypeOK
  <2>2. PICK i \in Nat : i = iteration
    BY DEF IInv, TypeOK, Iterations
  <2>3. PICK F \in Nat : F = Farthest
    BY FarthestIs DEF Regulated
  <2>4. PICK a \in Nat \ {0} : a = application_interval
    OBVIOUS
  <2>5. PICK m \in Nat : m = max_temperature_change
    OBVIOUS
  <2>6. PICK q \in Nat : q = Applications(i) /\ i - q * a \in 0 .. a - 1
    BY <2>4, ApplicationsRest
  <2>7. PICK d \in Nat : d = Distance(temperature)
    BY DistanceType DEF IInv, TypeOK
  <2>8. \/ d <= F + i - q * m + L * m
        \/ d <= L * a + i - q * a
    BY <2>1, <2>2, <2>3, <2>4, <2>5, <2>6, <2>7 DEF Regulated, Near, OnItsWay, Held, Between
  <2>9. /\ (1 + L) * a = L * a + a
        /\ (q - L) * (m - a) = q * m - q * a - L * m + L * a
        /\ q * m \in Nat /\ q * a \in Nat /\ L * m \in Nat /\ L * a \in Nat
    OBVIOUS
  <2>10. PICK x \in Int : x = (1 + L) * a
    BY <2>9
  <2>11. PICK y \in Int : y = F + (1 + L) * a - (q - L) * (m - a)
    BY <2>9
  <2>12. d <= x \/ d <= y
    BY <2>6, <2>8, <2>9, <2>10, <2>11
  <2>13. Max({x, y}) \in {x, y} /\ Max({x, y}) >= x /\ Max({x, y}) >= y
    BY MaxOfTwo
  <2>14. MaxDistance = Max({x, y})
    BY <2>1, <2>2, <2>3, <2>4, <2>5, <2>6, <2>10, <2>11 DEF MaxDistance, Farthest, Applications
  <2>. QED BY <2>7, <2>12, <2>13, <2>14
<1>. QED BY <1>1, RegulatedAlways, Invariance, PTL

=============================================================================
