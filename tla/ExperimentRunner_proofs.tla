------------------------ MODULE ExperimentRunner_proofs ------------------------
(***************************************************************************)
(* Output directories, for any set of configurations and any number of     *)
(* executions: what a reader may rely on (EndsTellTheMiddle), the types,   *)
(* why a configuration is refused, and that the files implement            *)
(* PublishedResults.                                                       *)
(***************************************************************************)
EXTENDS ExperimentRunner, Scheduling_proofs

\* The order of the writes, as far as the proof needs it: the configuration is
\* first, the report is last, what a report needs lies between, and no file is
\* written twice.
LEMMA StepsInOrder ==
  ASSUME NEW c
  PROVE  /\ Len(Steps(c)) \in Nat \ {0}
         /\ DOMAIN Steps(c) = 1 .. Len(Steps(c))
         /\ Steps(c)[1] = "config"
         /\ Steps(c)[Len(Steps(c))] = "report"
         /\ \A i, j \in DOMAIN Steps(c) : Steps(c)[i] = Steps(c)[j] => i = j
         /\ \A f \in {"results"} \cup Charts(c) : \E i \in DOMAIN Steps(c) : Steps(c)[i] = f
<1>1. CASE c.type = "parameter_sweep"
  BY <1>1 DEF Steps, Charts, ChartNames
<1>2. CASE c.type # "parameter_sweep"
  BY <1>2 DEF Steps, Charts
<1> QED
  BY <1>1, <1>2

\* The names of the files a reader looks at.
LEMMA NamesOfFiles ==
  ASSUME NEW c
  PROVE  /\ {"config", "report", "results"} \subseteq FileNames
         /\ Charts(c) \subseteq FileNames
         /\ "report" \notin {"results"} \cup Charts(c)
         /\ "config" \notin {"results"} \cup Charts(c)
BY DEF FileNames, Charts, ChartNames

-----------------------------------------------------------------------------
RunnerTypes ==
  /\ files \in [FileNames -> [of : Nat, whole : BOOLEAN]]
  /\ configs \in Seq(Configs)
  /\ step \in Nat
  /\ Active => Current > 0

\* No file is of an execution that has not begun.
NoFutureFiles == \A f \in FileNames : files[f].of <= Current

\* The execution that is active has written the files before its step and none
\* after it; the file of the step itself is older or is cut off.
Progress ==
  Active => \A i \in DOMAIN Steps(Config) : Steps(Config)[i] \in FileNames =>
    /\ i < step => WholeOf(Steps(Config)[i], Current)
    /\ i = step => ~WholeOf(Steps(Config)[i], Current)
    /\ i > step => files[Steps(Config)[i]].of < Current

RunnerInv == RunnerTypes /\ NoFutureFiles /\ Progress /\ EndsTellTheMiddle

\* The invariant holds in an empty directory.
LEMMA InvHoldsInitially == Init => RunnerInv
<1> SUFFICES ASSUME Init PROVE RunnerInv
  OBVIOUS
<1>1. RunnerTypes
  BY DEF Init, RunnerTypes, Absent, Active
<1>2. NoFutureFiles
  BY DEF Init, NoFutureFiles, Absent, Current
<1>3. Progress /\ EndsTellTheMiddle
  BY DEF Init, Progress, Active, EndsTellTheMiddle
<1> QED
  BY <1>1, <1>2, <1>3 DEF RunnerInv

\* A new execution finds only files that are older.
LEMMA ExecuteKeepsInv ==
  ASSUME RunnerInv, NEW c \in Configs, Execute(c)
  PROVE  RunnerInv'
<1> USE DEF RunnerInv
<1>1. /\ configs' = Append(configs, c) /\ step' = 1 /\ files' = files
      /\ configs' \in Seq(Configs)
      /\ Len(configs') = Len(configs) + 1 /\ Len(configs) \in Nat
      /\ \A k \in DOMAIN configs : configs'[k] = configs[k]
      /\ configs'[Len(configs')] = c
  BY DEF Execute, RunnerTypes
<1>2. RunnerTypes'
  BY <1>1 DEF RunnerTypes, Current, Active
<1>3. NoFutureFiles'
  BY <1>1 DEF RunnerTypes, NoFutureFiles, Current
<1>4. \A f \in FileNames : files'[f].of < Current'
  BY <1>1 DEF RunnerTypes, NoFutureFiles, Current
<1>5. Progress'
  <2> SUFFICES ASSUME NEW i \in DOMAIN Steps(c), Steps(c)[i] \in FileNames
               PROVE  /\ ~(i < 1)
                      /\ ~WholeOf(Steps(c)[i], Current)'
                      /\ files'[Steps(c)[i]].of < Current'
    BY <1>1 DEF Progress, Config, Current
  <2>1. i \in Nat \ {0}
    BY StepsInOrder
  <2> QED
    BY <1>1, <1>4, <2>1 DEF WholeOf, RunnerTypes, Current
<1>6. EndsTellTheMiddle'
  <2> SUFFICES ASSUME NEW k \in DOMAIN configs', Published(k)',
                      NEW f \in {"results"} \cup Charts(configs'[k])
               PROVE  WholeOf(f, k)'
    BY DEF EndsTellTheMiddle
  <2>1. files["config"].of = k /\ k < Current'
    BY <1>1, <1>4, NamesOfFiles DEF Published, WholeOf
  <2>2. k \in DOMAIN configs /\ configs'[k] = configs[k]
    BY <1>1, <2>1 DEF Current
  <2> QED
    BY <1>1, <2>2 DEF EndsTellTheMiddle, Published, WholeOf
<1> QED
  BY <1>2, <1>3, <1>5, <1>6

-----------------------------------------------------------------------------
\* While a file is to be written, a whole configuration and a whole report of one
\* execution stand together only before the configuration is overwritten.
LEMMA NothingElsePublished ==
  ASSUME RunnerInv, Active, Doing \in FileNames, NEW k, Published(k)
  PROVE  Doing = "config"
<1> DEFINE last == Len(Steps(Config))
<1> USE DEF RunnerInv
<1>1. /\ last \in Nat \ {0} /\ DOMAIN Steps(Config) = 1 .. last
      /\ Steps(Config)[1] = "config" /\ Steps(Config)[last] = "report"
  BY StepsInOrder
<1>2. step \in 1 .. last /\ Doing = Steps(Config)[step]
  <2>1. "return" \notin FileNames
    BY DEF FileNames, ChartNames
  <2> QED
    BY <1>1, <2>1 DEF Doing
<1>3. Current \in Nat
  BY DEF Current, RunnerTypes
<1>4. ~WholeOf("report", Current)
  <2> HIDE DEF last
  <2>1. /\ last = step => ~WholeOf(Steps(Config)[last], Current)
        /\ last > step => files[Steps(Config)[last]].of < Current
    BY <1>1, NamesOfFiles DEF Progress
  <2> QED
    BY <1>1, <1>2, <1>3, <2>1 DEF WholeOf
<1>5. step = 1
  <2> HIDE DEF last
  <2>1. 1 < step => WholeOf("config", Current)
    BY <1>1, NamesOfFiles DEF Progress
  <2> QED
    BY <1>2, <1>4, <2>1 DEF Published, WholeOf
<1> QED
  BY <1>1, <1>2, <1>5

\* Cutting off the file of the step leaves the others as they were.
LEMMA TruncateKeepsInv ==
  ASSUME RunnerInv, Truncate
  PROVE  RunnerInv'
<1> USE DEF RunnerInv
<1>1. /\ Active /\ Doing \in FileNames
      /\ files' = [files EXCEPT ![Doing] = [of |-> Current, whole |-> FALSE]]
      /\ configs' = configs /\ step' = step
      /\ Current \in Nat
      /\ files \in [FileNames -> [of : Nat, whole : BOOLEAN]]
  BY DEF Truncate, RunnerTypes, Current
<1>2. /\ files'[Doing] = [of |-> Current, whole |-> FALSE]
      /\ \A f \in FileNames \ {Doing} : files'[f] = files[f]
  BY <1>1
<1>3. RunnerTypes'
  BY <1>1 DEF RunnerTypes, Active, Current
<1>4. NoFutureFiles'
  <2>1. Current' = Current
    BY <1>1 DEF Current
  <2> QED
    BY <1>1, <1>2, <2>1 DEF NoFutureFiles
<1>5. Progress'
  <2>1. Config' = Config /\ Current' = Current
    BY <1>1 DEF Config, Current
  <2> SUFFICES ASSUME NEW i \in DOMAIN Steps(Config), Steps(Config)[i] \in FileNames
               PROVE  /\ i < step => WholeOf(Steps(Config)[i], Current)'
                      /\ i = step => ~WholeOf(Steps(Config)[i], Current)'
                      /\ i > step => files'[Steps(Config)[i]].of < Current
    BY <1>1, <2>1 DEF Progress
  <2>2. i \in Nat /\ step \in Nat
    BY StepsInOrder DEF RunnerTypes
  <2>3. CASE i = step
    <3>1. Steps(Config)[i] = Doing
      BY <2>3 DEF Doing
    <3> QED
      BY <1>2, <2>1, <2>2, <2>3, <3>1 DEF WholeOf
  <2>4. CASE i # step
    <3>1. step \in DOMAIN Steps(Config) /\ Doing = Steps(Config)[step]
      BY <1>1 DEF Doing, FileNames, ChartNames
    <3>2. Steps(Config)[i] # Doing
      BY <2>4, <3>1, StepsInOrder
    <3>3. files'[Steps(Config)[i]] = files[Steps(Config)[i]]
      BY <1>2, <3>2
    <3> QED
      BY <1>1, <2>1, <2>4, <3>3 DEF Progress, WholeOf
  <2> QED
    BY <2>3, <2>4
<1>6. EndsTellTheMiddle'
  <2> SUFFICES ASSUME NEW k, Published(k)' PROVE FALSE
    BY DEF EndsTellTheMiddle
  <2>1. Doing # "config" /\ Doing # "report"
    BY <1>2 DEF Published, WholeOf
  <2>2. Published(k)
    BY <1>2, <2>1, NamesOfFiles DEF Published, WholeOf
  <2> QED
    BY <1>1, <2>1, <2>2, NothingElsePublished
<1> QED
  BY <1>3, <1>4, <1>5, <1>6

\* Closing the report closes the execution's list; closing any other file
\* publishes nothing.
LEMMA CompleteKeepsInv ==
  ASSUME RunnerInv, Complete
  PROVE  RunnerInv'
<1> USE DEF RunnerInv
<1>1. /\ Active /\ Doing \in FileNames
      /\ files[Doing] = [of |-> Current, whole |-> FALSE]
      /\ files' = [files EXCEPT ![Doing] = [of |-> Current, whole |-> TRUE]]
      /\ configs' = configs /\ step' = step + 1
      /\ Current \in Nat /\ step \in Nat
      /\ files \in [FileNames -> [of : Nat, whole : BOOLEAN]]
  BY DEF Complete, RunnerTypes, Current
<1>2. /\ files'[Doing] = [of |-> Current, whole |-> TRUE]
      /\ \A f \in FileNames \ {Doing} : files'[f] = files[f]
  BY <1>1
<1>3. Config' = Config /\ Current' = Current
  BY <1>1 DEF Config, Current
<1>4. RunnerTypes'
  <2>1. files' \in [FileNames -> [of : Nat, whole : BOOLEAN]]
    BY <1>1
  <2>2. Current' > 0
    BY <1>1, <1>3 DEF RunnerTypes
  <2> QED
    BY <1>1, <2>1, <2>2 DEF RunnerTypes
<1>5. NoFutureFiles'
  BY <1>1, <1>2, <1>3 DEF NoFutureFiles
<1>6. step \in DOMAIN Steps(Config) /\ Doing = Steps(Config)[step]
  BY <1>1 DEF Doing, FileNames, ChartNames
<1>7. Progress'
  <2> SUFFICES ASSUME NEW i \in DOMAIN Steps(Config), Steps(Config)[i] \in FileNames
               PROVE  /\ i < step + 1 => WholeOf(Steps(Config)[i], Current)'
                      /\ i = step + 1 => ~WholeOf(Steps(Config)[i], Current)'
                      /\ i > step + 1 => files'[Steps(Config)[i]].of < Current
    BY <1>1, <1>3 DEF Progress
  <2>1. i \in Nat
    BY StepsInOrder
  <2>2. CASE i = step
    BY <1>1, <1>2, <1>3, <1>6, <2>2 DEF WholeOf
  <2>3. CASE i # step
    <3>1. Steps(Config)[i] # Doing
      BY <1>6, <2>3, StepsInOrder
    <3>2. files'[Steps(Config)[i]] = files[Steps(Config)[i]]
      BY <1>2, <3>1
    <3>3. /\ i < step => WholeOf(Steps(Config)[i], Current)
          /\ i > step => files[Steps(Config)[i]].of < Current
      BY <1>1 DEF Progress
    <3>4. CASE i < step
      <4>1. WholeOf(Steps(Config)[i], Current)'
        BY <1>3, <3>2, <3>3, <3>4 DEF WholeOf
      <4>2. i < step + 1 /\ ~(i = step + 1) /\ ~(i > step + 1)
        BY <1>1, <2>1, <3>4
      <4> QED
        BY <4>1, <4>2
    <3>5. CASE i > step
      <4>1. files'[Steps(Config)[i]].of < Current
        BY <3>2, <3>3, <3>5
      <4> QED
        BY <1>1, <1>3, <2>1, <3>5, <4>1 DEF WholeOf
    <3> QED
      BY <1>1, <2>1, <2>3, <3>4, <3>5
  <2> QED
    BY <2>2, <2>3
<1>8. EndsTellTheMiddle'
  <2> SUFFICES ASSUME NEW k \in DOMAIN configs, Published(k)',
                      NEW f \in {"results"} \cup Charts(configs[k])
               PROVE  WholeOf(f, k)'
    BY <1>1 DEF EndsTellTheMiddle
  <2>1. CASE Doing = "config"
    <3>1. k = Current
      BY <1>2, <2>1 DEF Published, WholeOf
    <3>2. files'["report"] = files["report"]
      BY <1>2, <2>1, NamesOfFiles
    <3>3. PICK i \in DOMAIN Steps(Config) : Steps(Config)[i] = "report"
      BY StepsInOrder
    <3>4. step = 1
      <4> DEFINE order == Steps(Config)
      <4>1. /\ 1 \in DOMAIN order /\ order[1] = "config"
            /\ \A m, n \in DOMAIN order : order[m] = order[n] => m = n
        BY StepsInOrder
      <4>2. step \in DOMAIN order /\ order[step] = "config"
        BY <1>6, <2>1
      <4> HIDE DEF order
      <4> QED
        BY <4>1, <4>2
    <3>5. i \in Nat /\ i > 1
      BY StepsInOrder, <3>3
    <3>6. files["report"].of < Current
      BY <1>1, <3>3, <3>4, <3>5, NamesOfFiles DEF Progress
    <3> QED
      BY <1>1, <3>1, <3>2, <3>6 DEF Published, WholeOf
  <2>2. CASE Doing = "report"
    <3>1. step = Len(Steps(Config)) /\ step > 1 /\ 1 \in DOMAIN Steps(Config)
      <4> DEFINE order == Steps(Config)
                 last == Len(order)
      <4>1. /\ last \in Nat \ {0} /\ DOMAIN order = 1 .. last
            /\ order[1] = "config" /\ order[last] = "report"
            /\ \A m, n \in DOMAIN order : order[m] = order[n] => m = n
        BY StepsInOrder
      <4>2. step \in DOMAIN order /\ order[step] = "report"
        BY <1>6, <2>2
      <4> HIDE DEF order, last
      <4>3. last \in DOMAIN order /\ 1 \in DOMAIN order
        BY <4>1
      <4>4. step = last
        BY <4>1, <4>2, <4>3
      <4>5. step # 1
        BY <4>1, <4>2
      <4> QED
        BY <4>1, <4>2, <4>3, <4>4, <4>5 DEF last, order
    <3>2. WholeOf("config", Current)
      BY <1>1, <3>1, StepsInOrder, NamesOfFiles DEF Progress
    <3>3. files'["config"] = files["config"]
      BY <1>2, <2>2, NamesOfFiles
    <3>4. k = Current /\ configs[k] = Config
      BY <3>2, <3>3 DEF Published, WholeOf, Config
    <3>5. PICK i \in DOMAIN Steps(Config) : Steps(Config)[i] = f
      BY <3>4, StepsInOrder
    <3>6. f \in FileNames /\ f # Doing
      BY <2>2, NamesOfFiles
    <3>7. i < step
      BY <1>6, <3>1, <3>5, <3>6, StepsInOrder
    <3>8. WholeOf(f, Current)
      BY <1>1, <3>5, <3>6, <3>7 DEF Progress
    <3> QED
      BY <1>2, <3>4, <3>6, <3>8 DEF WholeOf
  <2>3. CASE Doing # "config" /\ Doing # "report"
    <3>1. Published(k)
      BY <1>2, <2>3, NamesOfFiles DEF Published, WholeOf
    <3> QED
      BY <1>1, <2>3, <3>1, NothingElsePublished
  <2> QED
    BY <2>1, <2>2, <2>3
<1> QED
  BY <1>4, <1>5, <1>7, <1>8

\* Steps of the simulations touch no file; "run" is not the name of one.
LEMMA FinishRunKeepsInv ==
  ASSUME RunnerInv, FinishRun
  PROVE  RunnerInv'
<1> USE DEF RunnerInv
<1>1. /\ Active /\ Doing = "run"
      /\ files' = files /\ configs' = configs /\ step' = step + 1
      /\ Current \in Nat /\ step \in Nat
  BY DEF FinishRun, RunnerTypes, Current
<1>2. Config' = Config /\ Current' = Current
  BY <1>1 DEF Config, Current
<1>3. RunnerTypes' /\ NoFutureFiles' /\ EndsTellTheMiddle'
  BY <1>1, <1>2 DEF RunnerTypes, NoFutureFiles, EndsTellTheMiddle, Published, WholeOf, Active
<1>4. Progress'
  <2> SUFFICES ASSUME NEW i \in DOMAIN Steps(Config), Steps(Config)[i] \in FileNames
               PROVE  /\ i < step + 1 => WholeOf(Steps(Config)[i], Current)'
                      /\ i = step + 1 => ~WholeOf(Steps(Config)[i], Current)'
                      /\ i > step + 1 => files'[Steps(Config)[i]].of < Current
    BY <1>1, <1>2 DEF Progress
  <2>1. i \in Nat
    BY StepsInOrder
  <2>2. i # step
    BY <1>1 DEF Doing, FileNames, ChartNames
  <2>3. /\ i < step => WholeOf(Steps(Config)[i], Current)
        /\ i > step => files[Steps(Config)[i]].of < Current
    BY <1>1 DEF Progress
  <2> QED
    BY <1>1, <1>2, <2>1, <2>2, <2>3 DEF WholeOf
<1> QED
  BY <1>3, <1>4

\* An execution that ends, and a simulation, leave the directory as it is.
LEMMA OtherStepsKeepInv ==
  ASSUME RunnerInv, UNCHANGED <<files, configs>>, step' = step \/ step' = 0
  PROVE  RunnerInv'
<1> USE DEF RunnerInv
<1>1. Config' = Config /\ Current' = Current
  BY DEF Config, Current
<1>2. RunnerTypes' /\ NoFutureFiles' /\ EndsTellTheMiddle'
  BY <1>1 DEF RunnerTypes, NoFutureFiles, EndsTellTheMiddle, Published, WholeOf, Active
<1>3. Progress'
  BY <1>1 DEF Progress, WholeOf, Active
<1> QED
  BY <1>2, <1>3

-----------------------------------------------------------------------------
\* Every step keeps the invariant.
LEMMA NextKeepsInv == RunnerInv /\ [Next]_vars => RunnerInv'
<1> SUFFICES ASSUME RunnerInv, [Next]_vars PROVE RunnerInv'
  OBVIOUS
<1>1. ASSUME NEW c \in Configs, Execute(c) PROVE RunnerInv'
  BY <1>1, ExecuteKeepsInv
<1>2. CASE Truncate
  BY <1>2, TruncateKeepsInv
<1>3. CASE Complete
  BY <1>3, CompleteKeepsInv
<1>4. CASE FinishRun
  BY <1>4, FinishRunKeepsInv
<1>5. CASE Simulate
  BY <1>5, OtherStepsKeepInv DEF Simulate
<1>6. CASE RefuseParameters \/ RefuseHorizon \/ Interrupt \/ Return
  BY <1>6, OtherStepsKeepInv DEF RefuseParameters, RefuseHorizon, Interrupt, Return, End
<1>7. CASE UNCHANGED vars
  BY <1>7, OtherStepsKeepInv DEF vars
<1> QED
  BY <1>1, <1>2, <1>3, <1>4, <1>5, <1>6, <1>7 DEF Next

\* A whole configuration and a whole report of one execution enclose its whole
\* results and charts, however many executions there were and wherever each of
\* them was stopped (experiment_runner.py:101-122).
THEOREM PublishedIsComplete == Spec => []EndsTellTheMiddle
<1>1. Init => RunnerInv
  BY InvHoldsInitially
<1>2. RunnerInv /\ [Next]_vars => RunnerInv'
  BY NextKeepsInv
<1>3. RunnerInv => EndsTellTheMiddle
  BY DEF RunnerInv
<1> QED
  BY <1>1, <1>2, <1>3, PTL DEF Spec
-----------------------------------------------------------------------------
\* The simulations of an experiment.

Simulations == [lambda_rate : Int, simulation_time : Int, capacity : SUBSET Int]

\* The value of an optional that is there.
LEMMA TheValue ==
  ASSUME NEW S, NEW optional \in SUBSET S, optional # {}
  PROVE  The(optional) \in optional /\ The(optional) \in S
  BY DEF The

\* The sorted durations are durations of the configuration, or the default ones,
\* which are positive.
LEMMA SortedDurations ==
  ASSUME NEW c \in Configs, NEW s, s = Sorted(Durations(c))
  PROVE  /\ \E n \in Nat : DOMAIN s = 1 .. n
         /\ \A k \in DOMAIN s : s[k] \in Int
         /\ \A k, l \in DOMAIN s : k <= l => s[k] <= s[l]
         /\ \A k \in DOMAIN s : s[k] < 0 => \E horizon \in In(c.durations) : horizon < 0
<1> DEFINE d == Durations(c)
<1>1. /\ d \in Seq(Int)
      /\ \A i \in DOMAIN d : d[i] < 0 => d[i] \in In(c.durations)
  <2>1. CASE c.durations = <<>>
    <3>1. d = DefaultDurations /\ d \in Seq(Nat)
      BY <2>1, ExperimentsAssumption DEF Durations
    <3>2. \A i \in DOMAIN d : d[i] \in Nat
      BY <3>1
    <3> HIDE DEF d
    <3> QED
      BY <3>1, <3>2
  <2>2. CASE c.durations # <<>>
    BY <2>2, ExperimentsAssumption DEF Durations, In
  <2> QED
    BY <2>1, <2>2
<1> HIDE DEF d
<1>2. /\ DOMAIN s = DOMAIN d
      /\ \A k \in DOMAIN d : \E i \in DOMAIN d : s[k] = d[i]
      /\ \A k, l \in DOMAIN d : k <= l => s[k] <= s[l]
  BY <1>1, SortedProperties DEF d
<1>3. (\E n \in Nat : DOMAIN d = 1 .. n) /\ \A i \in DOMAIN d : d[i] \in Int
  BY <1>1
<1>4. \A k \in DOMAIN d : s[k] < 0 => \E horizon \in In(c.durations) : horizon < 0
  BY <1>1, <1>2
<1> QED
  BY <1>2, <1>3, <1>4

\* The simulations of an accepted configuration.  A horizon that is refused is a
\* duration of a convergence experiment, and then the first is refused too.
LEMMA PlanProperties ==
  ASSUME NEW c \in Configs, Accepted(c)
  PROVE  /\ Plan(c) \in Seq(Simulations)
         /\ \A n \in DOMAIN Plan(c) : HorizonRefused(Plan(c)[n]) =>
              /\ c.type = "convergence"
              /\ HorizonRefused(Plan(c)[1])
              /\ \E horizon \in In(c.durations) : horizon < 0
<1>1. /\ c.lambda_rate \in SUBSET Int /\ c.capacity \in SUBSET Int
      /\ c.simulation_time \in SUBSET Int
      /\ c.lambda_rates \in Seq(Int) /\ c.num_replications \in Nat \ {0}
      /\ \A horizon \in c.simulation_time : horizon > 0
      /\ c.type \in ExperimentType
  BY ExperimentsAssumption DEF Accepted, FieldsInRange
<1>2. ASSUME NEW rate \in Int, NEW horizon \in Int, NEW capacity \in SUBSET Int
      PROVE  /\ Simulation(rate, horizon, capacity) \in Simulations
             /\ HorizonRefused(Simulation(rate, horizon, capacity)) <=> horizon < 0
  BY DEF Simulation, Simulations, HorizonRefused
<1>3. CASE c.type = "single_run"
  <2>1. /\ The(c.lambda_rate) \in Int /\ The(c.simulation_time) \in Int
        /\ The(c.simulation_time) > 0
    BY <1>1, <1>3, TheValue DEF Accepted, SingleRunComplete
  <2>2. PICK x : x = Simulation(The(c.lambda_rate), The(c.simulation_time), {})
    OBVIOUS
  <2>3. x \in Simulations /\ ~HorizonRefused(x)
    BY <1>2, <2>1, <2>2
  <2>4. Plan(c) = <<x>>
    BY <1>3, <2>2 DEF Plan, SingleRun
  <2> QED
    BY <2>3, <2>4
<1>4. CASE c.type = "parameter_sweep"
  <2>1. The(c.simulation_time) \in Int /\ The(c.simulation_time) > 0
    BY <1>1, <1>4, TheValue DEF Accepted, SweepComplete
  <2>2. PICK s : s = Sorted(c.lambda_rates)
    OBVIOUS
  <2>3. /\ \E n \in Nat : DOMAIN s = 1 .. n
        /\ \A k \in DOMAIN s : s[k] \in Int
    BY <1>1, <2>2, SortedProperties
  <2>4. PICK m \in Nat : DOMAIN s = 1 .. m
    BY <2>3
  <2>5. Len(s) = m
    BY <2>2, <2>4 DEF Sorted
  <2>6. Plan(c) = [n \in 1 .. m |-> Simulation(s[n], The(c.simulation_time), c.capacity)]
    BY <1>4, <2>2, <2>5 DEF Plan, ParameterSweep
  <2>7. \A n \in 1 .. m : /\ Plan(c)[n] \in Simulations
                          /\ ~HorizonRefused(Plan(c)[n])
    BY <1>1, <1>2, <2>1, <2>3, <2>4, <2>6
  <2> QED
    BY <2>4, <2>6, <2>7
<1>5. CASE c.type = "convergence"
  <2>1. The(c.lambda_rate) \in Int
    BY <1>1, <1>5, TheValue DEF Accepted, ConvergenceComplete
  <2>2. PICK s : s = Sorted(Durations(c))
    OBVIOUS
  <2>3. PICK m \in Nat : DOMAIN s = 1 .. m
    BY <2>2, SortedDurations
  <2>4. /\ \A k \in 1 .. m : s[k] \in Int
        /\ \A k, l \in 1 .. m : k <= l => s[k] <= s[l]
        /\ \A k \in 1 .. m : s[k] < 0 => \E horizon \in In(c.durations) : horizon < 0
    BY <2>2, <2>3, SortedDurations
  <2>5. Len(s) = m
    BY <2>2, <2>3 DEF Sorted
  <2> DEFINE r == c.num_replications
             at(n) == 1 + ((n - 1) \div r)
  <2>6. Plan(c) = [n \in 1 .. m * r |-> Simulation(The(c.lambda_rate), s[at(n)], {})]
    BY <1>5, <2>2, <2>5 DEF Plan, Convergence
  <2>7. m * r \in Nat
    BY <1>1
  <2>8. \A n \in 1 .. m * r : at(n) \in 1 .. m
    BY <1>1, QuotientInRange
  <2> HIDE DEF at
  <2>9. \A n \in 1 .. m * r : /\ Plan(c)[n] \in Simulations
                              /\ HorizonRefused(Plan(c)[n]) <=> s[at(n)] < 0
    BY <1>2, <2>1, <2>4, <2>6, <2>8
  <2>10. ASSUME NEW n \in 1 .. m * r, HorizonRefused(Plan(c)[n])
         PROVE  HorizonRefused(Plan(c)[1]) /\ \E horizon \in In(c.durations) : horizon < 0
    <3>1. s[at(n)] < 0 /\ at(n) \in 1 .. m
      BY <2>8, <2>9, <2>10
    <3>2. 1 \in 1 .. m * r
      BY <2>7
    <3>3. at(1) = 1
      BY <1>1 DEF at
    <3>4. s[1] <= s[at(n)] /\ s[1] \in Int /\ s[at(n)] \in Int
      BY <2>4, <3>1
    <3>5. s[at(1)] < 0
      BY <3>1, <3>3, <3>4
    <3> QED
      BY <2>4, <2>9, <3>1, <3>2, <3>5
  <2>11. Plan(c) \in Seq(Simulations) /\ DOMAIN Plan(c) = 1 .. m * r
    <3> DEFINE total == m * r
               planned == Plan(c)
    <3>1. DOMAIN planned = 1 .. total /\ planned = [n \in 1 .. total |-> planned[n]]
      BY <2>6
    <3>2. total \in Nat /\ \A n \in 1 .. total : planned[n] \in Simulations
      BY <2>7, <2>9
    <3> HIDE DEF total, planned
    <3>3. planned \in [1 .. total -> Simulations]
      BY <3>1, <3>2
    <3>4. planned \in Seq(Simulations)
      BY <3>2, <3>3
    <3> QED
      BY <3>1, <3>4 DEF total, planned
  <2> QED
    BY <1>5, <2>10, <2>11
<1> QED
  BY <1>1, <1>3, <1>4, <1>5 DEF ExperimentType

\* What an experiment that was accepted refuses all the same, before it runs.
LEMMA RefusedParameters ==
  ASSUME NEW c \in Configs, Accepted(c), Refuses(c)
  PROVE  /\ c.type # "parameter_sweep"
         /\ \/ c.capacity # {} /\ \E rate \in c.lambda_rate : rate >= c.mu_rate
            \/ c.type = "convergence" /\ ~(In(c.metric_names) \subseteq MetricNames)
<1>1. /\ c.lambda_rate \subseteq Int /\ c.capacity \subseteq Int /\ c.simulation_time \subseteq Int
      /\ c.mu_rate \in Int /\ c.mu_rate > 0 /\ c.num_replications \in Int
      /\ c.num_replications >= 1 /\ c.type \in ExperimentType
      /\ \A value \in c.lambda_rate : value > 0
      /\ \A value \in c.capacity : value > 0
      /\ \A value \in c.simulation_time : value > 0
  BY ExperimentsAssumption DEF Accepted, FieldsInRange
<1>2. ASSUME NoTheory(c), \A rate \in c.lambda_rate : Stable(c, rate)
      PROVE  c.capacity # {} /\ \E rate \in c.lambda_rate : rate >= c.mu_rate
  BY <1>1, <1>2 DEF NoTheory, Stable
<1>3. CASE c.type = "single_run"
  BY <1>1, <1>2, <1>3 DEF Accepted, SingleRunComplete, Refuses
<1>4. CASE c.type = "parameter_sweep"
  <2>1. In(c.lambda_rates) \subseteq Int
    BY ExperimentsAssumption DEF In
  <2>2. \A rate \in In(c.lambda_rates) : ~(rate <= 0) /\ Stable(c, rate)
    BY <1>4, <2>1 DEF Accepted, SweepComplete
  <2>3. ~SweepRefuses(c)
    BY <1>1, <1>4, <2>2 DEF Accepted, SweepComplete, SweepRefuses
  <2> QED
    BY <1>4, <2>3 DEF Refuses
<1>5. CASE c.type = "convergence"
  <2>1. ~(Tracked(c) \subseteq MetricNames) => ~(In(c.metric_names) \subseteq MetricNames)
    BY DEF Tracked
  <2> QED
    BY <1>1, <1>2, <1>5, <2>1 DEF Accepted, ConvergenceComplete, Refuses
<1> QED
  BY <1>1, <1>3, <1>4, <1>5 DEF ExperimentType
-----------------------------------------------------------------------------
\* What the executions so far have left behind.

\* The numbers of configurations, of lists of simulations and of outcomes fit
\* together, and what was executed was accepted.
Ledger ==
  /\ \A k \in DOMAIN configs : Accepted(configs[k])
  /\ runs \in Seq(Seq(Simulations))
  /\ Len(runs) = Len(configs)
  /\ outcomes \in Seq({"returned", "refused", "interrupted"})
  /\ Len(configs) = Len(outcomes) + IF Active THEN 1 ELSE 0
  /\ Active => step \in 1 .. Len(Steps(Config)) + 1

\* The active execution has run the first simulations of its plan, and all of
\* them once it writes charts and results; a refusal precedes the first.
RunsOfPlan ==
  Active =>
    /\ step = 1 => runs[Current] = <<>>
    /\ step = 2 =>
         /\ Len(runs[Current]) <= Len(Plan(Config))
         /\ \A n \in DOMAIN runs[Current] : runs[Current][n] = Plan(Config)[n]
         /\ runs[Current] # <<>> => ~Refuses(Config) /\ ~HorizonRefused(Plan(Config)[1])
    /\ step > 2 => ~Refuses(Config) /\ runs[Current] = Plan(Config)

\* The active execution has touched only the files up to its step.
OnlyOwnFiles ==
  Active => \A f \in FileNames :
    files[f].of = Current => \E i \in DOMAIN Steps(Config) : i <= step /\ Steps(Config)[i] = f

LedgerInv == RunnerInv /\ Ledger /\ RunsOfPlan /\ OnlyOwnFiles

\* The simulations are the second step; every other one writes a file.
LEMMA RunIsSecond ==
  ASSUME NEW c
  PROVE  /\ 2 \in DOMAIN Steps(c) /\ Steps(c)[2] = "run"
         /\ \A i \in DOMAIN Steps(c) : i # 2 => Steps(c)[i] \in FileNames
<1>1. CASE c.type = "parameter_sweep"
  BY <1>1 DEF Steps, FileNames, ChartNames
<1>2. CASE c.type # "parameter_sweep"
  BY <1>2 DEF Steps, FileNames
<1> QED
  BY <1>1, <1>2

\* What is known of the active execution.
LEMMA ActiveFacts ==
  ASSUME RunnerInv, Ledger, Active
  PROVE  /\ Current \in Nat \ {0} /\ Current = Len(configs) /\ Current = Len(runs)
         /\ Current = Len(outcomes) + 1 /\ Len(outcomes) \in Nat
         /\ Current \in DOMAIN configs /\ Current \in DOMAIN runs
         /\ Config \in Configs /\ Accepted(Config)
         /\ runs[Current] \in Seq(Simulations)
         /\ Plan(Config) \in Seq(Simulations)
<1>1. /\ configs \in Seq(Configs) /\ Current > 0 /\ Current = Len(configs)
      /\ runs \in Seq(Seq(Simulations)) /\ Len(runs) = Len(configs)
      /\ Len(outcomes) \in Nat /\ Len(configs) = Len(outcomes) + 1
  BY DEF RunnerInv, RunnerTypes, Ledger, Current
<1>2. Current \in Nat \ {0} /\ Current \in DOMAIN configs /\ Current \in DOMAIN runs
  BY <1>1
<1>3. Config \in Configs /\ Accepted(Config)
  BY <1>1, <1>2 DEF Config, Ledger
<1>4. runs[Current] \in Seq(Simulations)
  BY <1>1, <1>2
<1>5. Plan(Config) \in Seq(Simulations)
  BY <1>3, PlanProperties
<1> QED
  BY <1>1, <1>2, <1>3, <1>4, <1>5

\* Where the active execution is, told by what it is doing.
LEMMA WhatItDoes ==
  ASSUME RunnerInv, Ledger, Active
  PROVE  /\ step \in Nat \ {0} /\ Len(Steps(Config)) \in Nat
         /\ Doing = "run" <=> step = 2
         /\ Doing \in FileNames => step \in DOMAIN Steps(Config) /\ Doing = Steps(Config)[step]
         /\ step \in DOMAIN Steps(Config) => step + 1 \in 1 .. Len(Steps(Config)) + 1
<1> DEFINE order == Steps(Config)
           last == Len(order)
<1>1. /\ last \in Nat \ {0} /\ DOMAIN order = 1 .. last
      /\ \A i, j \in DOMAIN order : order[i] = order[j] => i = j
      /\ 2 \in DOMAIN order /\ order[2] = "run"
  BY StepsInOrder, RunIsSecond
<1>2. step \in 1 .. last + 1
  BY DEF Ledger
<1>3. Doing = IF step \in DOMAIN order THEN order[step] ELSE "return"
  BY DEF Doing
<1>4. "return" \notin FileNames
  BY DEF FileNames, ChartNames
<1> HIDE DEF order, last
<1>5. step \in Nat \ {0} /\ (step \in DOMAIN order => step + 1 \in 1 .. last + 1)
  BY <1>1, <1>2
<1>6. Doing = "run" <=> step = 2
  BY <1>1, <1>3
<1>7. Doing \in FileNames => step \in DOMAIN order /\ Doing = order[step]
  BY <1>3, <1>4
<1> QED
  BY <1>1, <1>5, <1>6, <1>7 DEF order, last

\* The ledger is empty at first.
LEMMA LedgerInit == Init => LedgerInv /\ RefusalsExplained
<1> SUFFICES ASSUME Init PROVE LedgerInv /\ RefusalsExplained
  OBVIOUS
<1>1. RunnerInv
  BY InvHoldsInitially
<1>2. Ledger /\ RunsOfPlan /\ OnlyOwnFiles
  BY DEF Init, Ledger, RunsOfPlan, OnlyOwnFiles, Active
<1>3. RefusalsExplained
  BY DEF Init, RefusalsExplained
<1> QED
  BY <1>1, <1>2, <1>3 DEF LedgerInv

-----------------------------------------------------------------------------
\* A new execution is an accepted one and has run nothing.
LEMMA ExecuteLedger ==
  ASSUME LedgerInv, NEW c \in Configs, Execute(c)
  PROVE  Ledger' /\ RunsOfPlan' /\ OnlyOwnFiles'
<1>1. /\ ~Active /\ Accepted(c)
      /\ configs' = Append(configs, c) /\ runs' = Append(runs, <<>>)
      /\ step' = 1 /\ files' = files /\ outcomes' = outcomes
  BY DEF Execute
<1>2. /\ configs \in Seq(Configs) /\ runs \in Seq(Seq(Simulations))
      /\ Len(runs) = Len(configs) /\ Len(configs) = Len(outcomes)
      /\ outcomes \in Seq({"returned", "refused", "interrupted"})
      /\ \A k \in DOMAIN configs : Accepted(configs[k])
  BY <1>1 DEF LedgerInv, RunnerInv, RunnerTypes, Ledger
<1>3. /\ Current' = Len(configs) + 1 /\ Config' = c /\ Active'
      /\ runs'[Current'] = <<>>
  BY <1>1, <1>2 DEF Current, Config, Active
<1>4. Ledger'
  <2>1. \A k \in DOMAIN configs' : Accepted(configs'[k])
    BY <1>1, <1>2
  <2>2. <<>> \in Seq(Simulations)
    OBVIOUS
  <2>3. runs' \in Seq(Seq(Simulations)) /\ Len(runs') = Len(configs')
    BY <1>1, <1>2, <2>2
  <2>4. Len(configs') = Len(outcomes') + 1
    BY <1>1, <1>2
  <2>5. step' \in 1 .. Len(Steps(c)) + 1
    BY <1>1, StepsInOrder
  <2> QED
    BY <1>1, <1>2, <1>3, <2>1, <2>3, <2>4, <2>5 DEF Ledger
<1>5. RunsOfPlan'
  <2>1. step' = 1 /\ step' # 2 /\ ~(step' > 2)
    BY <1>1
  <2> QED
    BY <1>3, <2>1 DEF RunsOfPlan
<1>6. OnlyOwnFiles'
  <2>1. \A f \in FileNames : files'[f].of < Current'
    BY <1>1, <1>2, <1>3 DEF LedgerInv, RunnerInv, RunnerTypes, NoFutureFiles, Current
  <2>2. \A f \in FileNames : files'[f].of \in Nat
    BY <1>1 DEF LedgerInv, RunnerInv, RunnerTypes
  <2>3. Current' \in Nat
    BY <1>2, <1>3
  <2> QED
    BY <2>1, <2>2, <2>3 DEF OnlyOwnFiles
<1> QED
  BY <1>4, <1>5, <1>6

\* Opening a file.
LEMMA TruncateLedger ==
  ASSUME LedgerInv, Truncate
  PROVE  Ledger' /\ RunsOfPlan' /\ OnlyOwnFiles'
<1>1. /\ Active /\ Doing \in FileNames
      /\ files' = [files EXCEPT ![Doing] = [of |-> Current, whole |-> FALSE]]
      /\ configs' = configs /\ runs' = runs /\ step' = step /\ outcomes' = outcomes
  BY DEF Truncate
<1>2. Current' = Current /\ Config' = Config /\ Active' = Active
  BY <1>1 DEF Current, Config, Active
<1>3. Ledger' /\ RunsOfPlan'
  BY <1>1, <1>2 DEF LedgerInv, Ledger, RunsOfPlan
<1>4. OnlyOwnFiles'
  <2>1. step \in DOMAIN Steps(Config) /\ Doing = Steps(Config)[step] /\ step <= step
    BY <1>1, WhatItDoes DEF LedgerInv
  <2>2. \A f \in FileNames : f # Doing => files'[f] = files[f]
    BY <1>1 DEF LedgerInv, RunnerInv, RunnerTypes
  <2> QED
    BY <1>1, <1>2, <2>1, <2>2 DEF LedgerInv, OnlyOwnFiles
<1> QED
  BY <1>3, <1>4

\* Closing it: the simulations begin, or all of them are done.
LEMMA CompleteLedger ==
  ASSUME LedgerInv, Complete
  PROVE  Ledger' /\ RunsOfPlan' /\ OnlyOwnFiles'
<1>1. /\ Active /\ Doing \in FileNames
      /\ files' = [files EXCEPT ![Doing] = [of |-> Current, whole |-> TRUE]]
      /\ configs' = configs /\ runs' = runs /\ step' = step + 1 /\ outcomes' = outcomes
  BY DEF Complete
<1>2. Current' = Current /\ Config' = Config
  BY <1>1 DEF Current, Config
<1>3. /\ step \in Nat \ {0} /\ step \in DOMAIN Steps(Config) /\ Doing = Steps(Config)[step]
      /\ step + 1 \in 1 .. Len(Steps(Config)) + 1
      /\ step # 2
  BY <1>1, WhatItDoes DEF LedgerInv, FileNames, ChartNames
<1>4. Active'
  BY <1>1, <1>3 DEF Active
<1>5. Ledger'
  BY <1>1, <1>2, <1>3, <1>4 DEF LedgerInv, Ledger
<1>6. RunsOfPlan'
  <2>1. CASE step = 1
    <3>1. runs[Current] = <<>> /\ Len(Plan(Config)) \in Nat
      BY <1>1, <2>1, ActiveFacts DEF LedgerInv, RunsOfPlan
    <3> QED
      BY <1>1, <1>2, <2>1, <3>1 DEF RunsOfPlan
  <2>2. CASE step > 2
    <3>1. ~Refuses(Config) /\ runs[Current] = Plan(Config)
      BY <1>1, <2>2 DEF LedgerInv, RunsOfPlan
    <3>2. step' # 1 /\ step' # 2
      BY <1>1, <1>3, <2>2
    <3> QED
      BY <1>1, <1>2, <3>1, <3>2 DEF RunsOfPlan
  <2> QED
    BY <1>3, <2>1, <2>2
<1>7. OnlyOwnFiles'
  <2>1. \A f \in FileNames : f # Doing => files'[f] = files[f]
    BY <1>1 DEF LedgerInv, RunnerInv, RunnerTypes
  <2>2. \A i \in DOMAIN Steps(Config) : i <= step => i <= step + 1
    BY <1>3, StepsInOrder
  <2>3. step <= step
    BY <1>3
  <2> QED
    BY <1>1, <1>2, <1>3, <2>1, <2>2, <2>3 DEF LedgerInv, OnlyOwnFiles
<1> QED
  BY <1>5, <1>6, <1>7

\* The next simulation of the plan.
LEMMA SimulateLedger ==
  ASSUME LedgerInv, Simulate
  PROVE  Ledger' /\ RunsOfPlan' /\ OnlyOwnFiles'
<1> DEFINE done == runs[Current]
           plan == Plan(Config)
<1>1. /\ Active /\ Doing = "run" /\ ~Refuses(Config)
      /\ Len(done) < Len(plan) /\ ~HorizonRefused(plan[Len(done) + 1])
      /\ runs' = [runs EXCEPT ![Current] = Append(done, plan[Len(done) + 1])]
      /\ configs' = configs /\ files' = files /\ step' = step /\ outcomes' = outcomes
  BY DEF Simulate, Done, Planned
<1>2. Current' = Current /\ Config' = Config /\ Active' = Active
  BY <1>1 DEF Current, Config, Active
<1>3. /\ step = 2 /\ Current \in DOMAIN runs
      /\ done \in Seq(Simulations) /\ plan \in Seq(Simulations)
  BY <1>1, WhatItDoes, ActiveFacts DEF LedgerInv
<1>4. /\ Len(done) <= Len(plan)
      /\ \A n \in DOMAIN done : done[n] = plan[n]
      /\ done # <<>> => ~HorizonRefused(plan[1])
  BY <1>1, <1>3 DEF LedgerInv, RunsOfPlan
<1> DEFINE after == Append(done, plan[Len(done) + 1])
<1> HIDE DEF done, plan
<1>5. /\ after \in Seq(Simulations) /\ Len(after) = Len(done) + 1
      /\ Len(after) <= Len(plan)
      /\ \A n \in DOMAIN after : after[n] = plan[n]
  BY <1>1, <1>3, <1>4
<1>6. ~HorizonRefused(plan[1])
  <2>1. CASE done = <<>>
    <3>1. Len(done) + 1 = 1
      BY <2>1
    <3> QED
      BY <1>1, <3>1
  <2> QED
    BY <1>4, <2>1
<1> HIDE DEF after
<1>7. runs' = [runs EXCEPT ![Current] = after]
  BY <1>1 DEF after
<1>8. runs \in Seq(Seq(Simulations)) /\ Len(runs) = Len(configs)
  BY DEF LedgerInv, Ledger
<1>9. /\ runs' \in Seq(Seq(Simulations)) /\ Len(runs') = Len(runs)
      /\ runs'[Current] = after
  BY <1>3, <1>5, <1>7, <1>8
<1>10. Ledger'
  BY <1>1, <1>2, <1>8, <1>9 DEF LedgerInv, Ledger
<1>11. RunsOfPlan'
  <2>1. /\ runs'[Current] = after /\ step' = 2
        /\ ~Refuses(Config) /\ ~HorizonRefused(Plan(Config)[1])
        /\ Len(after) <= Len(Plan(Config))
        /\ \A n \in DOMAIN after : after[n] = Plan(Config)[n]
    BY <1>1, <1>3, <1>5, <1>6, <1>9 DEF plan
  <2> QED
    BY <1>2, <2>1 DEF RunsOfPlan
<1>12. OnlyOwnFiles'
  BY <1>1, <1>2 DEF LedgerInv, OnlyOwnFiles
<1> QED
  BY <1>10, <1>11, <1>12

\* The plan is done.
LEMMA FinishRunLedger ==
  ASSUME LedgerInv, FinishRun
  PROVE  Ledger' /\ RunsOfPlan' /\ OnlyOwnFiles'
<1>1. /\ Active /\ Doing = "run" /\ ~Refuses(Config)
      /\ Len(runs[Current]) = Len(Plan(Config))
      /\ configs' = configs /\ runs' = runs /\ files' = files
      /\ step' = step + 1 /\ outcomes' = outcomes
  BY DEF FinishRun, Done, Planned
<1>2. Current' = Current /\ Config' = Config
  BY <1>1 DEF Current, Config
<1>3. step = 2 /\ step' = 3 /\ Active' /\ 3 \in 1 .. Len(Steps(Config)) + 1
  <2>1. step = 2 /\ 2 \in DOMAIN Steps(Config)
    BY <1>1, WhatItDoes, RunIsSecond DEF LedgerInv
  <2>2. 2 + 1 \in 1 .. Len(Steps(Config)) + 1
    BY <1>1, <2>1, WhatItDoes DEF LedgerInv
  <2> QED
    BY <1>1, <2>1, <2>2 DEF Active
<1>4. Ledger'
  BY <1>1, <1>2, <1>3 DEF LedgerInv, Ledger
<1>5. RunsOfPlan'
  <2> DEFINE done == runs[Current]
             plan == Plan(Config)
  <2>1. done \in Seq(Simulations) /\ plan \in Seq(Simulations)
    BY <1>1, ActiveFacts DEF LedgerInv
  <2>2. Len(done) = Len(plan) /\ \A n \in DOMAIN done : done[n] = plan[n]
    BY <1>1, <1>3 DEF LedgerInv, RunsOfPlan
  <2> HIDE DEF done, plan
  <2>3. done = plan
    BY <2>1, <2>2
  <2>4. runs[Current] = Plan(Config)
    BY <2>3 DEF done, plan
  <2> QED
    BY <1>1, <1>2, <1>3, <2>4 DEF RunsOfPlan
<1>6. OnlyOwnFiles'
  <2>1. \A i \in DOMAIN Steps(Config) : i <= 2 => i <= 3
    BY StepsInOrder
  <2> QED
    BY <1>1, <1>2, <1>3, <2>1 DEF LedgerInv, OnlyOwnFiles
<1> QED
  BY <1>4, <1>5, <1>6

\* An execution ends with its outcome.
LEMMA EndLedger ==
  ASSUME LedgerInv, Active, NEW o \in {"returned", "refused", "interrupted"}, End(o)
  PROVE  Ledger' /\ RunsOfPlan' /\ OnlyOwnFiles'
<1>1. /\ outcomes' = Append(outcomes, o) /\ step' = 0
      /\ files' = files /\ configs' = configs /\ runs' = runs
  BY DEF End
<1>2. ~Active'
  BY <1>1 DEF Active
<1>3. /\ outcomes \in Seq({"returned", "refused", "interrupted"})
      /\ Len(configs) = Len(outcomes) + 1
  BY DEF LedgerInv, Ledger
<1>4. /\ outcomes' \in Seq({"returned", "refused", "interrupted"})
      /\ Len(outcomes') = Len(outcomes) + 1
  BY <1>1, <1>3
<1>5. Ledger'
  BY <1>1, <1>2, <1>3, <1>4 DEF LedgerInv, Ledger
<1> QED
  BY <1>2, <1>5 DEF RunsOfPlan, OnlyOwnFiles

\* Every step keeps the ledger.
LEMMA LedgerNext == LedgerInv /\ [Next]_vars => LedgerInv'
<1> SUFFICES ASSUME LedgerInv, [Next]_vars PROVE LedgerInv'
  OBVIOUS
<1>1. RunnerInv'
  BY NextKeepsInv DEF LedgerInv
<1>2. Ledger' /\ RunsOfPlan' /\ OnlyOwnFiles'
  <2>1. ASSUME NEW c \in Configs, Execute(c) PROVE Ledger' /\ RunsOfPlan' /\ OnlyOwnFiles'
    BY <2>1, ExecuteLedger
  <2>2. CASE Truncate
    BY <2>2, TruncateLedger
  <2>3. CASE Complete
    BY <2>3, CompleteLedger
  <2>4. CASE FinishRun
    BY <2>4, FinishRunLedger
  <2>5. CASE Simulate
    BY <2>5, SimulateLedger
  <2>6. CASE RefuseParameters \/ RefuseHorizon \/ Interrupt \/ Return
    BY <2>6, EndLedger DEF RefuseParameters, RefuseHorizon, Interrupt, Return
  <2>7. CASE UNCHANGED vars
    BY <2>7 DEF vars, LedgerInv, Ledger, RunsOfPlan, OnlyOwnFiles, Active, Current, Config
  <2> QED
    BY <2>1, <2>2, <2>3, <2>4, <2>5, <2>6, <2>7 DEF Next
<1> QED
  BY <1>1, <1>2 DEF LedgerInv

\* The ledger is an invariant.
LEMMA LedgerInvariant == Spec => []LedgerInv
<1>1. Init => LedgerInv
  BY LedgerInit
<1> QED
  BY <1>1, LedgerNext, PTL DEF Spec

\* The numbers of the runner fit together: one list of simulations for each
\* configuration, one outcome for each execution but the active one, and no file
\* of an execution that has not begun (experiment_runner.py:88-124).
THEOREM RunnerTypeCorrect == Spec => []TypeOK
<1>1. LedgerInv => TypeOK
  <2> SUFFICES ASSUME LedgerInv PROVE TypeOK
    OBVIOUS
  <2>1. /\ files \in [FileNames -> [of : Nat, whole : BOOLEAN]]
        /\ configs \in Seq(Configs) /\ Len(configs) \in Nat
        /\ \A f \in FileNames : files[f].of <= Len(configs)
    BY DEF LedgerInv, RunnerInv, RunnerTypes, NoFutureFiles, Current
  <2>2. files \in [FileNames -> [of : 0 .. Len(configs), whole : BOOLEAN]]
    <3>1. ASSUME NEW f \in FileNames
          PROVE  files[f] \in [of : 0 .. Len(configs), whole : BOOLEAN]
      <4>1. files[f] \in [of : Nat, whole : BOOLEAN] /\ files[f].of \in 0 .. Len(configs)
        BY <2>1
      <4> QED
        BY <4>1
    <3> QED
      BY <2>1, <3>1
  <2> QED
    BY <2>1, <2>2 DEF TypeOK, LedgerInv, Ledger, Simulations
<1> QED
  BY <1>1, LedgerInvariant, PTL
-----------------------------------------------------------------------------
\* Why an execution was refused.

Explained(k) ==
  /\ configs[k].type # "parameter_sweep"
  /\ \/ configs[k].capacity # {} /\ \E rate \in configs[k].lambda_rate : rate >= configs[k].mu_rate
     \/ configs[k].type = "convergence" /\ ~(In(configs[k].metric_names) \subseteq MetricNames)
     \/ configs[k].type = "convergence" /\ \E horizon \in In(configs[k].durations) : horizon < 0
  /\ runs[k] = <<>>
  /\ \A f \in FileNames \ {"config"} : files[f].of # k

\* The parameters, or the first horizon, are refused before the first simulation;
\* until then only the configuration was written.
LEMMA RefusedNow ==
  ASSUME LedgerInv, RefuseParameters \/ RefuseHorizon
  PROVE  Explained(Current)
<1>1. Active /\ Doing = "run"
  BY DEF RefuseParameters, RefuseHorizon
<1>2. /\ step = 2 /\ Config \in Configs /\ Accepted(Config) /\ Config = configs[Current]
      /\ runs[Current] \in Seq(Simulations) /\ Plan(Config) \in Seq(Simulations)
  BY <1>1, WhatItDoes, ActiveFacts DEF LedgerInv, Config
<1>3. \A f \in FileNames \ {"config"} : files[f].of # Current
  <2> SUFFICES ASSUME NEW f \in FileNames \ {"config"}, files[f].of = Current PROVE FALSE
    OBVIOUS
  <2>1. PICK i \in DOMAIN Steps(Config) : i <= 2 /\ Steps(Config)[i] = f
    BY <1>1, <1>2 DEF LedgerInv, OnlyOwnFiles
  <2>2. i = 1 \/ i = 2
    BY <2>1, StepsInOrder
  <2>3. f = "config" \/ f = "run"
    BY <2>1, <2>2, StepsInOrder, RunIsSecond
  <2> QED
    BY <2>3 DEF FileNames, ChartNames
<1>4. CASE RefuseParameters
  <2>1. Refuses(Config) /\ runs[Current] = <<>>
    BY <1>2, <1>4 DEF RefuseParameters, Done
  <2> QED
    BY <1>2, <1>3, <2>1, RefusedParameters DEF Explained
<1>5. CASE RefuseHorizon
  <2> DEFINE plan == Plan(Config)
             next == Len(runs[Current]) + 1
  <2>1. next \in DOMAIN plan /\ HorizonRefused(plan[next])
    BY <1>2, <1>5 DEF RefuseHorizon, Done, Planned
  <2>2. /\ Config.type = "convergence" /\ HorizonRefused(Plan(Config)[1])
        /\ \E horizon \in In(Config.durations) : horizon < 0
    BY <1>2, <2>1, PlanProperties
  <2>3. runs[Current] = <<>>
    BY <1>1, <1>2, <2>2 DEF LedgerInv, RunsOfPlan
  <2> QED
    BY <1>2, <1>3, <2>2, <2>3 DEF Explained
<1> QED
  BY <1>4, <1>5

\* What explains a refusal stays: later executions write other simulations, and
\* files of their own.
LEMMA StaysExplained ==
  ASSUME LedgerInv, [Next]_vars, NEW k \in 1 .. Len(outcomes), Explained(k)
  PROVE  Explained(k)'
<1>1. /\ configs \in Seq(Configs) /\ runs \in Seq(Seq(Simulations))
      /\ Len(runs) = Len(configs) /\ Len(outcomes) \in Nat
      /\ Len(outcomes) <= Len(configs) /\ (Active => Len(outcomes) < Len(configs))
      /\ files \in [FileNames -> [of : Nat, whole : BOOLEAN]]
  BY DEF LedgerInv, RunnerInv, RunnerTypes, Ledger
<1>2. k \in DOMAIN configs /\ k \in DOMAIN runs /\ (Active => k # Current)
  BY <1>1 DEF Current
<1>3. /\ configs'[k] = configs[k] /\ runs'[k] = runs[k]
      /\ \A f \in FileNames : files'[f] = files[f] \/ (Active /\ files'[f].of = Current)
  <2>1. ASSUME NEW c \in Configs, Execute(c)
        PROVE  configs'[k] = configs[k] /\ runs'[k] = runs[k] /\ files' = files
    BY <1>1, <1>2, <2>1 DEF Execute
  <2>2. CASE Truncate \/ Complete
    <3>1. /\ Active /\ configs' = configs /\ runs' = runs
          /\ \E w \in BOOLEAN :
               files' = [files EXCEPT ![Doing] = [of |-> Current, whole |-> w]]
      BY <2>2 DEF Truncate, Complete
    <3>2. PICK w \in BOOLEAN : files' = [files EXCEPT ![Doing] = [of |-> Current, whole |-> w]]
      BY <3>1
    <3>3. \A f \in FileNames : files'[f] = files[f] \/ files'[f] = [of |-> Current, whole |-> w]
      BY <1>1, <3>2
    <3>4. [of |-> Current, whole |-> w].of = Current
      OBVIOUS
    <3> QED
      BY <3>1, <3>3, <3>4
  <2>3. CASE Simulate
    <3>1. Active /\ configs' = configs /\ files' = files
      BY <2>3 DEF Simulate
    <3>2. runs' = [runs EXCEPT ![Current] = Append(runs[Current], Planned[Done + 1])]
      BY <2>3 DEF Simulate
    <3> QED
      BY <1>1, <1>2, <3>1, <3>2
  <2>4. CASE FinishRun
    BY <2>4 DEF FinishRun
  <2>5. CASE RefuseParameters \/ RefuseHorizon \/ Interrupt \/ Return
    BY <2>5 DEF RefuseParameters, RefuseHorizon, Interrupt, Return, End
  <2>6. CASE UNCHANGED vars
    BY <2>6 DEF vars
  <2> QED
    BY <2>1, <2>2, <2>3, <2>4, <2>5, <2>6 DEF Next
<1>4. \A f \in FileNames \ {"config"} : files'[f].of # k
  BY <1>2, <1>3 DEF Explained
<1>5. runs'[k] = <<>>
  BY <1>3 DEF Explained
<1> QED
  BY <1>3, <1>4, <1>5 DEF Explained

\* What a step does to the outcomes: nothing, or it adds that of the active
\* execution, which is "refused" only if the experiment refuses.
LEMMA OutcomeStep ==
  ASSUME LedgerInv, [Next]_vars
  PROVE  \/ outcomes' = outcomes
         \/ /\ Active /\ UNCHANGED <<files, configs, runs>>
            /\ \E o : /\ outcomes' = Append(outcomes, o)
                      /\ o = "refused" => RefuseParameters \/ RefuseHorizon
<1>1. CASE RefuseParameters \/ RefuseHorizon
  BY <1>1 DEF RefuseParameters, RefuseHorizon, End
<1>2. CASE Interrupt \/ Return
  <2>1. \E o \in {"interrupted", "returned"} : Active /\ End(o)
    BY <1>2 DEF Interrupt, Return
  <2> QED
    BY <2>1 DEF End
<1>3. CASE Truncate \/ Complete \/ Simulate \/ FinishRun
  BY <1>3 DEF Truncate, Complete, Simulate, FinishRun
<1>4. CASE (\E c \in Configs : Execute(c)) \/ UNCHANGED vars
  BY <1>4 DEF Execute, vars
<1> QED
  BY <1>1, <1>2, <1>3, <1>4 DEF Next

\* Refusals are explained from then on.
LEMMA RefusalsNext == LedgerInv /\ RefusalsExplained /\ [Next]_vars => RefusalsExplained'
<1> SUFFICES ASSUME LedgerInv, RefusalsExplained, [Next]_vars,
                    NEW k \in DOMAIN outcomes', outcomes'[k] = "refused"
             PROVE  Explained(k)'
  BY DEF RefusalsExplained, Explained
<1>1. outcomes \in Seq({"returned", "refused", "interrupted"})
  BY DEF LedgerInv, Ledger
<1>2. ASSUME k \in DOMAIN outcomes, outcomes[k] = "refused"
      PROVE  Explained(k)'
  <2>1. Explained(k)
    BY <1>2 DEF RefusalsExplained, Explained
  <2>2. k \in 1 .. Len(outcomes)
    BY <1>1, <1>2
  <2> QED
    BY <2>1, <2>2, StaysExplained
<1>3. CASE outcomes' = outcomes
  BY <1>2, <1>3
<1>4. ASSUME Active, UNCHANGED <<files, configs, runs>>, NEW o,
             outcomes' = Append(outcomes, o),
             o = "refused" => RefuseParameters \/ RefuseHorizon
      PROVE  Explained(k)'
  <2>1. CASE k \in DOMAIN outcomes
    <3>1. outcomes'[k] = outcomes[k]
      BY <1>1, <1>4, <2>1
    <3> QED
      BY <1>2, <2>1, <3>1
  <2>2. CASE k \notin DOMAIN outcomes
    <3>1. k = Len(outcomes) + 1 /\ outcomes'[k] = o
      BY <1>1, <1>4, <2>2
    <3>2. k = Current
      BY <1>4, <3>1, ActiveFacts DEF LedgerInv
    <3>3. Explained(k)
      BY <1>4, <3>1, <3>2, RefusedNow
    <3> QED
      BY <1>4, <3>3 DEF Explained
  <2> QED
    BY <2>1, <2>2
<1> QED
  BY <1>3, <1>4, OutcomeStep

\* A configuration that was accepted and is refused all the same is not a sweep;
\* it has a rate that needs the capacity to be stable, an unknown metric or a
\* negative duration, it has run nothing and only its configuration was written
\* (experiment_runner.py:49-80, 107-113).
THEOREM RefusalsHaveReasons == Spec => []RefusalsExplained
<1>1. Init => RefusalsExplained
  BY LedgerInit
<1>2. LedgerInv /\ RefusalsExplained /\ [Next]_vars => RefusalsExplained'
  BY RefusalsNext
<1> QED
  BY <1>1, <1>2, LedgerInvariant, PTL DEF Spec
-----------------------------------------------------------------------------
\* The directory as a publication.  The abstract specification names the same
\* operators of Experiments.
LEMMA SameExperiments ==
  ASSUME NEW c \in Configs
  PROVE  /\ Results!Accepted(c) <=> Accepted(c)
         /\ Results!Refuses(c) <=> Refuses(c)
         /\ Results!Plan(c) = Plan(c)
<1>1. ASSUME NEW list PROVE Results!In(list) = In(list) /\ Results!Sorted(list) = Sorted(list)
  <2>1. Results!In(list) = In(list)
    BY DEF Results!In, In
  <2>2. ASSUME NEW S PROVE Results!Cardinality(S) = Cardinality(S)
    BY DEF Results!Cardinality, Cardinality
  <2>3. Results!Sorted(list) = Sorted(list)
    <3> DEFINE before(i) == {j \in DOMAIN list : list[j] < list[i] \/ (list[j] = list[i] /\ j < i)}
               here(k) == CHOOSE i \in DOMAIN list : Cardinality(before(i)) = k - 1
               there(k) == CHOOSE i \in DOMAIN list : Results!Cardinality(before(i)) = k - 1
    <3>1. /\ Sorted(list) = [k \in DOMAIN list |-> list[here(k)]]
          /\ Results!Sorted(list) = [k \in DOMAIN list |-> list[there(k)]]
      BY DEF Results!Sorted, Sorted
    <3> HIDE DEF before
    <3>2. \A k : here(k) = there(k)
      BY <2>2, Zenon
    <3> HIDE DEF here, there
    <3> QED
      BY <3>1, <3>2
  <2> QED
    BY <2>1, <2>3
<1>2. ASSUME NEW rate PROVE Results!Stable(c, rate) <=> Stable(c, rate)
  BY DEF Results!Stable, Stable
<1>3. /\ Results!Durations(c) = Durations(c) /\ Results!Tracked(c) = Tracked(c)
      /\ Results!NoTheory(c) <=> NoTheory(c)
      /\ Results!MetricNames = MetricNames
  BY <1>1 DEF Results!Durations, Durations, Results!Tracked, Tracked, Results!NoTheory, NoTheory,
              Results!MetricNames, MetricNames
<1>4. Results!FieldsInRange(c) <=> FieldsInRange(c)
  BY DEF Results!FieldsInRange, FieldsInRange, Results!ExperimentType, ExperimentType
<1>5. Results!SweepRefuses(c) <=> SweepRefuses(c)
  BY <1>1, <1>2 DEF Results!SweepRefuses, SweepRefuses
<1>6. Results!Accepted(c) <=> Accepted(c)
  BY <1>1, <1>2, <1>4
     DEF Results!Accepted, Accepted, Results!SingleRunComplete, SingleRunComplete,
         Results!ConvergenceComplete, ConvergenceComplete, Results!SweepComplete, SweepComplete
<1>7. Results!Refuses(c) <=> Refuses(c)
  <2>1. c.type \in ExperimentType
    BY ExperimentsAssumption
  <2> QED
    BY <1>3, <1>5, <2>1 DEF Results!Refuses, Refuses, ExperimentType
<1>8. ASSUME NEW rate, NEW horizon, NEW capacity
      PROVE  Results!Simulation(rate, horizon, capacity) = Simulation(rate, horizon, capacity)
  BY DEF Results!Simulation, Simulation
<1>9. ASSUME NEW optional PROVE Results!The(optional) = The(optional)
  BY DEF Results!The, The
<1>10. /\ Results!SingleRun(c) = SingleRun(c)
       /\ Results!Convergence(c) = Convergence(c)
       /\ Results!ParameterSweep(c) = ParameterSweep(c)
  BY <1>1, <1>3, <1>8, <1>9
     DEF Results!SingleRun, SingleRun, Results!Convergence, Convergence,
         Results!ParameterSweep, ParameterSweep
<1>11. Results!Plan(c) = Plan(c)
  BY <1>10 DEF Results!Plan, Plan
<1> QED
  BY <1>6, <1>7, <1>11

PublishedNow == {[config |-> configs[k], simulations |-> Reported] : k \in Visible}

\* Only one execution is published at a time, and while simulations run none is.
LEMMA OneVisible ==
  ASSUME LedgerInv, Active, Doing \in FileNames \cup {"run"}, Doing # "config"
  PROVE  PublishedNow = {}
<1> SUFFICES ASSUME NEW k \in DOMAIN configs, Published(k) PROVE FALSE
  BY DEF PublishedNow, Visible
<1>1. CASE Doing \in FileNames
  BY <1>1, NothingElsePublished DEF LedgerInv
<1>2. CASE Doing = "run"
  <2>1. step = 2 /\ Current \in Nat
    BY <1>2, WhatItDoes, ActiveFacts DEF LedgerInv
  <2>2. WholeOf("config", Current)
    <3>1. 1 \in DOMAIN Steps(Config) /\ Steps(Config)[1] = "config" /\ 1 < step
      BY <2>1, StepsInOrder
    <3> QED
      BY <3>1, NamesOfFiles DEF LedgerInv, RunnerInv, Progress
  <2>3. files["report"].of < Current
    <3>1. PICK last : last = Len(Steps(Config))
      OBVIOUS
    <3>2. /\ last \in Nat \ {0} /\ last \in DOMAIN Steps(Config)
          /\ Steps(Config)[last] = "report" /\ Steps(Config)[1] = "config"
          /\ Steps(Config)[2] = "run"
      BY <3>1, StepsInOrder, RunIsSecond
    <3>3. last # 1 /\ last # 2
      BY <3>2
    <3>4. last > step
      BY <2>1, <3>2, <3>3
    <3>5. files[Steps(Config)[last]].of < Current
      BY <3>2, <3>4, NamesOfFiles DEF LedgerInv, RunnerInv, Progress
    <3> QED
      BY <3>2, <3>5
  <2> QED
    BY <2>1, <2>2, <2>3 DEF Published, WholeOf
<1> QED
  BY <1>1, <1>2

\* A publication goes unchanged as long as the files do.
LEMMA SamePublication ==
  ASSUME LedgerInv, files' = files,
         \A k \in DOMAIN configs : configs'[k] = configs[k] /\ runs'[k] = runs[k],
         DOMAIN configs \subseteq DOMAIN configs',
         DOMAIN configs' \subseteq DOMAIN configs \cup {Len(configs) + 1}
  PROVE  PublishedNow' = PublishedNow
<1>1. /\ configs \in Seq(Configs) /\ Len(configs) \in Nat
      /\ \A f \in FileNames : files[f].of <= Len(configs) /\ files[f].of \in Nat
  BY DEF LedgerInv, RunnerInv, RunnerTypes, NoFutureFiles, Current
<1>2. \A k : Published(k)' <=> Published(k)
  BY DEF Published, WholeOf
<1>3. \A k : Published(k) => k <= Len(configs) /\ k # Len(configs) + 1
  BY <1>1, NamesOfFiles DEF Published, WholeOf
<1>4. Visible' = Visible
  BY <1>2, <1>3 DEF Visible
<1>5. ASSUME NEW k \in Visible
      PROVE  Reported' = Reported
  <2>1. WholeOf("results", k) /\ k \in DOMAIN configs
    BY DEF Visible, LedgerInv, RunnerInv, EndsTellTheMiddle
  <2>2. files["results"].of = k
    BY <2>1 DEF WholeOf
  <2> QED
    BY <2>1, <2>2 DEF Reported
<1>6. \A k \in Visible : configs'[k] = configs[k]
  BY DEF Visible
<1> QED
  BY <1>4, <1>5, <1>6 DEF PublishedNow

\* Nothing is published while the two files that frame it do not agree.
LEMMA StaysUnpublished ==
  ASSUME LedgerInv, PublishedNow = {}, configs' = configs,
         files'["config"] = files["config"], files'["report"] = files["report"]
  PROVE  PublishedNow' = {}
<1>1. \A k : Published(k)' <=> Published(k)
  BY DEF Published, WholeOf
<1>2. Visible = {}
  BY DEF PublishedNow
<1>3. Visible' = {}
  BY <1>1, <1>2 DEF Visible
<1> QED
  BY <1>3 DEF PublishedNow

\* Cutting off the configuration withdraws what was published.
LEMMA TruncateWithdraws ==
  ASSUME LedgerInv, Truncate
  PROVE  PublishedNow' = {} /\ configs' = configs
<1>1. /\ Active /\ Doing \in FileNames /\ configs' = configs
      /\ files' = [files EXCEPT ![Doing] = [of |-> Current, whole |-> FALSE]]
      /\ files \in [FileNames -> [of : Nat, whole : BOOLEAN]]
  BY DEF Truncate, LedgerInv, RunnerInv, RunnerTypes
<1>2. CASE Doing \in {"config", "report"}
  <2>1. \A k : ~Published(k)'
    BY <1>1, <1>2 DEF Published, WholeOf
  <2> QED
    BY <1>1, <2>1 DEF PublishedNow, Visible
<1>3. CASE Doing \notin {"config", "report"}
  <2>1. PublishedNow = {}
    BY <1>1, <1>3, OneVisible
  <2>2. files'["config"] = files["config"] /\ files'["report"] = files["report"]
    BY <1>1, <1>3, NamesOfFiles
  <2> QED
    BY <1>1, <2>1, <2>2, StaysUnpublished
<1> QED
  BY <1>1, <1>2, <1>3

\* Closing a file publishes nothing, except for the report, which publishes the
\* whole plan of an experiment that was not refused.
LEMMA CompletePublishes ==
  ASSUME LedgerInv, RunnerInv', Complete
  PROVE  /\ configs' = configs /\ PublishedNow = {}
         /\ \/ PublishedNow' = {}
            \/ /\ ~Refuses(Config) /\ configs # <<>>
               /\ PublishedNow' = {[config |-> Config, simulations |-> Plan(Config)]}
<1>1. /\ Active /\ Doing \in FileNames /\ configs' = configs /\ runs' = runs
      /\ files[Doing] = [of |-> Current, whole |-> FALSE]
      /\ files' = [files EXCEPT ![Doing] = [of |-> Current, whole |-> TRUE]]
      /\ files \in [FileNames -> [of : Nat, whole : BOOLEAN]]
  BY DEF Complete, LedgerInv, RunnerInv, RunnerTypes
<1>2. /\ files'[Doing] = [of |-> Current, whole |-> TRUE]
      /\ \A f \in FileNames \ {Doing} : files'[f] = files[f]
  BY <1>1
<1>3. /\ step \in DOMAIN Steps(Config) /\ Doing = Steps(Config)[step] /\ step \in Nat \ {0}
      /\ Current \in Nat \ {0} /\ Current \in DOMAIN configs /\ Config = configs[Current]
  BY <1>1, WhatItDoes, ActiveFacts DEF LedgerInv, Config
<1>4. PublishedNow = {}
  <2>1. CASE Doing = "config"
    <3>1. \A k : ~Published(k)
      BY <1>1, <2>1 DEF Published, WholeOf
    <3> QED
      BY <3>1 DEF PublishedNow, Visible
  <2>2. CASE Doing # "config"
    BY <1>1, <2>2, OneVisible
  <2> QED
    BY <2>1, <2>2
<1>5. CASE Doing = "config"
  <2>1. PICK last : last = Len(Steps(Config))
    OBVIOUS
  <2>2. /\ last \in Nat \ {0} /\ last \in DOMAIN Steps(Config)
        /\ 1 \in DOMAIN Steps(Config) /\ Steps(Config)[1] = "config"
        /\ Steps(Config)[last] = "report"
        /\ \A i, j \in DOMAIN Steps(Config) : Steps(Config)[i] = Steps(Config)[j] => i = j
    BY <2>1, StepsInOrder
  <2>3. step = 1 /\ last # 1
    BY <1>3, <1>5, <2>2
  <2>4. last > step
    BY <2>2, <2>3
  <2>5. files[Steps(Config)[last]].of < Current
    BY <1>1, <2>2, <2>4, NamesOfFiles DEF LedgerInv, RunnerInv, Progress
  <2>6. files'["report"].of < Current
    BY <1>2, <1>5, <2>2, <2>5, NamesOfFiles
  <2>7. \A k : ~Published(k)'
    BY <1>2, <1>3, <1>5, <2>6 DEF Published, WholeOf
  <2>8. PublishedNow' = {}
    BY <2>7 DEF PublishedNow, Visible
  <2> QED
    BY <1>1, <1>4, <2>8
<1>6. CASE Doing = "report"
  <2>1. step # 1 /\ step # 2
    <3>1. Steps(Config)[1] = "config" /\ Steps(Config)[2] = "run"
      BY StepsInOrder, RunIsSecond
    <3> QED
      BY <1>3, <1>6, <3>1
  <2>2. ~Refuses(Config) /\ runs[Current] = Plan(Config)
    BY <1>1, <1>3, <2>1 DEF LedgerInv, RunsOfPlan
  <2>3. WholeOf("config", Current)
    <3>1. 1 \in DOMAIN Steps(Config) /\ Steps(Config)[1] = "config" /\ 1 < step
      BY <1>3, <2>1, StepsInOrder
    <3> QED
      BY <1>1, <3>1, NamesOfFiles DEF LedgerInv, RunnerInv, Progress
  <2>4. Published(Current)'
    <3>1. files'["config"] = [of |-> Current, whole |-> TRUE]
      BY <1>2, <1>6, <2>3, NamesOfFiles DEF WholeOf
    <3>2. Current' = Current
      BY <1>1 DEF Current
    <3> QED
      BY <1>2, <1>6, <3>1, <3>2 DEF Published, WholeOf
  <2>5. \A k : Published(k)' => k = Current
    BY <1>2, <1>6 DEF Published, WholeOf
  <2>6. Current' = Current
    BY <1>1 DEF Current
  <2>7. Visible' = {Current}
    BY <1>1, <1>3, <2>4, <2>5, <2>6 DEF Visible
  <2>8. files'["results"] = [of |-> Current, whole |-> TRUE]
    BY <1>1, <1>3, <2>4, <2>6 DEF RunnerInv, EndsTellTheMiddle, WholeOf
  <2>9. Reported' = Plan(Config)
    <3>1. /\ files'["results"] # [of |-> 0, whole |-> FALSE]
          /\ files'["results"].of = Current
      BY <1>3, <2>8
    <3> QED
      BY <1>1, <2>2, <3>1 DEF Reported, Absent
  <2>10. PublishedNow' = {[config |-> Config, simulations |-> Plan(Config)]}
    BY <1>1, <1>3, <2>7, <2>9 DEF PublishedNow
  <2>11. configs # <<>>
    BY <1>3
  <2> QED
    BY <1>1, <1>4, <2>2, <2>10, <2>11
<1>7. CASE Doing \notin {"config", "report"}
  <2>1. files'["config"] = files["config"] /\ files'["report"] = files["report"]
    BY <1>2, <1>7, NamesOfFiles
  <2> QED
    BY <1>1, <1>4, <2>1, StaysUnpublished
<1> QED
  BY <1>5, <1>6, <1>7

\* Every step of the runner is a step of the publication, or none.
LEMMA PublicationNext ==
  ASSUME LedgerInv, RunnerInv', [Next]_vars
  PROVE  \/ configs' = configs /\ PublishedNow' = PublishedNow
         \/ \E c \in Configs : /\ Accepted(c) /\ configs' = Append(configs, c)
                               /\ PublishedNow' = PublishedNow
         \/ PublishedNow' = {} /\ PublishedNow # {} /\ configs' = configs
         \/ /\ PublishedNow = {} /\ configs' = configs
            /\ ~Refuses(Config) /\ configs # <<>>
            /\ PublishedNow' = {[config |-> Config, simulations |-> Plan(Config)]}
<1>1. ASSUME NEW c \in Configs, Execute(c)
      PROVE  Accepted(c) /\ configs' = Append(configs, c) /\ PublishedNow' = PublishedNow
  <2>1. /\ configs \in Seq(Configs) /\ runs \in Seq(Seq(Simulations))
        /\ Len(runs) = Len(configs)
    BY DEF LedgerInv, RunnerInv, RunnerTypes, Ledger
  <2>2. /\ Accepted(c) /\ files' = files
        /\ configs' = Append(configs, c) /\ runs' = Append(runs, <<>>)
    BY <1>1 DEF Execute
  <2>3. /\ \A k \in DOMAIN configs : configs'[k] = configs[k] /\ runs'[k] = runs[k]
        /\ DOMAIN configs \subseteq DOMAIN configs'
        /\ DOMAIN configs' \subseteq DOMAIN configs \cup {Len(configs) + 1}
    BY <2>1, <2>2
  <2> QED
    BY <2>2, <2>3, SamePublication
<1>2. CASE Truncate
  BY <1>2, TruncateWithdraws
<1>3. CASE Complete
  BY <1>3, CompletePublishes
<1>4. CASE Simulate
  <2>1. Active /\ Doing = "run" /\ files' = files /\ configs' = configs
    BY <1>4 DEF Simulate
  <2>2. PublishedNow = {}
    BY <2>1, OneVisible
  <2> QED
    BY <2>1, <2>2, StaysUnpublished
<1>5. CASE UNCHANGED <<files, configs, runs>>
  BY <1>5, SamePublication
<1>6. CASE FinishRun \/ RefuseParameters \/ RefuseHorizon \/ Interrupt \/ Return \/ UNCHANGED vars
  BY <1>5, <1>6 DEF FinishRun, RefuseParameters, RefuseHorizon, Interrupt, Return, End, vars
<1> QED
  BY <1>1, <1>2, <1>3, <1>4, <1>6 DEF Next

\* The directory implements PublishedResults: an execution publishes at one
\* instant, when its report is closed, everything its configuration plans; the
\* next one withdraws it when it opens its own configuration, and what was
\* withdrawn or cut off never shows again (experiment_runner.py:88-124).
THEOREM DirectoryIsPublication == Spec => ResultsSpec
<1>1. Init => Results!Init
  <2> SUFFICES ASSUME Init PROVE Results!Init
    OBVIOUS
  <2>1. configs = <<>> /\ Visible = {}
    BY DEF Init, Visible
  <2> QED
    BY <2>1 DEF Results!Init
<1>2. LedgerInv /\ LedgerInv' /\ [Next]_vars
      => [Results!Next]_<<configs, PublishedNow>>
  <2> SUFFICES ASSUME LedgerInv, LedgerInv', [Next]_vars
               PROVE  [Results!Next]_<<configs, PublishedNow>>
    OBVIOUS
  <2>1. RunnerInv'
    BY DEF LedgerInv
  <2>2. CASE configs' = configs /\ PublishedNow' = PublishedNow
    BY <2>2
  <2>3. ASSUME NEW c \in Configs, Accepted(c), configs' = Append(configs, c),
               PublishedNow' = PublishedNow
        PROVE  Results!Request(c)
    BY <2>3, SameExperiments DEF Results!Request, PublishedNow
  <2>4. CASE PublishedNow' = {} /\ PublishedNow # {} /\ configs' = configs
    BY <2>4 DEF Results!Withdraw, Results!Next, PublishedNow
  <2>5. CASE /\ PublishedNow = {} /\ configs' = configs
             /\ ~Refuses(Config) /\ configs # <<>>
             /\ PublishedNow' = {[config |-> Config, simulations |-> Plan(Config)]}
    <3>1. configs \in Seq(Configs)
      BY DEF LedgerInv, RunnerInv, RunnerTypes
    <3>2. Config \in Configs /\ Config = configs[Len(configs)]
      BY <2>5, <3>1 DEF Config, Current
    <3>3. Results!Publish
      BY <2>5, <3>2, SameExperiments DEF Results!Publish, PublishedNow
    <3> QED
      BY <3>3 DEF Results!Next
  <2> QED
    BY <2>1, <2>2, <2>3, <2>4, <2>5, PublicationNext DEF Results!Next
<1> QED
  BY <1>1, <1>2, LedgerInvariant, PTL DEF Spec, ResultsSpec, Results!Spec, PublishedNow
=============================================================================
