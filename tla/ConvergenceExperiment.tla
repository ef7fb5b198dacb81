------------------------ MODULE ConvergenceExperiment ------------------------
(***************************************************************************)
(* run_convergence_experiment (validation/convergence_experiment.py): for  *)
(* every duration, in ascending order, and every replication, one          *)
(* simulation with the seed of the replication.  A replication therefore   *)
(* has the same seed at every duration, and its simulations read the same  *)
(* stream of random samples, each as far as it gets.                       *)
(*                                                                         *)
(* Each simulation is one run of Simulation.tla, with delays and service   *)
(* times read from the stream.  Both are exponential and scale the same    *)
(* standard deviates; the drop decision has probability zero and takes     *)
(* nothing from the stream.  A mean relative error is any number: what     *)
(* matters here is which simulation it is taken from.                      *)
(***************************************************************************)
EXTENDS Simulation, Sorting, ConvergenceCriterion

CONSTANTS
  DurationLists,   \* sequences of durations that a caller may give
  Replications,    \* num_replications
  Deviates,        \* standard exponential deviates
  ArrivalScale,    \* 1 / lambda_rate
  ServiceScale,    \* 1 / mu_rate
  StreamLength,    \* bound: deviates of a stream; what follows is Beyond
  Log,             \* Log[d]: the logarithm of duration d
  Errors           \* logarithms of errors

\* A deviate past the bound: the arrival it delays is past every horizon.
Beyond == 1 + CHOOSE t \in SimulationTimes : \A u \in SimulationTimes : u <= t

ASSUME ConvergenceAssumption ==
  /\ \E t \in SimulationTimes : \A u \in SimulationTimes : u <= t
  /\ DurationLists \subseteq Seq(SimulationTimes) \ {<<>>}
  /\ Replications \in Nat \ {0}
  /\ Deviates \subseteq Nat
  /\ \A x \in Deviates \cup {Beyond} :
       x * ArrivalScale \in ArrivalDelays /\ x * ServiceScale \in ServiceTimes
  /\ ArrivalScale \in Nat /\ ServiceScale \in Nat
  /\ ServiceScale < ArrivalScale          \* lambda_rate < mu_rate
  /\ StreamLength \in Nat
  /\ Log \in [SimulationTimes -> Int]
  /\ \A t, u \in SimulationTimes : t < u => Log[t] < Log[u]
  /\ \A t \in SimulationTimes : Log[t] = LogOfZero <=> t = 0
  /\ Errors \subseteq Int /\ \A e \in Errors : e >= LogOfZero
  /\ MaxPackets > StreamLength
  /\ Discipline = "FIFO" /\ BaselineDrop = {FALSE} /\ Capacity = {}

VARIABLES
  durations,   \* sorted
  stream,      \* stream[k]: the deviates of replication k, as far as any run has read
  position,    \* how many the current simulation has read
  collected,   \* the records of the finished simulations, in order
  trajectory   \* of one metric: its error at each duration

convergenceVars == <<simVars, durations, stream, position, collected, trajectory>>

Total == Len(durations) * Replications
DurationOf(n) == durations[1 + ((n - 1) \div Replications)]
ReplicationOf(n) == 1 + ((n - 1) % Replications)
Replication == ReplicationOf(Len(collected) + 1)

\* A variant with a mistake: the durations are left in the order given.
UnsortedInit ==
  /\ SimInit
  /\ durations \in DurationLists
  /\ simulation_time = durations[1]
  /\ stream = [k \in 1 .. Replications |-> <<>>]
  /\ position = 0
  /\ collected = <<>>
  /\ trajectory = <<>>

ConvergenceInit ==
  /\ SimInit
  /\ \E list \in DurationLists : durations = Sorted(list)
  /\ simulation_time = durations[1]
  /\ stream = [k \in 1 .. Replications |-> <<>>]
  /\ position = 0
  /\ collected = <<>>
  /\ trajectory = <<>>

-----------------------------------------------------------------------------
\* The generator of the current simulation yields x: what the stream holds if
\* another simulation has been here before, a new deviate otherwise.
Draw(x) ==
  LET s == stream[Replication]
  IN  /\ position' = position + 1
      /\ \/ position < Len(s) /\ x = s[position + 1] /\ UNCHANGED stream
         \/ /\ position = Len(s) /\ Len(s) < StreamLength
            /\ x \in Deviates
            /\ stream' = [stream EXCEPT ![Replication] = Append(s, x)]
         \/ position >= StreamLength /\ x = Beyond /\ UNCHANGED stream

DrawsNothing == UNCHANGED <<stream, position>>

\* The steps of the simulation that is running.
SimulationStep ==
  /\ \/ \E x \in Deviates \cup {Beyond} :
          /\ Draw(x)
          /\ \/ OnStart(x * ArrivalScale)
             \/ \E e \in scheduler.queue : \/ RecordArrival(e, x * ArrivalScale)
                                           \/ RecordServiceStart(e, x * ServiceScale)
     \/ DrawsNothing /\ \E e \in scheduler.queue : RecordDeparture(e)
     \/ DrawsNothing /\ LeaveLoop
  /\ UNCHANGED <<durations, collected, trajectory>>

\* A new clock, scheduler, queue, server, router and collector.
NewSystem ==
  /\ now' = 0
  /\ scheduler' = EmptyScheduler
  /\ buffer' = <<>> /\ total_enqueued' = 0 /\ total_dropped' = 0
  /\ server' = IdleServer
  /\ service_start_pending' = FALSE
  /\ next_packet_id' = FirstPacketId
  /\ packets_dropped' = 0
  /\ packet' = [p \in {} |-> Packet(0)]
  /\ raised' = {}
  /\ records' = <<>>

Finished == [duration |-> simulation_time, replication |-> Replication, records |-> records]

\* Variants with a mistake: one generator serves all durations ...
FaultyNextSimulation ==
  /\ loop = "done" /\ Len(collected) + 1 < Total
  /\ collected' = Append(collected, Finished)
  /\ NewSystem
  /\ simulation_time' = DurationOf(Len(collected) + 2)
  /\ loop' = "starting"
  /\ UNCHANGED <<durations, stream, position, trajectory>>

\* The records are kept and the next simulation begins, with its own generator.
NextSimulation ==
  /\ loop = "done" /\ Len(collected) + 1 < Total
  /\ collected' = Append(collected, Finished)
  /\ NewSystem
  /\ simulation_time' = DurationOf(Len(collected) + 2)
  /\ position' = 0
  /\ loop' = "starting"
  /\ UNCHANGED <<durations, stream, trajectory>>

\* ... or the last replication of the last duration is not run.
FaultyFinishExperiment ==
  /\ loop = "done" /\ Len(collected) + 2 = Total
  /\ collected' = Append(collected, Finished)
  /\ NewSystem
  /\ loop' = "reported"
  /\ UNCHANGED <<simulation_time, position, durations, stream, trajectory>>

FinishExperiment ==
  /\ loop = "done" /\ Len(collected) + 1 = Total
  /\ collected' = Append(collected, Finished)
  /\ NewSystem
  /\ loop' = "reported"
  /\ UNCHANGED <<simulation_time, position, durations, stream, trajectory>>

\* The errors of a metric at the durations; records and generators are gone.  A
\* duration that is listed twice has the same simulations and the same error.
Assess ==
  /\ loop = "reported"
  /\ \E error \in [{durations[i] : i \in DOMAIN durations} -> Errors] :
       trajectory' = [i \in DOMAIN durations |->
                        [duration |-> Log[durations[i]], error |-> error[durations[i]]]]
  /\ collected' = <<>>
  /\ stream' = [k \in 1 .. Replications |-> <<>>]
  /\ position' = 0
  /\ loop' = "assessed"
  /\ UNCHANGED <<vars, simulation_time, records, durations>>

ConvergenceNext == SimulationStep \/ NextSimulation \/ FinishExperiment \/ Assess

ConvergenceSpec == ConvergenceInit /\ [][ConvergenceNext]_convergenceVars

\* One thread that is never blocked.
FairConvergenceSpec == ConvergenceSpec /\ WF_convergenceVars(ConvergenceNext)

-----------------------------------------------------------------------------
\* A shorter simulation of a replication is the beginning of its longer ones,
\* record by record up to its own horizon: durations differ in where they stop
\* and in nothing else.  Ties at the horizon, packets in service when the
\* shorter run stops, and the delay that is drawn and then not used must not
\* shift the stream (convergence_experiment.py:165, mm1_validation.py:223-225).
LongerRunsExtendShorter ==
  \A i, j \in DOMAIN collected :
    (i <= j /\ ReplicationOf(i) = ReplicationOf(j)) =>
      LET short == collected[i].records
          long == collected[j].records
      IN  /\ Len(short) <= Len(long)
          /\ short = SubSeq(long, 1, Len(short))
          /\ \A k \in DOMAIN long :
               long[k].timestamp <= collected[i].duration <=> k <= Len(short)

\* The verdict follows an unmistakable trend of the errors.  Errors that fall at
\* each step from the shortest duration to the longest are converged, however
\* unevenly they fall, however the durations are spaced and in whatever order they
\* were given, also if the last ones vanish, once two are left to fit a line to;
\* but if the shortest duration is zero the same errors are never converged,
\* for no slope can be fitted.  Errors that never fall are not converged
\* (convergence_experiment.py:209-213, 241, 245).
VerdictFollowsTrend ==
  loop = "assessed" =>
    /\ Falling(trajectory) /\ Cardinality(Transformable(trajectory)) >= 2 =>
         (CheckConvergence(trajectory) <=> durations[1] > 0)
    /\ Rising(trajectory) => ~CheckConvergence(trajectory)

\* One simulation is kept for each duration and replication, and no second one.
Measured ==
  /\ Len(collected) = Total
  /\ {<<c.duration, c.replication>> : c \in {collected[i] : i \in DOMAIN collected}}
       = {durations[i] : i \in DOMAIN durations} \X (1 .. Replications)

\* The experiment ends, with all its points measured (convergence_experiment.py:153-172).
EveryPointMeasured == <>(loop = "reported" /\ Measured)

-----------------------------------------------------------------------------
\* What the docstring says, and the code does not do.

\* "Returns 0.0 if any error is zero or negative (degenerate case)"
\* (convergence_experiment.py:235).
SlopeZeroIfAnyErrorVanishes ==
  (\E i \in DOMAIN trajectory : trajectory[i].error = LogOfZero) =>
    LogLogSlope(trajectory) = {0}
=============================================================================
