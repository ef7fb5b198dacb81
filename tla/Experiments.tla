----------------------------- MODULE Experiments -----------------------------
(***************************************************************************)
(* Configurations of experiments (validation/experiment_runner.py): which  *)
(* ones ExperimentConfig accepts, which of these the called experiments    *)
(* (mm1_validation.py, convergence_experiment.py, parameter_sweep.py)      *)
(* refuse all the same, and which simulations an experiment consists of.   *)
(*                                                                         *)
(* An optional field is a set of at most one value; a list that is None    *)
(* and an empty one are treated alike by the code.                         *)
(***************************************************************************)
EXTENDS Sorting, Sequences

CONSTANTS
  Configs,           \* configurations that users write, accepted or not
  DefaultDurations   \* durations of a convergence experiment that names none

ExperimentType == {"single_run", "convergence", "parameter_sweep"}

ASSUME ExperimentsAssumption ==
  /\ DefaultDurations \in Seq(Nat \ {0}) \ {<<>>}
  /\ \A c \in Configs :
       /\ c.type \in ExperimentType
       /\ c.mu_rate \in Int /\ c.num_replications \in Int
       /\ c.lambda_rate \subseteq Int /\ c.capacity \subseteq Int
       /\ c.simulation_time \subseteq Int
       /\ c.lambda_rates \in Seq(Int) /\ c.durations \in Seq(Int)

MetricNames == {"W", "Wq", "utilization", "L", "Lq"}

In(list) == {list[i] : i \in DOMAIN list}

-----------------------------------------------------------------------------
\* The fields' own ranges.
FieldsInRange(c) ==
  /\ c.type \in ExperimentType
  /\ c.mu_rate > 0
  /\ \A optional \in {c.lambda_rate, c.capacity, c.simulation_time} :
       \A value \in optional : value > 0
  /\ c.num_replications >= 1

\* An unbounded queue must be stable.
Stable(c, rate) == c.capacity = {} => rate < c.mu_rate

\* validate_experiment_parameters: what each type needs.
SingleRunComplete(c) ==
  /\ c.lambda_rate # {}
  /\ c.simulation_time # {}
  /\ \A rate \in c.lambda_rate : Stable(c, rate)

ConvergenceComplete(c) ==
  /\ c.lambda_rate # {}
  /\ \A rate \in c.lambda_rate : Stable(c, rate)

SweepComplete(c) ==
  /\ c.lambda_rates # <<>>
  /\ c.simulation_time # {}
  /\ \A rate \in In(c.lambda_rates) : rate > 0 /\ Stable(c, rate)

Accepted(c) ==
  /\ FieldsInRange(c)
  /\ c.type = "single_run" => SingleRunComplete(c)
  /\ c.type = "convergence" => ConvergenceComplete(c)
  /\ c.type = "parameter_sweep" => SweepComplete(c)

-----------------------------------------------------------------------------
Durations(c) == IF c.durations = <<>> THEN DefaultDurations ELSE c.durations
Tracked(c) == IF c.metric_names = <<>> THEN MetricNames ELSE In(c.metric_names)

\* mm1_theoretical_metrics and the experiments that need its values: the
\* theory is that of the unbounded queue, whatever the capacity.
NoTheory(c) == \E rate \in c.lambda_rate : rate <= 0 \/ c.mu_rate <= 0 \/ rate >= c.mu_rate

\* A variant with a mistake: the capacity is forgotten in the check of the rates.
FaultySweepRefuses(c) ==
  \/ c.lambda_rates = <<>>
  \/ \E rate \in In(c.lambda_rates) : rate <= 0 \/ rate >= c.mu_rate

SweepRefuses(c) ==
  \/ c.mu_rate <= 0
  \/ \E horizon \in c.simulation_time : horizon <= 0
  \/ c.lambda_rates = <<>>
  \/ \E rate \in In(c.lambda_rates) : rate <= 0 \/ ~Stable(c, rate)
  \/ \E k \in c.capacity : k < 1

\* What the experiment checks before its first simulation.
Refuses(c) ==
  CASE c.type = "single_run" -> NoTheory(c) \/ \E horizon \in c.simulation_time : horizon <= 0
    [] c.type = "convergence" ->
         NoTheory(c) \/ c.num_replications < 1 \/ ~(Tracked(c) \subseteq MetricNames)
    [] c.type = "parameter_sweep" -> SweepRefuses(c)

\* EventLoop.run refuses a negative horizon.
HorizonRefused(simulation) == simulation.simulation_time < 0

-----------------------------------------------------------------------------
\* One call of _simulate_mm1_records.
Simulation(rate, horizon, capacity) ==
  [lambda_rate |-> rate, simulation_time |-> horizon, capacity |-> capacity]

The(optional) == CHOOSE value \in optional : TRUE

\* The capacity stays out of single runs ...
SingleRun(c) == <<Simulation(The(c.lambda_rate), The(c.simulation_time), {})>>

\* ... and of convergence experiments: all replications of the shortest
\* duration, then those of the next.
Convergence(c) ==
  LET ascending == Sorted(Durations(c))
  IN  [n \in 1 .. Len(ascending) * c.num_replications |->
         Simulation(The(c.lambda_rate), ascending[1 + ((n - 1) \div c.num_replications)], {})]

ParameterSweep(c) ==
  LET ascending == Sorted(c.lambda_rates)
  IN  [n \in 1 .. Len(ascending) |->
         Simulation(ascending[n], The(c.simulation_time), c.capacity)]

Plan(c) ==
  CASE c.type = "single_run" -> SingleRun(c)
    [] c.type = "convergence" -> Convergence(c)
    [] c.type = "parameter_sweep" -> ParameterSweep(c)
=============================================================================
