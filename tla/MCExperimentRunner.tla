------------------------- MODULE MCExperimentRunner -------------------------
EXTENDS ExperimentRunner, TLC

DefaultTwo == <<2, 4>>

Blank == [mu_rate |-> 2, lambda_rate |-> {}, lambda_rates |-> <<>>, capacity |-> {},
          simulation_time |-> {}, durations |-> <<>>, num_replications |-> 1,
          metric_names |-> <<>>]

SingleRuns ==
  {[type |-> "single_run", lambda_rate |-> l, capacity |-> k, simulation_time |-> t] @@ Blank :
     l \in {{}, {1}, {2}}, k \in {{}, {1}}, t \in {{}, {4}}}

Convergences ==
  {[type |-> "convergence", lambda_rate |-> {1}] @@ d @@ Blank :
     d \in {[durations |-> <<>>],
            [durations |-> <<4, 2>>, num_replications |-> 2],
            [durations |-> <<2, -1>>],
            [metric_names |-> <<"W", "throughput">>]}}
  \cup
  {[type |-> "convergence", lambda_rate |-> {2}, capacity |-> k] @@ Blank : k \in {{}, {1}}}

Sweeps ==
  {[type |-> "parameter_sweep", lambda_rates |-> l, capacity |-> k, simulation_time |-> t] @@ Blank :
     l \in {<<>>, <<3, 1>>, <<1, 0>>}, k \in {{}, {1}}, t \in {{}, {4}}}

SomeConfigs == SingleRuns \cup Convergences \cup Sweeps
=============================================================================
