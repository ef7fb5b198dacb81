--------------------------- MODULE ExperimentRunner ---------------------------
(***************************************************************************)
(* ExperimentRunner.execute (validation/experiment_runner.py) and the      *)
(* files of one output directory, over several executions one after        *)
(* another: the configuration is written first, then the simulations run,  *)
(* then charts, results and report are written over those of the           *)
(* execution before.  An exception, a full disk or the end of the process  *)
(* may stop an execution anywhere, also inside a write.                    *)
(***************************************************************************)
EXTENDS Experiments

CONSTANT MaxExecutions   \* bound

ASSUME RunnerAssumption == MaxExecutions \in Nat

VARIABLES
  files,      \* name |-> [of: number of an execution, whole]; of = 0 if absent
  configs,    \* configs[k]: the configuration of execution k
  runs,       \* runs[k]: the simulations that execution k has run
  step,       \* index in Steps of the latest execution; 0 while none is active
  outcomes    \* outcomes[k]: "returned", "refused" or "interrupted"

vars == <<files, configs, runs, step, outcomes>>

ChartNames == {"arrival_vs_delay", "arrival_vs_drop_prob", "arrival_vs_utilization"}
FileNames == {"config", "results", "report"} \cup ChartNames

Absent == [of |-> 0, whole |-> FALSE]

Charts(c) == IF c.type = "parameter_sweep" THEN ChartNames ELSE {}

\* Definitions named Faulty... are variants of the definition that follows them
\* with a mistake a change to the code could make; no specification uses them.

\* The charts are drawn at the end ...
FaultySteps(c) ==
  IF c.type = "parameter_sweep"
  THEN <<"config", "run", "results", "report",
         "arrival_vs_delay", "arrival_vs_drop_prob", "arrival_vs_utilization">>
  ELSE <<"config", "run", "results", "report">>

\* ... or the report is written before the results.
FaultyReportFirst(c) ==
  IF c.type = "parameter_sweep"
  THEN <<"config", "run", "arrival_vs_delay", "arrival_vs_drop_prob",
         "arrival_vs_utilization", "report", "results">>
  ELSE <<"config", "run", "report", "results">>

\* execute, in order.
Steps(c) ==
  IF c.type = "parameter_sweep"
  THEN <<"config", "run", "arrival_vs_delay", "arrival_vs_drop_prob",
         "arrival_vs_utilization", "results", "report">>
  ELSE <<"config", "run", "results", "report">>

Current == Len(configs)
Config == configs[Current]
Active == step # 0
Doing == IF step \in DOMAIN Steps(Config) THEN Steps(Config)[step] ELSE "return"

Init ==
  /\ files = [f \in FileNames |-> Absent]
  /\ configs = <<>> /\ runs = <<>> /\ outcomes = <<>>
  /\ step = 0

-----------------------------------------------------------------------------
\* A configuration that is accepted is executed; one that is not changes nothing.
Execute(c) ==
  /\ ~Active
  /\ Len(configs) < MaxExecutions
  /\ Accepted(c)
  /\ configs' = Append(configs, c)
  /\ runs' = Append(runs, <<>>)
  /\ step' = 1
  /\ UNCHANGED <<files, outcomes>>

\* open(..., "w") and savefig: what was in the file is gone.
Truncate ==
  /\ Active /\ Doing \in FileNames
  /\ files[Doing] # [of |-> Current, whole |-> FALSE]
  /\ files' = [files EXCEPT ![Doing] = [of |-> Current, whole |-> FALSE]]
  /\ UNCHANGED <<configs, runs, step, outcomes>>

\* The file is complete and closed.
Complete ==
  /\ Active /\ Doing \in FileNames
  /\ files[Doing] = [of |-> Current, whole |-> FALSE]
  /\ files' = [files EXCEPT ![Doing] = [of |-> Current, whole |-> TRUE]]
  /\ step' = step + 1
  /\ UNCHANGED <<configs, runs, outcomes>>

Done == Len(runs[Current])
Planned == Plan(Config)

\* An exception of the experiment leaves execute ...
End(outcome) ==
  /\ outcomes' = Append(outcomes, outcome)
  /\ step' = 0
  /\ UNCHANGED <<files, configs, runs>>

\* ... before the first simulation, when the parameters are checked ...
RefuseParameters ==
  /\ Active /\ Doing = "run"
  /\ Done = 0
  /\ Refuses(Config)
  /\ End("refused")

\* ... or when the loop of the next simulation is started.
RefuseHorizon ==
  /\ Active /\ Doing = "run"
  /\ ~Refuses(Config)
  /\ Done < Len(Planned)
  /\ HorizonRefused(Planned[Done + 1])
  /\ End("refused")

Simulate ==
  /\ Active /\ Doing = "run"
  /\ ~Refuses(Config)
  /\ Done < Len(Planned)
  /\ ~HorizonRefused(Planned[Done + 1])
  /\ runs' = [runs EXCEPT ![Current] = Append(@, Planned[Done + 1])]
  /\ UNCHANGED <<files, configs, step, outcomes>>

FinishRun ==
  /\ Active /\ Doing = "run"
  /\ ~Refuses(Config)
  /\ Done = Len(Planned)
  /\ step' = step + 1
  /\ UNCHANGED <<files, configs, runs, outcomes>>

\* A failed write, an interrupt of the user, the end of the process.
Interrupt == Active /\ End("interrupted")

\* Faulty: the runner does not notice that it is done.
FaultyReturn ==
  /\ Active /\ Doing = "return"
  /\ outcomes' = Append(outcomes, "returned")
  /\ UNCHANGED <<files, configs, runs, step>>

Return == Active /\ Doing = "return" /\ End("returned")

Next ==
  \/ \E c \in Configs : Execute(c)
  \/ Truncate \/ Complete
  \/ RefuseParameters \/ RefuseHorizon \/ Simulate \/ FinishRun
  \/ Interrupt
  \/ Return

Spec == Init /\ [][Next]_vars

-----------------------------------------------------------------------------
TypeOK ==
  /\ files \in [FileNames -> [of : 0 .. Len(configs), whole : BOOLEAN]]
  /\ configs \in Seq(Configs)
  /\ runs \in Seq(Seq([lambda_rate : Int, simulation_time : Int, capacity : SUBSET Int]))
  /\ Len(runs) = Len(configs)
  /\ outcomes \in Seq({"returned", "refused", "interrupted"})
  /\ Len(configs) = Len(outcomes) + IF Active THEN 1 ELSE 0
  /\ Active => step \in 1 .. Len(Steps(Config)) + 1

WholeOf(f, k) == files[f] = [of |-> k, whole |-> TRUE]
Published(k) == WholeOf("config", k) /\ WholeOf("report", k)

\* A reader who finds a whole configuration and a whole report of one execution
\* finds its results and its charts between them, wherever this execution, or
\* another before or after it, was stopped.  A whole configuration alone tells
\* nothing: it may stand beside the results of an older execution
\* (experiment_runner.py:101-122).
EndsTellTheMiddle ==
  \A k \in DOMAIN configs :
    Published(k) => \A f \in {"results"} \cup Charts(configs[k]) : WholeOf(f, k)

\* Why an accepted configuration is refused after all: a rate that needs the
\* capacity to be stable, in an experiment that compares with the theory of the
\* unbounded queue; an unknown metric; a negative duration.  Never a sweep.  Of
\* a refused execution only the configuration is in the directory
\* (experiment_runner.py:49-80, 107-113).
RefusalsExplained ==
  \A k \in DOMAIN outcomes :
    outcomes[k] = "refused" =>
      LET c == configs[k]
      IN  /\ c.type # "parameter_sweep"
          /\ \/ c.capacity # {} /\ \E rate \in c.lambda_rate : rate >= c.mu_rate
             \/ c.type = "convergence" /\ ~(In(c.metric_names) \subseteq MetricNames)
             \/ c.type = "convergence" /\ \E horizon \in In(c.durations) : horizon < 0
          /\ runs[k] = <<>>
          /\ \A f \in FileNames \ {"config"} : files[f].of # k

\* What the documentation of the configuration says of the capacity: it is that
\* of the queue, "None for infinite".  Results and report of an execution name
\* it, so the simulations behind them should have it (experiment_runner.py:41).
CapacityIsSimulated ==
  \A k \in DOMAIN configs :
    WholeOf("results", k) =>
      \A i \in DOMAIN runs[k] : runs[k][i].capacity = configs[k].capacity

\* Refinement: the directory publishes complete results of the latest execution
\* or nothing, with the simulations that results.json was made from.
Visible == {k \in DOMAIN configs : Published(k)}
Reported == IF files["results"] = Absent THEN <<>> ELSE runs[files["results"].of]

Results == INSTANCE PublishedResults WITH
  requested <- configs,
  published <- {[config |-> configs[k], simulations |-> Reported] : k \in Visible}

ResultsSpec == Results!Spec
=============================================================================
