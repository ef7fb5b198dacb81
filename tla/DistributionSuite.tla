-------------------------- MODULE DistributionSuite --------------------------
(***************************************************************************)
(* run_suite (validation/validation_runner.py): every case of a suite      *)
(* draws its samples from one generator that the suite has seeded and      *)
(* injects into the case.  Cases are objects that outlive the suite        *)
(* (DEFAULT_SUITE), keep the generator, and may be sampled elsewhere.      *)
(*                                                                         *)
(* A generator is its position in the stream that the seed gives.  What a  *)
(* case samples is told by its algorithm and the part of the stream it     *)
(* read; how much an algorithm reads may depend on what it finds there,    *)
(* as rejection sampling does.                                             *)
(***************************************************************************)
EXTENDS Integers, Sequences

CONSTANTS
  Suite,        \* the cases, in order
  Algorithms,   \* ways to sample, over the history of the program
  Reads,        \* Reads[a][from]: how far algorithm a reads from a position
  MaxSuites,    \* bound
  MaxPosition   \* bound: nothing reads on from a later position

ASSUME SuiteAssumption ==
  /\ Suite \in Seq(Algorithms)
  /\ Reads \in [Algorithms -> [0 .. MaxPosition -> Nat]]
  /\ MaxSuites \in Nat /\ MaxPosition \in Nat

VARIABLES
  algorithm,   \* algorithm[i]: how case i samples
  generator,   \* generator[i]: the suite whose generator case i has; 0: its own
  position,    \* position[g]: of the generator of suite g
  results,     \* of the suite that runs
  finished,    \* the results of all suites so far
  running

vars == <<algorithm, generator, position, results, finished, running>>

Cases == DOMAIN Suite

Init ==
  /\ algorithm = Suite
  /\ generator = [i \in Cases |-> 0]
  /\ position = <<>>
  /\ results = <<>> /\ finished = <<>>
  /\ running = FALSE

\* A new generator, with the seed of every suite.
StartSuite ==
  /\ ~running /\ Len(finished) < MaxSuites
  /\ position' = Append(position, 0)
  /\ results' = <<>>
  /\ running' = TRUE
  /\ UNCHANGED <<algorithm, generator, finished>>

\* What an algorithm samples from a position on.
SampleFrom(a, from) == [algorithm |-> a, from |-> from, to |-> from + Reads[a][from]]

\* sample(sample_size) of case i, with generator g.
Sample(i, g) == SampleFrom(algorithm[i], position[g])

\* A variant with a mistake: only a case without a generator is given one.
FaultyRunCase ==
  LET i == Len(results) + 1
      g == IF i \in Cases /\ generator[i] # 0 THEN generator[i] ELSE Len(position)
  IN  /\ running /\ i \in Cases /\ position[g] <= MaxPosition
      /\ generator' = [generator EXCEPT ![i] = g]
      /\ results' = Append(results, Sample(i, g))
      /\ position' = [position EXCEPT ![g] = Sample(i, g).to]
      /\ UNCHANGED <<algorithm, finished, running>>

\* The next case is given the generator of the suite, whichever it had, and sampled.
RunCase ==
  LET i == Len(results) + 1
      g == Len(position)
  IN  /\ running /\ i \in Cases /\ position[g] <= MaxPosition
      /\ generator' = [generator EXCEPT ![i] = g]
      /\ results' = Append(results, Sample(i, g))
      /\ position' = [position EXCEPT ![g] = Sample(i, g).to]
      /\ UNCHANGED <<algorithm, finished, running>>

FinishSuite ==
  /\ running /\ Len(results) = Len(Suite)
  /\ finished' = Append(finished, results)
  /\ running' = FALSE
  /\ UNCHANGED <<algorithm, generator, position, results>>

\* Other code samples a case; it moves a generator only if a suite gave it one.
SampleElsewhere(i) ==
  /\ ~running
  /\ generator[i] # 0
  /\ position[generator[i]] <= MaxPosition
  /\ position' = [position EXCEPT ![generator[i]] = Sample(i, generator[i]).to]
  /\ UNCHANGED <<algorithm, generator, results, finished, running>>

\* Another version of the program samples case i in another way.
Regress(i) ==
  /\ ~running
  /\ \E a \in Algorithms \ {algorithm[i]} : algorithm' = [algorithm EXCEPT ![i] = a]
  /\ UNCHANGED <<generator, position, results, finished, running>>

Next ==
  \/ StartSuite \/ RunCase \/ FinishSuite
  \/ \E i \in Cases : SampleElsewhere(i) \/ Regress(i)

Spec == Init /\ [][Next]_vars

-----------------------------------------------------------------------------
Samples == {SampleFrom(a, n) : a \in Algorithms, n \in 0 .. MaxPosition}

\* A suite that is over has one result for each case (validation_runner.py:125).
TypeOK ==
  /\ algorithm \in [Cases -> Algorithms]
  /\ position \in Seq(Nat) /\ Len(position) = Len(finished) + (IF running THEN 1 ELSE 0)
  /\ generator \in [Cases -> 0 .. Len(position)]
  /\ results \in Seq(Samples) /\ Len(results) <= Len(Suite)
  /\ finished \in Seq([Cases -> Samples]) /\ Len(finished) <= MaxSuites
  /\ running \in BOOLEAN

\* A change in how one case samples disturbs no case before it, and without a change
\* two suites are the same, also if cases have been sampled between them, with the
\* generators they still had (validation_runner.py:109-113, 124, 130-131).
EarlierCasesUndisturbed ==
  \A s, t \in DOMAIN finished : \A i \in Cases :
    (\A j \in 1 .. i : finished[s][j].algorithm = finished[t][j].algorithm)
      => finished[s][i] = finished[t][i]

\* What run_suite's documentation promises of the shared generator: "a
\* regression in one distribution's sampling does not perturb the rest"
\* (validation_runner.py:111-113).  Two suites should give a case the same
\* samples if it samples in the same way in both.
RegressionIsLocal ==
  \A s, t \in DOMAIN finished : \A i \in Cases :
    finished[s][i].algorithm = finished[t][i].algorithm => finished[s][i] = finished[t][i]
=============================================================================
