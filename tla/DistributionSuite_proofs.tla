----------------------- MODULE DistributionSuite_proofs -----------------------
(***************************************************************************)
(* Proofs about run_suite: the type invariant, and what the shared         *)
(* generator keeps from a change in one case, the results of all cases     *)
(* before it.  The reason is that each result begins where the one before  *)
(* it ended, and the first one at the start of the stream, whatever else   *)
(* has been done with the cases and the generators they keep.              *)
(***************************************************************************)
EXTENDS DistributionSuite, Scheduling_proofs, SequenceTheorems

\* Where the stream stands when case i of a suite is due, by the results so far.
Due(list, i) == IF i = 1 THEN 0 ELSE list[i - 1].to

\* Every result was sampled from where the one before it ended.
Chained(list) ==
  \A i \in DOMAIN list : list[i] = SampleFrom(list[i].algorithm, Due(list, i))

\* Finished suites are chained, and so is the one that runs, up to the position
\* of its generator.  No suite starts that could not end within the bound.
SuiteInv ==
  /\ TypeOK
  /\ Len(position) <= MaxSuites
  /\ \A s \in DOMAIN finished : Chained(finished[s])
  /\ Chained(results)
  /\ running => position[Len(position)] = Due(results, Len(results) + 1)

-----------------------------------------------------------------------------
\* A sample is told by its algorithm, and ends at a position of the stream.
LEMMA SampleType ==
  ASSUME NEW a \in Algorithms, NEW n \in 0 .. MaxPosition
  PROVE  /\ SampleFrom(a, n) \in Samples
         /\ SampleFrom(a, n).to \in Nat
         /\ SampleFrom(a, n).algorithm = a
<1>1. Reads[a][n] \in Nat /\ MaxPosition \in Nat
  BY SuiteAssumption
<1> QED
  BY <1>1 DEF SampleFrom, Samples

\* The cases are numbered from 1.
LEMMA CasesNumbered == Cases = 1 .. Len(Suite) /\ Len(Suite) \in Nat
BY SuiteAssumption DEF Cases

\* The results of a suite that is over are one for each case.
LEMMA OneForEachCase ==
  ASSUME NEW list \in Seq(Samples), Len(list) = Len(Suite)
  PROVE  list \in [Cases -> Samples]
BY CasesNumbered, LenProperties

\* A result that begins where the last one ended continues the chain.
LEMMA ChainGrows ==
  ASSUME NEW list \in Seq(Samples), Chained(list),
         NEW x \in Samples, x = SampleFrom(x.algorithm, Due(list, Len(list) + 1))
  PROVE  Chained(Append(list, x)) /\ Due(Append(list, x), Len(list) + 2) = x.to
<1> DEFINE longer == Append(list, x)
<1>1. /\ Len(list) \in Nat /\ DOMAIN list = 1 .. Len(list)
      /\ DOMAIN longer = 1 .. Len(list) + 1
      /\ longer[Len(list) + 1] = x
      /\ \A i \in 1 .. Len(list) : longer[i] = list[i]
  OBVIOUS
<1> HIDE DEF longer
<1>2. \A i \in 1 .. Len(list) + 1 : Due(longer, i) = Due(list, i)
  <2> SUFFICES ASSUME NEW i \in 1 .. Len(list) + 1, i # 1
               PROVE  longer[i - 1] = list[i - 1]
    BY DEF Due
  <2> QED
    BY <1>1
<1>3. ASSUME NEW i \in DOMAIN longer
      PROVE  longer[i] = SampleFrom(longer[i].algorithm, Due(longer, i))
  <2>1. Due(longer, i) = Due(list, i)
    BY <1>1, <1>2
  <2>2. CASE i = Len(list) + 1
    BY <1>1, <2>1, <2>2
  <2>3. CASE i # Len(list) + 1
    <3>1. i \in DOMAIN list /\ longer[i] = list[i]
      BY <1>1, <2>3
    <3> QED
      BY <2>1, <3>1 DEF Chained
  <2> QED
    BY <2>2, <2>3
<1>4. Due(longer, Len(list) + 2) = x.to
  BY <1>1 DEF Due
<1>5. Chained(longer) /\ Due(longer, Len(list) + 2) = x.to
  BY <1>3, <1>4 DEF Chained
<1> QED
  BY <1>5 DEF longer

\* Two chains whose results are sampled in the same way up to one of them are equal
\* up to there.
LEMMA ChainsAgree ==
  ASSUME NEW p \in [Cases -> Samples], NEW q \in [Cases -> Samples],
         Chained(p), Chained(q), NEW i \in Cases,
         \A j \in 1 .. i : p[j].algorithm = q[j].algorithm
  PROVE  p[i] = q[i]
<1> DEFINE T == {n \in 0 .. i : n = 0 \/ p[n] = q[n]}
<1>1. i \in Nat /\ i # 0 /\ 1 .. i \subseteq Cases
  BY CasesNumbered
<1>2. \A n \in 1 .. i : n - 1 \in T => n \in T
  <2> SUFFICES ASSUME NEW n \in 1 .. i, n - 1 \in T
               PROVE  p[n] = q[n]
    BY <1>1
  <2>1. n \in DOMAIN p /\ n \in DOMAIN q
    BY <1>1
  <2>2. /\ p[n] = SampleFrom(p[n].algorithm, Due(p, n))
        /\ q[n] = SampleFrom(q[n].algorithm, Due(q, n))
    BY <2>1 DEF Chained
  <2>3. n # 1 => p[n - 1] = q[n - 1]
    BY <1>1
  <2>4. Due(p, n) = Due(q, n)
    BY <2>3 DEF Due
  <2>5. p[n].algorithm = q[n].algorithm
    OBVIOUS
  <2> QED
    BY <2>2, <2>4, <2>5, Zenon
<1>3. 0 \in T
  BY <1>1
<1>4. i \in T
  <2> HIDE DEF T
  <2> QED
    BY <1>1, <1>2, <1>3, UpTo
<1> QED
  BY <1>1, <1>4

-----------------------------------------------------------------------------
\* The first suite has not begun, and nothing has been sampled.
LEMMA InitSuite == Init => SuiteInv
<1> SUFFICES ASSUME Init PROVE SuiteInv
  OBVIOUS
<1>1. algorithm \in [Cases -> Algorithms]
  BY SuiteAssumption, CasesNumbered DEF Init
<1>2. generator \in [Cases -> 0 .. Len(position)]
  BY DEF Init
<1>3. /\ position \in Seq(Nat) /\ results \in Seq(Samples)
      /\ finished \in Seq([Cases -> Samples])
      /\ Len(position) = 0 /\ Len(results) = 0 /\ Len(finished) = 0
      /\ DOMAIN finished = {} /\ DOMAIN results = {} /\ running = FALSE
  BY DEF Init
<1>4. Len(Suite) \in Nat /\ MaxSuites \in Nat
  BY SuiteAssumption, CasesNumbered
<1>5. Len(position) = Len(finished) + (IF running THEN 1 ELSE 0)
  BY <1>3
<1>6. TypeOK
  <2>1. Len(results) <= Len(Suite) /\ Len(finished) <= MaxSuites
    BY <1>3, <1>4
  <2>2. running \in BOOLEAN
    BY <1>3
  <2> QED
    BY <1>1, <1>2, <1>3, <1>5, <2>1, <2>2 DEF TypeOK
<1>7. Chained(results) /\ \A s \in DOMAIN finished : Chained(finished[s])
  BY <1>3 DEF Chained
<1>8. Len(position) <= MaxSuites
  BY <1>3, <1>4
<1> QED
  BY <1>3, <1>6, <1>7, <1>8 DEF SuiteInv

\* What a new result must be for the suite to stay as it is: sampled where the
\* generator stands, which moves to its end.
LEMMA RunCaseKeeps ==
  ASSUME SuiteInv, RunCase
  PROVE  SuiteInv'
<1> DEFINE i == Len(results) + 1
           g == Len(position)
           x == Sample(i, g)
<1> USE DEF TypeOK
<1>1. PICK m \in Nat, k \in Nat : m = Len(results) /\ k = Len(position)
  BY DEF SuiteInv
<1>2. /\ results \in Seq(Samples) /\ position \in Seq(Nat)
      /\ running /\ m + 1 \in Cases /\ k \in 1 .. Len(position)
      /\ position[k] \in 0 .. MaxPosition
  <2>1. running /\ m + 1 \in Cases /\ position[k] <= MaxPosition
    BY <1>1 DEF RunCase
  <2>2. k = Len(finished) + 1 /\ Len(finished) \in Nat /\ position \in Seq(Nat)
    BY <1>1, <2>1 DEF SuiteInv
  <2> QED
    BY <1>1, <2>1, <2>2, SuiteAssumption DEF SuiteInv
<1>3. PICK y : y = Sample(m + 1, k)
  OBVIOUS
<1>4. /\ generator' = [generator EXCEPT ![m + 1] = k]
      /\ results' = Append(results, y)
      /\ position' = [position EXCEPT ![k] = y.to]
      /\ algorithm' = algorithm /\ finished' = finished /\ running' = running
  BY <1>1, <1>3 DEF RunCase
<1>5. algorithm[m + 1] \in Algorithms
  BY <1>2 DEF SuiteInv
<1>6. y \in Samples /\ y.to \in Nat /\ y.algorithm = algorithm[m + 1]
  BY <1>2, <1>3, <1>5, SampleType DEF Sample
<1>7. y = SampleFrom(y.algorithm, Due(results, m + 1))
  <2>1. position[k] = Due(results, m + 1)
    BY <1>1, <1>2 DEF SuiteInv
  <2> QED
    BY <1>3, <1>6, <2>1 DEF Sample
<1>8. Chained(results') /\ Due(results', m + 2) = y.to
  <2>1. Chained(results)
    BY DEF SuiteInv
  <2> QED
    BY <1>1, <1>2, <1>4, <1>6, <1>7, <2>1, ChainGrows
<1>9. results' \in Seq(Samples) /\ Len(results') = m + 1 /\ m + 1 <= Len(Suite)
  BY <1>1, <1>2, <1>4, <1>6, CasesNumbered
<1>10. position' \in Seq(Nat) /\ Len(position') = k /\ position'[k] = y.to
  BY <1>1, <1>2, <1>4, <1>6
<1>11. generator' \in [Cases -> 0 .. k]
  BY <1>1, <1>2, <1>4 DEF SuiteInv
<1>12. TypeOK'
  BY <1>1, <1>4, <1>9, <1>10, <1>11 DEF SuiteInv
<1>13. running' => position'[Len(position')] = Due(results', Len(results') + 1)
  <2>1. Len(results') + 1 = m + 2 /\ Len(position') = k
    BY <1>1, <1>9, <1>10
  <2> QED
    BY <1>8, <1>10, <2>1
<1>14. \A s \in DOMAIN finished : Chained(finished[s])
  BY DEF SuiteInv
<1> QED
  BY <1>4, <1>8, <1>12, <1>13, <1>14 DEF SuiteInv

\* A suite starts with a new generator, at the start of the stream.
LEMMA StartSuiteKeeps ==
  ASSUME SuiteInv, StartSuite
  PROVE  SuiteInv'
<1>1. /\ position \in Seq(Nat) /\ Len(position) = Len(finished) /\ ~running
      /\ generator \in [Cases -> 0 .. Len(position)]
  BY DEF SuiteInv, TypeOK, StartSuite
<1>2. /\ position' = Append(position, 0) /\ results' = <<>> /\ running' = TRUE
      /\ algorithm' = algorithm /\ generator' = generator /\ finished' = finished
  BY DEF StartSuite
<1>3. /\ position' \in Seq(Nat) /\ Len(position') = Len(position) + 1
      /\ position'[Len(position')] = 0
  BY <1>1, <1>2
<1>4. generator' \in [Cases -> 0 .. Len(position')]
  BY <1>1, <1>2, <1>3
<1>5. results' \in Seq(Samples) /\ Len(results') = 0 /\ 0 <= Len(Suite)
  BY <1>2, CasesNumbered
<1>6. TypeOK'
  BY <1>1, <1>2, <1>3, <1>4, <1>5 DEF SuiteInv, TypeOK
<1>7. Chained(results') /\ Due(results', Len(results') + 1) = 0
  BY <1>2 DEF Chained, Due
<1>8. Len(position') <= MaxSuites
  BY <1>1, <1>3, SuiteAssumption DEF StartSuite
<1> QED
  BY <1>2, <1>3, <1>6, <1>7, <1>8 DEF SuiteInv

\* A suite that ends adds its results to those of the others.
LEMMA FinishSuiteKeeps ==
  ASSUME SuiteInv, FinishSuite
  PROVE  SuiteInv'
<1>1. /\ finished \in Seq([Cases -> Samples]) /\ Len(finished) <= MaxSuites
      /\ results \in Seq(Samples) /\ position \in Seq(Nat)
      /\ running /\ Len(results) = Len(Suite)
      /\ Len(position) = Len(finished) + 1
  BY DEF SuiteInv, TypeOK, FinishSuite
<1>2. /\ finished' = Append(finished, results) /\ running' = FALSE
      /\ algorithm' = algorithm /\ generator' = generator
      /\ position' = position /\ results' = results
  BY DEF FinishSuite
<1>3. results \in [Cases -> Samples]
  BY <1>1, OneForEachCase
<1>4. /\ finished' \in Seq([Cases -> Samples])
      /\ Len(finished') = Len(finished) + 1 /\ Len(finished) \in Nat
      /\ DOMAIN finished' = 1 .. Len(finished) + 1
      /\ DOMAIN finished = 1 .. Len(finished)
      /\ finished'[Len(finished) + 1] = results
      /\ \A s \in 1 .. Len(finished) : finished'[s] = finished[s]
  BY <1>1, <1>2, <1>3
<1>5. /\ Len(position') = Len(finished') /\ Len(position') <= MaxSuites
      /\ Len(position') = Len(finished') + (IF running' THEN 1 ELSE 0)
  BY <1>1, <1>2, <1>4 DEF SuiteInv
<1>6. TypeOK'
  <2>1. /\ algorithm' \in [Cases -> Algorithms] /\ position' \in Seq(Nat)
        /\ generator' \in [Cases -> 0 .. Len(position')]
        /\ results' \in Seq(Samples) /\ Len(results') <= Len(Suite)
    BY <1>2 DEF SuiteInv, TypeOK
  <2>2. Len(finished') <= MaxSuites /\ running' \in BOOLEAN
    BY <1>2, <1>5
  <2> QED
    BY <1>4, <1>5, <2>1, <2>2 DEF TypeOK
<1>7. ASSUME NEW s \in DOMAIN finished'
      PROVE  Chained(finished'[s])
  <2>1. CASE s = Len(finished) + 1
    BY <1>4, <2>1 DEF SuiteInv
  <2>2. CASE s # Len(finished) + 1
    BY <1>4, <2>2 DEF SuiteInv
  <2> QED
    BY <2>1, <2>2
<1>8. Chained(results')
  BY <1>2 DEF SuiteInv
<1> QED
  BY <1>2, <1>5, <1>6, <1>7, <1>8 DEF SuiteInv

\* Sampling a case elsewhere moves the generator of a suite that is over.
LEMMA SampleElsewhereKeeps ==
  ASSUME SuiteInv, NEW i \in Cases, SampleElsewhere(i)
  PROVE  SuiteInv'
<1>1. /\ ~running /\ position \in Seq(Nat) /\ algorithm[i] \in Algorithms
      /\ generator[i] \in 1 .. Len(position)
      /\ position[generator[i]] <= MaxPosition
  BY DEF SuiteInv, TypeOK, SampleElsewhere
<1>2. position[generator[i]] \in 0 .. MaxPosition
  BY <1>1, SuiteAssumption
<1>3. Sample(i, generator[i]).to \in Nat
  BY <1>1, <1>2, SampleType DEF Sample
<1>4. /\ position' = [position EXCEPT ![generator[i]] = Sample(i, generator[i]).to]
      /\ UNCHANGED <<algorithm, generator, results, finished, running>>
  BY DEF SampleElsewhere
<1>5. position' \in Seq(Nat) /\ Len(position') = Len(position)
  BY <1>1, <1>3, <1>4
<1>6. TypeOK'
  BY <1>4, <1>5 DEF SuiteInv, TypeOK
<1> QED
  BY <1>1, <1>4, <1>5, <1>6 DEF SuiteInv

\* Another version of a case touches no result and no generator.
LEMMA RegressKeeps ==
  ASSUME SuiteInv, NEW i \in Cases, Regress(i)
  PROVE  SuiteInv'
<1>1. /\ ~running /\ algorithm' \in [Cases -> Algorithms]
      /\ UNCHANGED <<generator, position, results, finished, running>>
  BY DEF SuiteInv, TypeOK, Regress
<1>2. TypeOK'
  BY <1>1 DEF SuiteInv, TypeOK
<1> QED
  BY <1>1, <1>2 DEF SuiteInv

\* Every step keeps the chains.
LEMMA NextSuite == SuiteInv /\ [Next]_vars => SuiteInv'
<1> SUFFICES ASSUME SuiteInv, [Next]_vars PROVE SuiteInv'
  OBVIOUS
<1>1. CASE StartSuite
  BY <1>1, StartSuiteKeeps
<1>2. CASE RunCase
  BY <1>2, RunCaseKeeps
<1>3. CASE FinishSuite
  BY <1>3, FinishSuiteKeeps
<1>4. ASSUME NEW i \in Cases, SampleElsewhere(i) PROVE SuiteInv'
  BY <1>4, SampleElsewhereKeeps
<1>5. ASSUME NEW i \in Cases, Regress(i) PROVE SuiteInv'
  BY <1>5, RegressKeeps
<1>6. CASE UNCHANGED vars
  BY <1>6 DEF vars, SuiteInv, TypeOK
<1> QED
  BY <1>1, <1>2, <1>3, <1>4, <1>5, <1>6 DEF Next

\* In every state of every behaviour, finished and running suites are chained.
LEMMA SuiteInvariant == Spec => []SuiteInv
BY InitSuite, NextSuite, PTL DEF Spec

\* The suite's state is well typed: a suite that is over has one result for each
\* case, and each case the generator of a suite that has started, or its own
\* (validation_runner.py:125-148).
THEOREM SuiteTypeCorrect == Spec => []TypeOK
<1>1. SuiteInv => TypeOK
  BY DEF SuiteInv
<1> QED
  BY <1>1, SuiteInvariant, PTL

\* A change in how a case samples disturbs no case before it, and suites without a
\* change between them are equal, whoever sampled the cases in the meantime with the
\* generators they kept: each result is told by the algorithms up to its case
\* (validation_runner.py:109-113, 128-132).
THEOREM EarlierCasesKeepSamples == Spec => []EarlierCasesUndisturbed
<1>1. SuiteInv => EarlierCasesUndisturbed
  <2> SUFFICES ASSUME SuiteInv, NEW s \in DOMAIN finished, NEW t \in DOMAIN finished,
                      NEW i \in Cases,
                      \A j \in 1 .. i : finished[s][j].algorithm = finished[t][j].algorithm
               PROVE  finished[s][i] = finished[t][i]
    BY DEF EarlierCasesUndisturbed
  <2>1. finished[s] \in [Cases -> Samples] /\ finished[t] \in [Cases -> Samples]
    BY SMTT(30) DEF SuiteInv, TypeOK
  <2>2. Chained(finished[s]) /\ Chained(finished[t])
    BY DEF SuiteInv
  <2> QED
    BY <2>1, <2>2, ChainsAgree
<1> QED
  BY <1>1, SuiteInvariant, PTL
=============================================================================
