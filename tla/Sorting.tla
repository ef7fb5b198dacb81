------------------------------- MODULE Sorting -------------------------------
(***************************************************************************)
(* sorted(...) of a list of numbers, as the experiments use it: durations  *)
(* and arrival rates are run through in ascending order.                   *)
(***************************************************************************)
EXTENDS Integers, FiniteSets

\* Each value at the place that the number of those before it gives.
Sorted(list) ==
  LET before(i) == {j \in DOMAIN list : list[j] < list[i] \/ (list[j] = list[i] /\ j < i)}
  IN  [k \in DOMAIN list |->
         list[CHOOSE i \in DOMAIN list : Cardinality(before(i)) = k - 1]]
=============================================================================
