------------------------- MODULE MCDistributionSuite -------------------------
EXTENDS DistributionSuite

\* Two ways that read one value, one that reads two, one that may reject.
ThreeCases == <<"plain", "rejecting", "plain">>
Ways == {"plain", "other", "double", "rejecting"}
FewWays == {"plain", "double", "rejecting"}
ReadBy == [a \in Algorithms |-> [n \in 0 .. MaxPosition |->
             CASE a \in {"plain", "other"} -> 1
               [] a = "double" -> 2
               [] a = "rejecting" -> 1 + (n % 2)]]
=============================================================================
