---------------------------- MODULE MCConvergence ----------------------------
EXTENDS ConvergenceExperiment

NoLimit == {}
Never == {FALSE}
Horizons == {0, 1, 2, 16}
Unsorted == {<<2, 1, 2>>, <<16, 1, 2>>, <<2, 0, 1>>}
Ascending == {<<1, 2, 16>>}
\* Base 2.
LogTwo == [d \in Horizons |-> CASE d = 0 -> LogOfZero [] d = 1 -> 0 [] d = 2 -> 1 [] d = 16 -> 4]
SmallDeviates == {0, 1, 2}
SomeErrors == {LogOfZero, 0, 1, 5}
\* The deviates and Beyond, scaled.
Delays == {0, 2, 4, 34}
Services == {0, 1, 2, 17}
=============================================================================
