---------------------------- MODULE MCSimulation ----------------------------
EXTENDS SimulationStatistics

NoLimit == {}
One == {1}
Never == {FALSE}
Maybe == {TRUE, FALSE}
\* 5 is past every horizon used here.
Delays == {0, 1, 2, 5}
Services == {0, 1, 3}
SomeNegative == {-1, 0, 1, 3}
Horizon == {4}
=============================================================================
