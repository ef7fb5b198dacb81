------------------------------- MODULE MCRouter -------------------------------
EXTENDS Router

NoLimit == {}
One == {1}
Two == {2}
Never == {FALSE}
Maybe == {TRUE, FALSE}
ServiceLengths == {0, 1, 2}
ShortServices == {0, 1}
SomeNegative == {-1, 0, 1}
Delays == {0, 1, 2}
ShortDelays == {0, 1}
=============================================================================
