-------------------------- MODULE MCEventScheduler --------------------------
EXTENDS EventScheduler

CONSTANTS a, b, c, d, e

FiveObjects == {a, b, c, d, e}
ThreeObjects == {a, b, c}
TwoTimes == {0, 1}
OneTime == {0}

Symmetry == Permutations(Objects)
=============================================================================
