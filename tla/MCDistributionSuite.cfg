\* Three cases, two suites.
SPECIFICATION Spec
CONSTANTS
  Suite <- ThreeCases
  Algorithms <- Ways
  Reads <- ReadBy
  MaxSuites = 2
  MaxPosition = 6
INVARIANT RegressionIsLocal
CHECK_DEADLOCK FALSE
