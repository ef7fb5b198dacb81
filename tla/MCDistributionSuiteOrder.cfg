\* Three cases, two suites.
SPECIFICATION Spec
CONSTANTS
  Suite <- ThreeCases
  Algorithms <- FewWays
  Reads <- ReadBy
  MaxSuites = 2
  MaxPosition = 5
INVARIANT EarlierCasesUndisturbed
CHECK_DEADLOCK FALSE
