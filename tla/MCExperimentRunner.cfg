\* Three executions in one directory, each stopped anywhere or not at all.
SPECIFICATION Spec
CONSTANTS
  Configs <- SomeConfigs
  DefaultDurations <- DefaultTwo
  MaxExecutions = 3
INVARIANTS
  TypeOK
  EndsTellTheMiddle
  RefusalsExplained
PROPERTY ResultsSpec
CHECK_DEADLOCK FALSE
