\* One execution; the capacity of the configuration against the simulations.
SPECIFICATION Spec
CONSTANTS
  Configs <- SomeConfigs
  DefaultDurations <- DefaultTwo
  MaxExecutions = 1
INVARIANT CapacityIsSimulated
CHECK_DEADLOCK FALSE
