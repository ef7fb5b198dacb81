\* The slope of a trajectory in which an error vanishes.
SPECIFICATION ConvergenceSpec
CONSTANTS
  Capacity <- NoLimit
  Discipline = "FIFO"
  FirstPacketId = 1
  BaselineDrop <- Never
  ServiceTimes <- Services
  ArrivalDelays <- Delays
  MaxPackets = 5
  SimulationTimes <- Horizons
  DurationLists <- Ascending
  Replications = 1
  Deviates <- SmallDeviates
  ArrivalScale = 2
  ServiceScale = 1
  StreamLength = 1
  Log <- LogTwo
  Errors <- SomeErrors
INVARIANT SlopeZeroIfAnyErrorVanishes
CHECK_DEADLOCK FALSE
