\* Three durations and two replications over streams of up to four deviates.
SPECIFICATION FairConvergenceSpec
CONSTANTS
  Capacity <- NoLimit
  Discipline = "FIFO"
  FirstPacketId = 1
  BaselineDrop <- Never
  ServiceTimes <- Services
  ArrivalDelays <- Delays
  MaxPackets = 5
  SimulationTimes <- Horizons
  DurationLists <- Unsorted
  Replications = 2
  Deviates <- SmallDeviates
  ArrivalScale = 2
  ServiceScale = 1
  StreamLength = 4
  Log <- LogTwo
  Errors <- SomeErrors
INVARIANTS
  LongerRunsExtendShorter
  VerdictFollowsTrend
PROPERTY EveryPointMeasured
CHECK_DEADLOCK FALSE
