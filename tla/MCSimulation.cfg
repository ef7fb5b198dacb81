\* A run up to its horizon, with a buffer of one packet and random drops.
SPECIFICATION FairSimSpec
CONSTANTS
  Capacity <- One
  Discipline = "FIFO"
  FirstPacketId = 1
  BaselineDrop <- Maybe
  ServiceTimes <- SomeNegative
  ArrivalDelays <- Delays
  MaxPackets = 4
  SimulationTimes <- Horizon
INVARIANTS
  RecordsMatchPackets
  CutAtHorizon
  StatisticsComputable
  TotalsAgree
  QueueReconstructed
  AreaIsTotalWaiting
  BusyTimeExact
  LatenciesExact
PROPERTIES
  ImplementsRouter
  SimulationEnds
CHECK_DEADLOCK FALSE
