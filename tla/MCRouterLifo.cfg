\* LIFO buffer; a service-time distribution that may be negative; fairness.
SPECIFICATION FairSpec
CONSTANTS
  Capacity <- Two
  Discipline = "LIFO"
  FirstPacketId = 1
  BaselineDrop <- Never
  ServiceTimes <- SomeNegative
  ArrivalDelays <- ShortDelays
  MaxPackets = 5
INVARIANT NeverRuntimeError
PROPERTIES
  NewestFirst
  EveryPacketDeparts
CHECK_DEADLOCK FALSE
