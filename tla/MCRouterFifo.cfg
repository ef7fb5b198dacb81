\* FIFO buffer of two packets, random drops; stops when all events are handled.
SPECIFICATION Spec
CONSTANTS
  Capacity <- Two
  Discipline = "FIFO"
  FirstPacketId = 1
  BaselineDrop <- Maybe
  ServiceTimes <- ServiceLengths
  ArrivalDelays <- Delays
  MaxPackets = 4
INVARIANTS
  TypeOK
  NothingInThePast
  EventsFollowServer
  WorkConserving
  PacketInOnePlace
  CountersAgree
  ServicesDisjoint
  WaitEndsAtDeparture
  NoOvertaking
PROPERTY LossQueueSpec
CHECK_DEADLOCK FALSE
