\* Every use of the loop over up to two runs, events in the past included.
SPECIFICATION FairSpec
CONSTANTS
  hooked = hooked
  plain = plain
  Handlers <- TwoHandlers
  Hooked <- HookedHandlers
  Delays <- PastAndFuture
  EventCaps <- Caps
  Times <- Horizon
  MaxSequence = 4
  MaxRuns = 2
INVARIANTS
  TypeOK
  ChronologicalDispatch
  NothingOvertaken
  
  HooksPaired
PROPERTIES
  RunEnds
  HorizonReached
