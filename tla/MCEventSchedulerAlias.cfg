\* A caller adds an Event object that the heap still holds.
SPECIFICATION Spec
CONSTANTS
  a = a
  b = b
  c = c
  d = d
  e = e
  Objects <- ThreeObjects
  Times <- OneTime
  ReaddPending = TRUE
  MaxSequence = 4
PROPERTY StableQueueSpec
