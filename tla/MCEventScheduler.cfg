\* Fresh objects, or objects that are no longer pending, are added.
SPECIFICATION Spec
CONSTANTS
  a = a
  b = b
  c = c
  d = d
  e = e
  Objects <- FiveObjects
  Times <- TwoTimes
  ReaddPending = FALSE
  MaxSequence = 6
SYMMETRY Symmetry
INVARIANT TypeOK
PROPERTY StableQueueSpec
