SPECIFICATION Spec
CONSTANTS
  t1 = t1
  t2 = t2
  t3 = t3
  Threads <- ThreeThreads
  Events <- OneToFive
  IdOf <- SameId
  NoEvent = NoEvent
  MAX_QUEUED_EVENTS = 2
  UINT64_MAX = 99
SYMMETRY ThreadSymmetry
INVARIANTS
  AssertsHold
  OneAtATime
  EachEventOnce
  NoLostWakeup
  QuietMeansEmpty
PROPERTIES
  AheadOnlyWhenFull
