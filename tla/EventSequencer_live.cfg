SPECIFICATION FairSpec
CONSTANTS
  t1 = t1
  t2 = t2
  t3 = t3
  Threads <- TwoThreads
  Events <- Mixed
  IdOf <- SameId
  NoEvent = NoEvent
  MAX_QUEUED_EVENTS = 4
  UINT64_MAX = 99
PROPERTIES
  EventuallyDelivered
  ImplementsOrderedDelivery
