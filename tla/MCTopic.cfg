CONSTANTS
  p1 = p1
  p2 = p2
  Pids = {p1, p2}
  Domains <- Single
  DomainOf <- OneDomain
  Crosses <- NoCrossing
  PubQos <- PubDepth1
  SubQos <- SubTakeOrIgnoreLocal
  MaxTopicLocalId = 3
  MaxPublisherNum = 2
  MaxSubscriberNum = 2
  MaxReceiveNum = 1
  MaxReleaseNum = 1
  MaxEntryId = 3
  MaxQueued = 2
  HandlesOutlive = FALSE
  DestroyWhileQueued = FALSE
SPECIFICATION Spec
SYMMETRY Symmetry
INVARIANTS
  KernelConsistent
  HeldIsReferenced
  NoFatalExit
  NoLostWakeup
PROPERTIES
  KeepsHistory
  DeliveredOnceWithoutLoss
  ImplementsLifetime
CHECK_DEADLOCK FALSE
