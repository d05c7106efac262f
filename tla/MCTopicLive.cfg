CONSTANTS
  p1 = p1
  p2 = p2
  Pids = {p1, p2}
  Domains <- Grouped
  DomainOf <- TwoDomains
  Crosses <- ZeroToOne
  PubQos <- PubWithBridge
  SubQos <- SubTransientLocal
  MaxTopicLocalId = 2
  MaxPublisherNum = 2
  MaxSubscriberNum = 2
  MaxReceiveNum = 1
  MaxReleaseNum = 1
  MaxEntryId = 3
  MaxQueued = 2
  HandlesOutlive = FALSE
  DestroyWhileQueued = FALSE
SPECIFICATION FairSpec
INVARIANTS
  OnlyFromAllowedPublishers
PROPERTIES
  EventuallyReceived
CHECK_DEADLOCK FALSE
