SPECIFICATION LiveSpec
CONSTANTS
  p1 = p1
  a1 = a1
  Publishers <- MCPublishers
  Apps <- MCApps
  PublisherTTL = 3
  MaxRetryDuration = 1
  MaxDelay = 1
  MaxItems = 2
  MaxTime = 3
  MaxInbox = 2
INVARIANT
  NoSilentLoss
  ClosedDelivered
PROPERTY
  ImplementsLog
  ExitEnds
CHECK_DEADLOCK FALSE
