SPECIFICATION FairSpec
CONSTANTS
  a1 = a1
  a2 = a2
  Tokens = {a1}
  Threaded = TRUE
  CancelDetails <- MCDetails
  MaxHeartbeats = 3
  QueueSize = 2
INVARIANT LastHeartbeatFlushed
INVARIANT RecordedOnce
INVARIANT CancelledOnlyOnRequest
INVARIANT WaitedForAll
PROPERTY SyncActivitiesEnd
CHECK_DEADLOCK FALSE
