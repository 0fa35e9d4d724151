SPECIFICATION FairSpec
CONSTANTS
  a1 = a1
  a2 = a2
  Tokens = {a1, a2}
  Loops = {"l1"}
  LoopOf <- OneLoop
  QueueSize = 2
  MaxHeartbeats = 2
INVARIANT FlushedOnUnregister
INVARIANT ProcessorRuns
PROPERTY UnregisterEnds
CHECK_DEADLOCK FALSE
