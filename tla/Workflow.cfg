SPECIFICATION FairSpec
CONSTANTS
  r1 = r1
  Runs = {r1}
  Threads = 2
  MaxGen = 2
  MaxCalls = 6
  MaxFails = 3
INVARIANT EvictedTornDown
INVARIANT EndsQuiet
INVARIANT CacheMatchesCore
PROPERTY ActivationsAnswered
CHECK_DEADLOCK FALSE
