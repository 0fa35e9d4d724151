SPECIFICATION FairSpec
CONSTANTS
  t1 = t1
  t2 = t2
  Tokens = {t1, t2}
  MaxCancels = 2
INVARIANT CompletedOnce
PROPERTY TasksAnswered
CHECK_DEADLOCK FALSE
