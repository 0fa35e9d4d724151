SPECIFICATION Spec
CONSTANTS
  r1 = r1
  r2 = r2
  r3 = r3
  t1 = t1
  t2 = t2
  None = None
  Runs = {r1, r2, r3}
  SandboxedRuns = {r1, r2}
  Threads = {t1, t2}
INVARIANT SandboxInterruptsOwn
INVARIANT IdleUnmarked
PROPERTY HitsTheDeadlocked
CHECK_DEADLOCK FALSE
