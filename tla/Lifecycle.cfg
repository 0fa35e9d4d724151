SPECIFICATION FairSpec
CONSTANTS
  Workers = {"activity", "workflow", "nexus"}
  Callers = {"c1"}
  HasFatalHandler = TRUE
  MaxCancels = 2
INVARIANT CompleteMeansStopped
INVARIANT ContextNeverHidesError
INVARIANT EarlyFailureRaised
PROPERTY ShutdownEnds
CHECK_DEADLOCK FALSE
