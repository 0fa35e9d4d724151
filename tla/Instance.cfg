SPECIFICATION Spec
CHECK_DEADLOCK FALSE
CONSTANTS
  MaxSignals = 2
  MaxUpdates = 1
  MaxQueries = 1
  SignalName <- MCSignalName
  Undecodable = {}
  Names <- MCNames
  Defined <- MCDefined
  Constructor <- MCConstructor
  Code <- MCCode
  Modes = {FALSE, TRUE}
  MaxAwaits <- MCMaxAwaits
  MaxJobs = 2
INVARIANTS
  SignalsHandled
  UpdatesAnswered
  NoMissedCondition
  CancelRaised
  TimersMatchWaits
  EvictionEndsTasks
