SPECIFICATION Spec
CONSTANTS
  h1 = h1
  h2 = h2
  Handles = {h1, h2}
  Workflows <- MCWorkflows
  MaxSeq = 3
  MaxCancels = 2
INVARIANT CancelRequestWaits
CHECK_DEADLOCK FALSE
