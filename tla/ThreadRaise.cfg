SPECIFICATION Spec
CONSTANTS
  a1 = a1
  a2 = a2
  none = none
  Activities = {a1, a2}
  NoActivity = none
  MaxRequests = 2
  MaxNesting = 2
INVARIANT RaisedInOwnActivity
PROPERTY NotRaisedInShield
CHECK_DEADLOCK FALSE
