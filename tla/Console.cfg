CONSTANTS
  MaxViews = 3
  MaxRequests = 4
SPECIFICATION Spec
INVARIANTS OldCallsDisabled LoopAlive
CHECK_DEADLOCK FALSE
