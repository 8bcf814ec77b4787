CONSTANTS
  Peer = {p1}
  MaxStarts = 2
  MaxEvents = 3
SPECIFICATION Spec
INVARIANTS PublishersPlayed NobodyWaitsOnClosed
PROPERTIES DemoEnds
CHECK_DEADLOCK FALSE
