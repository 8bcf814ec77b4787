SPECIFICATION Spec
CONSTANTS
  Publishers = {p1, p2}
  Players = {w1}
  Interval = {w1}
  None = None
  StaticPush = FALSE
  Overlap = {"HandleReader", "HandleWriter", "CheckAlive", "TransStart"}
INVARIANTS PlayerNeverDropped
PROPERTIES ClosedReaderEnds
CHECK_DEADLOCK FALSE
