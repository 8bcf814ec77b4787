SPECIFICATION Spec
CONSTANTS
  Publishers = {p1, p2}
  Players = {w1, w2}
  Interval = {w1}
  None = None
  StaticPush = FALSE
  Overlap = {}
SYMMETRY Symmetry
INVARIANTS OneFeeder PlayerFollowsTakeover
CHECK_DEADLOCK FALSE
