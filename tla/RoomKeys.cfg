SPECIFICATION Spec
CONSTANTS
  Clients = {c1, c2}
  Channels = {r1, r2}
  Keys = {k1, k2}
  NotFound = NotFound
SYMMETRY Symmetry
INVARIANTS RoomKeyAccepted PublishedWhereAsked
PROPERTIES KeyNeverRebound
CHECK_DEADLOCK FALSE
