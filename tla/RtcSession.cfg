CONSTANTS
  MaxSessions = 3
  Kinds = {"publish", "play", "whip", "whep"}
SPECIFICATION SessionSpec
INVARIANTS DisplayFollows OfferCarriesPreview
PROPERTIES ImplementsOneSession Settles
CHECK_DEADLOCK FALSE
