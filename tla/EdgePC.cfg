SPECIFICATION EdgeSpec
CONSTANTS
  MaxLines = 2
  MaxCandidates = 1
  MaxCalls = 4
  MaxTimers = 3
INVARIANTS OfferAnswerPair CandidatesOnce GatheringCompletes BundleShares MediaOnStarted
CHECK_DEADLOCK FALSE
