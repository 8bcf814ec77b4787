SPECIFICATION Spec
CONSTANTS
  MaxQueueNum = 6
  HighWater = 3
  DropRounds = 2
  VideoMark = 4
  AudioMark = 5
  Input = {"audio", "key", "inter", "metadata"}
  MaxPackets = 4
  Closers = {"alive", "inter"}
INVARIANTS QueueBelowMark KeptNotLost NoDuplicate CloseCompletes
PROPERTIES WriteReturns
CHECK_DEADLOCK FALSE
