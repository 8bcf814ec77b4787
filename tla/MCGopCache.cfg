SPECIFICATION Spec
CONSTANTS
  Count = 2
  MaxGOPCap = 2
  MaxPackets = 6
  Input = {"metadata", "vseq", "key", "inter", "shortVideo", "aseq", "audio", "emptyAudio"}
INVARIANTS NoCrash ReplaysLastGroups SpecialIntact
CHECK_DEADLOCK FALSE
