SPECIFICATION Spec
CONSTANTS
  Count = 3
  MaxGOPCap = 2
  MaxPackets = 6
  Input = {"metadata", "vseq", "key", "inter", "shortVideo", "aseq", "audio", "emptyAudio"}
INVARIANTS NoCrash
CHECK_DEADLOCK FALSE
