SPECIFICATION Spec
CONSTANTS
  Content = {c1, c2}
  Default = c1
  Ids = {1, 2}
  MaxEntries = 3
  MaxTime = 7
  BufferTimes = {2, 6, 11, 12, 13, 30, 31}
  Urls = {u1, u2}
  MaxClicks = 3
  Ips = {"1.2.3.4"}
  FileBase = 4
  RateBase = 5
  Streams = {{a1, v1}, {a2}}
  InternalIds = {1, 2, 3}
  MaxSenders = 3
  RemoteStreams = {rs1, rs2}
  RemoteTracks = {ra, rv, rw}
  Handlers = {h1}
  MaxPolys = 3
  MaxTransceivers = 3
  MaxCreates = 3
INVARIANTS EditorRestores FlashAccounts PagesRelease LocalMediaKept RemoteAnnounced AddressesAsAsked SdpKept HelpersKept
CHECK_DEADLOCK FALSE
