SPECIFICATION Spec
CONSTANTS
  Sessions = {s1}
  BroadcastThread = bc
  Main = main
  NoThread = none
  WSTREAM_MAX_CLIENTS = 1
  StallingPeers = {}
  MaxTranscriptions = 0
  MaxInjects = 0
INVARIANTS
  SessionsClosed
