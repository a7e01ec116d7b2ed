SPECIFICATION FairSpec
CONSTANTS
  Sessions = {s1}
  BroadcastThread = bc
  Main = main
  NoThread = none
  WSTREAM_MAX_CLIENTS = 1
  StallingPeers = {s1}
  MaxTranscriptions = 2
  MaxInjects = 0
INVARIANTS
  TypeOK
PROPERTIES
  Broadcasting
  QuitEndsServer
