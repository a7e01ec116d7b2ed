SPECIFICATION Spec
CONSTANTS
  Sessions = {s1, s2}
  BroadcastThread = bc
  Main = main
  NoThread = none
  WSTREAM_MAX_CLIENTS = 2
  StallingPeers = {}
  MaxTranscriptions = 1
  MaxInjects = 1
SYMMETRY Symmetry
INVARIANTS
  EveryClientServed
