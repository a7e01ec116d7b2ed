SPECIFICATION FairSpec
CONSTANTS
  Sessions = {s1, s2}
  Broadcasters = {bc}
  Closers = {main}
  NoThread = none
  WSTREAM_MAX_CLIENTS = 2
  MaxCalls = 2
PROPERTIES
  CallsReturn
  SlotReclaimed
