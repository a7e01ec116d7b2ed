SPECIFICATION Spec
CONSTANTS
  Sessions = {s1, s2, s3}
  Broadcasters = {bc}
  Closers = {main}
  NoThread = none
  WSTREAM_MAX_CLIENTS = 2
  MaxCalls = 3
SYMMETRY Symmetry
INVARIANTS
  TypeOK
  NoUseAfterFree
  OneWriter
  SlotsAccounted
