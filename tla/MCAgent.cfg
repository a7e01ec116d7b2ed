SPECIFICATION FairSpec
CONSTANTS
  Turns = {t1, t2}
  Button = auth
INVARIANTS
  TypeOK
  RequestsComplete
  OneEvent
  CallbacksKept
PROPERTY TurnEnds
