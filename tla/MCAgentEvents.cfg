SPECIFICATION Spec
CONSTANTS
  Turns = {t1, t2}
  Button = auth
INVARIANT EventsComplete
