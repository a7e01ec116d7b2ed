SPECIFICATION FairSpec
CONSTANTS
  Models = {base}
  VADs = {v1}
  Continuous = {k1}
  maxSamples = 4
  Sample <- MCSample
  Utterances = {1, 3, 5}
  REQUIRED_SAMPLES = 3
  keepLen = 2
  stopSamples = 3
  MaxQueued = 6
  Frames = {1}
  minSamples = 2
  overlapSamples = 1
  MaxHeld = 2
INVARIANTS
  TypeOK
  ContextLive
  CaptureStops
  LoadAnswered
PROPERTIES
  QueueRefined
  AudioHeard
CHECK_DEADLOCK FALSE
