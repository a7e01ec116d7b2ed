SPECIFICATION FairSpec
CONSTANTS
  MAX_CONTEXTS = 2
  MIN_AUDIO_SAMPLES = 3
  WINDOW_SAMPLES = 4
  MaxRecorded = 7
  Recordings = {1, 3}
  Vocabulary = {"a", "b", "c", "d"}
  Speeches <- MCSpeeches
INVARIANTS
  TypeOK
  ContextsOwned
  TranscriptIsSpeech
PROPERTIES
  WindowsAdvance
  AudioTaken
  InitReturns
