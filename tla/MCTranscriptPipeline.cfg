SPECIFICATION FairSpec
CONSTANTS
  FlushThreshold = 2
  MaxFaults = 2
  MaxTranscriptions = 3
INVARIANTS
  TypeOK
  ExitComplete
  SleepersNotified
  NothingDropped
PROPERTIES
  LogRefined
  LoopRefined
  Delivered
  ShutdownEnds
