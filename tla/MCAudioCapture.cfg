SPECIFICATION FairSpec
CONSTANTS
  Capacity = 5
  n_samples_step = 3
  n_samples_keep = 2
  n_samples_len = 5
  n_samples_30s = 15
  Chunks = {1, 2, 6}
  MaxSamples = 14
INVARIANTS
  TypeOK
  RingHoldsNewest
  WindowShape
  KeepWithinWindow
PROPERTIES
  StepReached
