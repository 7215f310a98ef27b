\* Threads, interrupt and early TDMA PINGs.
CONSTANTS
  Threshold = 3
  RecoveryThreshold = 1
  Interval = 2
  ErrorInterval = 3
  BackoffAt = {2}
  SyncTimeout = 4
  TimeoutDelay = 1
  Flags = {"tdma"}
SPECIFICATION FairSpec
INVARIANT CountedOnce
PROPERTY ErrorRaised
