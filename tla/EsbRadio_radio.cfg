\* One packet fits the radio, the second failure to queue forces recovery.
CONSTANTS
  None = None
  Found = Found
  Given = Given
  FifoSize = 1
  ErrorThreshold = 1
  MaxHolds = 2
SPECIFICATION FairSpec
INVARIANTS RadioAtAddress ClockHeld
PROPERTY KnownReceiverPaired
