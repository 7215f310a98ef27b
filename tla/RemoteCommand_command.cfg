\* Repeated commands and receiver restarts, or each command once.
CONSTANTS
  Commands = {"CALIBRATE", "OTA_ABORT", "SHUTDOWN"}
  NORMAL = "NORMAL"
  SHUTDOWN = "SHUTDOWN"
  Immediate = {"OTA_ABORT"}
  Delay = 2
SPECIFICATION FairSpec
INVARIANT ExecutedOnce
PROPERTIES LastIsCarriedOut ConfirmedIsCarriedOut
