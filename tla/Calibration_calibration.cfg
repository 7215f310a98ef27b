SPECIFICATION MCCalSpec
CONSTANTS
    Poses = 2
    MinPoses = 1
    MaxMoves = 1
    MaxAttempts = 2
    Buckets = {1, 2}
    Size = 3
    Priority = {1, 2}
    MinFit = 1
    MinSamples = 2
    MaxChanges = 3
CHECK_DEADLOCK FALSE
INVARIANTS
    ClearsItsOwn
    MagFitPure
    OneEntryStale
PROPERTY
    CalibrationEnds
