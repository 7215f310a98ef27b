SPECIFICATION StreamSpec
CONSTANTS
    QueueSize = 2
    RingSize = 2
    SeqModulus = 4
    RetxMax = 2
    MaxPackets = 6
    MaxSessions = 2
    FastInterval = 2
    SlowInterval = 4
    Room = 68
    SlotTicks = {2, 3}
    TotalSlots = {1, 2, 3}
    Grace = 1
    TargetOffset = 1
    Jitter = 1
    ServerTicks = {1, 2, 3, 4, 5, 6, 7, 8, 9, 10}
    HistorySize = 2
    Counters = 3
    FirstMinRtt = 1
    MinRttCeiling = 2
    MinRttAgeLimit = 2
    RttFactor = 2
    RttFloor = 2
    WarmUp = 1
    Jump = 5
    Billion = 4
    Second = 1
    RefRefresh = 2
    TickWrap = 12
    SyncTimeout = 2
    MaxTime = 5
    MaxPings = 3
    QueueSlots = 4
    Payloads = {p, q}
    NoPayload = none
    SuppressLimit = 1
    ErrorLimit = 1
    ModeEvents = 5
INVARIANTS
    RetransmitsOriginal
    NonePassedOver
    SendsInSlot
    SyncError
PROPERTIES
    QueueIsFifo
    CollectionStarts
    
CHECK_DEADLOCK FALSE
