SPECIFICATION SensorSpec
CONSTANTS
    Addresses = {1, 2}
    ScanEvents = 6
    UpdateTimes = {2, 4}
    Margin = 1
    Busy = 3
    FifoSize = 9
    ErrorLimit = 3
    EmptyTimeout = 2
    Quiet = 2
    KeepAlive = 1
    Requests = 3
    Window = 4
    HealthEvents = 4
    Horizon = 8
    LpTimeout = 0
    RampMin = 1
    RampMax = 3
    ActiveThreshold = 3
    ActiveDelay = 6
    RestEvents = 4
    Environments = {desk, room}
    Octants = {o1, o2}
    MinSamples = 2
    MaxAge = 1
    MinUpdates = 1
    Mixed = mixed
    None = none
    Field <- Fields
    BnoAddrs = {1, 2}
    NoAddr = 0
    Rates = {1, 2}
    Angles = {0, 1}
    MaxSamples = 2
    ReadLimit = 1
    BnoEvents = 1
INVARIANTS
    ScanFinds
    NothingLost
    FreshAfterBatch
PROPERTIES
    SparesHealthy
    KeepsFitting
    ReadEnds
CHECK_DEADLOCK FALSE
