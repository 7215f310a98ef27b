SPECIFICATION DeviceSpec
CONSTANTS
    ImageSize = 7
    PageSize = 3
    Pages = 4
    Payload = 2
    Padded = {TRUE, FALSE}
    IdleLimit = 2
    ActivateLimit = 1
    Names = {pairing}
    Writers = {esb, console}
    Values = {1, 2}
    SettingEvents = 4
    FlashFailures = 1
    Threads = {"sensor", "button", "power"}
    Sensor = "sensor"
    Button = "button"
    Power = "power"
    Slots = {s1, s2, s3, s4}
    Timeout = 2
    Threshold = 3
    SuccessTime = 4
    WatchdogEvents = 3
    Callers = {a, b}
    StatusCaller = s
    Repeating = {"error", "long"}
    OneShots = {"complete"}
    ErrorPattern = "error"
    Depth = 3
    StatusPriority = 2
    Steps = 2
    LedRequests = 2
    FullCharge = 14
    BatteryEvents = 1
    TimeBound = 2
    Samples = 4
    TrimPart = 4
    JumpLimit = 1
    LowLimit = 1
    Charges = {0, 1, 2}
    Glitches = 1
    Debounce = 1
    ClickWindow = 2
    HoldTime = 2
    OffTime = 3
    CancelTime = 4
    BootHold = 5
    ResetModes = {1, 2, 3, 4, 7, 8}
    Presses = 3
INVARIANT ResetsAccumulate
CHECK_DEADLOCK FALSE
