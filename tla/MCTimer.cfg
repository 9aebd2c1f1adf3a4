SPECIFICATION SuiteSpec
CONSTANTS
    Timers = {keeper, buzzer, led}
    Keeper = keeper
    NoTimer = null
    Callers = {p}
    Intervals = {1, 3}
    KeeperInterval = 4
    Period = 2
    MinDelta = 2
    MaxDelta = 3
    MaxLag = 1
    Ahead = 1
    Prompt = TRUE
    MaxTime = 5
    WordBits = 5
    Readers = {p}
    Hz = {7, 8}
    NSEC_PER_SEC = 12
    maxsec = 3
    Bits = 3
    Late = 1
    MaxCycles = 11
INVARIANTS
    QueueOK
    ArmedInTime
    NeverStops
    TimeTrue
PROPERTIES
    ImplementsTimerService
    LateIsCalled
CHECK_DEADLOCK FALSE
