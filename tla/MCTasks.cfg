SPECIFICATION SuiteSpec
SYMMETRY BlockSymmetry4
CONSTANTS
    Subjects = {"life", "ticked"}
    t1 = t1
    t2 = t2
    t3 = t3
    t4 = t4
    init = init
    Tasks <- Blocks4
    InitTask <- init
    TickAccounting = FALSE
    ExitCodes = {0}
    MaxVrun = 0
    MaxOverrun = 0
    MaxCut = 1
    Discipline = "sequential"
    IrqInExit = TRUE
INVARIANTS
    RunQueueOK
    NoRunnableLost
    NoUseAfterFree
    SleepsOnlyUntilNotified
PROPERTIES
    ReapsOnlyZombies
    ImplementsLifecycle
CHECK_DEADLOCK FALSE
