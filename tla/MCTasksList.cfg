SPECIFICATION SuiteSpec
SYMMETRY BlockSymmetry3
CONSTANTS
    t1 = t1
    t2 = t2
    t3 = t3
    t4 = t4
    init = init
    Subjects = {"life"}
    Tasks <- Blocks3
    InitTask <- init
    TickAccounting = FALSE
    ExitCodes = {0}
    MaxVrun = 0
    MaxOverrun = 0
    MaxCut = 1
    Discipline = "sequential"
    IrqInExit = TRUE
INVARIANTS
    FindsOnlyProcesses
CHECK_DEADLOCK FALSE
