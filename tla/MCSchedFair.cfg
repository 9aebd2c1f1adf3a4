SPECIFICATION SuiteSpec
CONSTANTS
    Tasks = {t1, t2, t3, t4, t5}
    InitTask = init
    TickAccounting = TRUE
INVARIANTS
    FairShare
PROPERTIES
    NobodyStarves
    BottomNeverRuns
