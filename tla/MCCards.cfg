SPECIFICATION SuiteSpec
CONSTANTS
    c1 = c1
    c2 = c2
    t1 = t1
    t2 = t2
    Tasks = {t1, t2}
    Counts = {1, 2, 3}
    Depth = 2
    MayPull = TRUE
    MayErr = TRUE
    Slow = TRUE
    Subjects = {"swaps", "fails", "fixed", "alone", "both", "shared", "single", "turns", "slot"}
INVARIANTS
    BlocksTrue
    TransfersTrue
    CardKnown
PROPERTIES
    OnlyAsTold
    Settles
CHECK_DEADLOCK FALSE
