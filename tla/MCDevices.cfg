SPECIFICATION SuiteSpec
CONSTANTS
    Tasks = {t1, t2}
    Irqs = {i1}
    Each = 1
    l1 = l1
    l2 = l2
    Subjects = {"drivers", "table", "heap", "boot", "lights", "clocks"}
INVARIANTS
    TableSound
    MachineRuns
PROPERTIES
    AddedFirst
    SleepKeepsAll
CHECK_DEADLOCK FALSE
