SPECIFICATION SuiteSpec
CONSTANTS
    t1 = t1
    t2 = t2
    a = a
    b = b
    Base = 2
    Ext = 2
    Part = 2
    PerCluster = 8
    MaxFiles = 2
    MaxFails = 1
    MaxTasks = 3
    TASK_FILE_MAX = 1
    Programs = {"sh"}
    Init0 = "init"
    MaxExecs = 2
    MaxOpens = 1
    Growers = {3}
    Subjects = {"volume", "faults", "sharers", "directory", "walker", "walkers", "memory"}
INVARIANTS
    VolumeSound
    PathsRight
    MemoryKept
PROPERTIES
    OnlyItsOwn
    CallsEnd
CHECK_DEADLOCK FALSE
