SPECIFICATION SuiteSpec
CONSTANTS
    Bank = "alv"
    Pins = {0, 1}
    MaxEdges = 1
    MaxOps = 4
    NoCall = NoCall
    Up = Up
    Nowhere = Nowhere
    here = here
    there = there
    k1 = k1
    Subjects = {"bits", "ordinary", "awake", "wires", "chip", "beepers", "setters", "tune", "touch", "polled", "remote", "held"}
INVARIANTS
    IrqSound
    DriversTrue
PROPERTIES
    StepsTrue
    Answers
CHECK_DEADLOCK FALSE
