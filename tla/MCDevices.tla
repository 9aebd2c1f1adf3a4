----------------------------- MODULE MCDevices -----------------------------
(* The model-checking instances of what keeps the machine's devices: probe  *)
(* and removal of the drivers, the table of devices, the allocator of their *)
(* memory, the maps of the machine, and their clocks and regulators.  A run *)
(* starts in one of the subjects and stays there.                           *)
EXTENDS Devices, Integers, TLC

VARIABLES
    subject,
    driver, phase, steps, releases, held, stolen,                                           \* Probe
    mms, lent, task, fault,                                                                 \* Memory
    machines, machine, mmap, boot, pgd,                                                     \* Machine
    count, on, over, nested, pwm, runs, led, saved, devices, taken, sleep, before, abandoned, \* Power
    words, registered, unprobed, users, taken_by, forced, writes                            \* and its clocks

probeVars == <<driver, phase, steps, releases, held, stolen>>
memoryVars == <<mms, lent, task, fault>>
machineVars == <<machines, machine, mmap, boot, pgd>>
powerVars == <<count, on, over, nested, pwm, runs, led, saved, devices, taken, sleep, before, abandoned>>
clockVars == <<words, registered, unprobed, users, taken_by, forced, writes>>
suiteVars == <<probeVars, vars, memoryVars, machineVars, powerVars, clockVars, subject>>

-----------------------------------------------------------------------------

CONSTANTS l1, l2

Drivers == INSTANCE Probe
Heap == INSTANCE Memory WITH
    live <- lent, LastPage <- 4, PoolCount <- 2, SmallCount <- 2, LargeCount <- 2, RunLengths <- {2}

\* Ranges side by side, over one another, and up to the end of the addresses.
Ranges == [virt : {0, 2, 3, 4, 6}, phys : {0, 1, 2, 6}, size : 0..4]
Boot == INSTANCE Machine WITH
    list <- machines, phase <- boot,
    Names <- {"x4418", "other"}, Top <- 8, Section <- 2, Entries <- Ranges, MaxMaps <- 2, Vectors <- 5

\* One of the UARTs of the device tree, whose mux and divider share a register, and what
\* no node of it uses: a ratio, a factor, a divider from zero, one without a field.  48 by 1 does not fit five bits.
Plainly == [parent |-> "none", rate |-> 0, enable |-> "unset"]
ClockNodes ==
    "xtal" :> [drv |-> "fixed", rate |-> 24, default |-> Plainly] @@
    "pll0" :> [drv |-> "pll", parent |-> "xtal", p |-> 1, m |-> 2, s |-> 0, k |-> 65535] @@
    "pll1" :> [drv |-> "pll", parent |-> "xtal", p |-> 2, m |-> 3, s |-> 1, k |-> 0] @@
    "mux" :> [drv |-> "mux", parents |-> ("pll0" :> 0 @@ "pll1" :> 2), reg |-> "a", shift |-> 0, width |-> 2,
              default |-> Plainly] @@
    "div" :> [drv |-> "divider", parent |-> "mux", reg |-> "a", shift |-> 2, width |-> 3, onebased |-> TRUE,
              default |-> [Plainly EXCEPT !.rate = 12]] @@
    "gate" :> [drv |-> "gate", parent |-> "div", reg |-> "b", shift |-> 2, width |-> 1, invert |-> FALSE,
               default |-> [Plainly EXCEPT !.enable = "off"]] @@
    "link" :> [drv |-> "link", parent |-> "gate", default |-> [Plainly EXCEPT !.enable = "on"]] @@
    "factor" :> [drv |-> "factor", parent |-> "xtal", mult |-> 3, div |-> 2, default |-> Plainly] @@
    "ratio" :> [drv |-> "ratio", parent |-> "factor", reg |-> "b", shift |-> 0, width |-> 2,
                default |-> [Plainly EXCEPT !.parent = "xtal"]] @@
    "plain" :> [drv |-> "divider", parent |-> "xtal", reg |-> "b", shift |-> 3, width |-> 2, onebased |-> FALSE,
                default |-> Plainly] @@
    "wrong" :> [drv |-> "divider", parent |-> "xtal", reg |-> "b", shift |-> 0, width |-> 0, onebased |-> TRUE,
                default |-> Plainly]
Left == {"a" :> x @@ "b" :> y : x \in {0, 17, 30}, y \in {3, 28}}

\* link-pwm0 feeds two PWMs and has its parent from the clock of the timer.
Feeds == "pclk" :> "none" @@ "link" :> "pclk" @@ "rail" :> "none" @@ "bl" :> "rail" @@ "aux" :> "rail"
Lights == INSTANCE Power WITH
    Nodes <- {"pclk", "link", "rail", "bl", "aux"}, Up <- Feeds,
    Leds <- {l1, l2}, Clk <- (l1 :> "link" @@ l2 :> "link"), Supply <- (l1 :> "bl" @@ l2 :> "aux"),
    Plain <- {"timer"}, PlainClk <- ("timer" :> "pclk"), Defaults <- {0, 2}, Levels <- {1, 2}, Leaving <- {l1}, MaxCount <- 4,
    Clocks <- ClockNodes, Order <- <<"xtal", "pll0", "pll1", "mux", "div", "gate", "link", "factor", "ratio", "plain", "wrong">>,
    Words <- Left, Bits <- 5, Rates <- {0, 1, 2, 7, 30, 60}, Files <- {"mux", "div", "gate", "ratio", "plain"},
    Takers <- {"gate", "link"}, Failing <- {"xtal", "pll0", "gate"}, MaxUsers <- 3, MaxTaken <- 1, MaxWrites <- 2

ASSUME DevicesAssumption /\ Heap!MemoryAssumption /\ Boot!MachineAssumption /\ Lights!PowerAssumption /\ Lights!ClocksAssumption

-----------------------------------------------------------------------------

CONSTANT Subjects

\* What a subject is not about has one initial state.
Parked(subjects, state) == IF subject \in subjects THEN TRUE ELSE state
SuiteInit ==
    /\ subject \in Subjects
    /\ Parked({"drivers"}, driver = "romdisk") /\ Drivers!Init
    /\ Init /\ Heap!Init /\ Boot!Init /\ Lights!Init
    /\ Parked({"clocks"}, words = "a" :> 0 @@ "b" :> 3) /\ Lights!ClockInit

SuiteNext ==
    \/ subject = "drivers" /\ Drivers!Next /\ UNCHANGED <<vars, memoryVars, machineVars, powerVars, clockVars, subject>>
    \/ subject = "table" /\ Next /\ UNCHANGED <<probeVars, memoryVars, machineVars, powerVars, clockVars, subject>>
    \/ subject = "heap" /\ Heap!Next /\ UNCHANGED <<probeVars, vars, machineVars, powerVars, clockVars, subject>>
    \/ subject = "boot" /\ Boot!Next /\ UNCHANGED <<probeVars, vars, memoryVars, powerVars, clockVars, subject>>
    \/ subject = "lights" /\ Lights!Next /\ UNCHANGED <<probeVars, vars, memoryVars, machineVars, clockVars, subject>>
    \/ subject = "clocks" /\ Lights!ClockNext /\ UNCHANGED <<probeVars, vars, memoryVars, machineVars, powerVars, subject>>
SuiteSpec == SuiteInit /\ [][SuiteNext]_suiteVars

-----------------------------------------------------------------------------

\* A probe or a removal leaves nothing behind; the allocator's counters and bitmaps
\* are those of the memory that is lent; the first page table maps what the machine
\* says; and what is in use has its clock and its regulator.
MachineRuns ==
    /\ subject = "drivers" => Drivers!ProbesSound
    /\ subject = "heap" => Heap!MemoryKept
    /\ subject = "boot" => Boot!MapTrue
    /\ subject = "lights" => Lights!PowerKept
    /\ subject = "clocks" => Lights!ClocksKept

\* A sleep leaves every light and every count as it found them.
SleepKeepsAll == [][subject = "lights" => Lights!WakesAsBefore /\ Lights!SleepIsBalanced]_suiteVars
=============================================================================
