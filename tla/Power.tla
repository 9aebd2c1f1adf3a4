-------------------------------- MODULE Power --------------------------------
(* The clocks and regulators that drivers switch on and off (clk.c,         *)
(* regulator.c), and the chain that lights a backlight with them: the       *)
(* framebuffer, the LED (led-pwm-bl.c), the PWM (pwm.c, pwm-samsung.c), and *)
(* the sleep of the machine.  The drivers are probed by the initcalls and   *)
(* called by one task: a call is one step, a sleep takes one per device.    *)
(* The last part has the drivers of the clocks themselves (clk-*.c), whose  *)
(* rates, parents and gates are fields of registers that they share.        *)
EXTENDS Integers, Sequences, FiniteSets, SequencesExt, FiniteSetsExt

CONSTANTS
    Nodes,          \* the clocks and regulators
    Up,             \* get_parent() of each, or None
    Leds,           \* the LEDs: each has a PWM of its own
    Clk, Supply,    \* the clock of the PWM of an LED, and the regulator of the LED
    Plain,          \* drivers that take a clock for themselves when they are probed
    PlainClk,       \* and the clock
    Defaults,       \* the values of default-brightness
    Levels,         \* the brightness that is asked for
    Leaving,        \* bound: the LEDs whose driver may fail at the end of its probe or be removed
    MaxCount        \* bound: clk_t.count and regulator_t.count

None == "none"
PowerAssumption ==
    /\ Up \in [Nodes -> Nodes \cup {None}] /\ None \notin Nodes
    /\ Clk \in [Leds -> Nodes] /\ Supply \in [Leds -> Nodes] /\ PlainClk \in [Plain -> Nodes]
    /\ Leaving \subseteq Leds /\ Defaults \subseteq Nat /\ Levels \subseteq Nat /\ 0 \notin Levels

VARIABLES
    count,      \* clk_t.count, regulator_t.count
    on,         \* what set_enable() was last called with
    pwm,        \* pwm_t.__enable of the PWM of each LED: -1, 0 or 1
    runs,       \* whether the PWM runs: TCON_START
    led,        \* led_pwm_bl_pdata_t.brightness
    saved,      \* the brightness that the framebuffer of an LED put aside
    devices,    \* __device_list: the LEDs and their framebuffers in the order of registration
    taken,      \* the plain drivers that are probed
    sleep,      \* the devices that are left to suspend, or to resume
    before,     \* history: the brightness when the machine went to sleep, while it sleeps
    over,       \* history: a clock or regulator was switched off more often than on
    nested,     \* history: one was switched on again while it was on
    abandoned   \* history: the LEDs that their driver left lit when it gave them up
tree == <<count, on, over, nested>>
vars == <<tree, pwm, runs, led, saved, devices, taken, sleep, before, abandoned>>

Fb(l) == <<"fb", l>>
Bl(l) == <<"led", l>>
Ready == {l \in Leds : Bl(l) \in ToSet(devices)}
Dark == [l \in Leds |-> -1]
Awake == [phase |-> "awake", rest |-> <<>>]

Init ==
    /\ count = [n \in Nodes |-> 0] /\ on = [n \in Nodes |-> FALSE]
    /\ over = FALSE /\ nested = FALSE
    /\ pwm = [l \in Leds |-> -1] /\ runs = [l \in Leds |-> FALSE]
    /\ led = Dark /\ saved = [l \in Leds |-> 0]
    /\ devices = <<>> /\ taken = {} /\ sleep = Awake /\ before = Dark /\ abandoned = {}

----------------------------------------------------------------------------
(* clk_enable() and clk_disable(); the regulators have the same functions.  *)
(* A tree is a record of count, on and the two histories.                   *)

Tree == [count |-> count, on |-> on, over |-> over, nested |-> nested]

RECURSIVE Enable(_, _), Disable(_, _)
Enable(n, t) ==
    IF n = None THEN t
    ELSE LET u == Enable(Up[n], t) IN
         [u EXCEPT !.on[n] = TRUE, !.count[n] = @ + 1,
                   !.nested = @ \/ (u.count[n] > 0 /\ Up[n] # None)]

Left(n, t) == IF t.count[n] > 0 THEN t.count[n] - 1 ELSE 0
Disable_all(n, t) ==
    IF n = None THEN t
    ELSE LET u == [t EXCEPT !.count[n] = Left(n, t)] IN [Disable(Up[n], u) EXCEPT !.on[n] = FALSE]
\* The parents are told only when the count comes to 0, or is there already.
Disable(n, t) ==
    IF n = None THEN t
    ELSE LET u == [t EXCEPT !.count[n] = Left(n, t), !.over = @ \/ t.count[n] = 0] IN
         IF Left(n, t) > 0 THEN u ELSE [Disable(Up[n], u) EXCEPT !.on[n] = FALSE]

clk_enable(n, t) == Enable(n, t)
clk_disable(n, t) == Disable(n, t)
regulator_enable(n, t) == Enable(n, t)
regulator_disable(n, t) == Disable(n, t)

RECURSIVE Status(_)
Status(n) == on[n] /\ (Up[n] = None \/ Status(Up[n]))
clk_status(n) == Status(n)
regulator_status(n) == Status(n)

Within(t) == \A n \in Nodes : t.count[n] <= MaxCount
Set(t) ==
    /\ Within(t)
    /\ count' = t.count /\ on' = t.on /\ over' = t.over /\ nested' = t.nested

----------------------------------------------------------------------------
(* The backlight.  A state of it is the tree with pwm, runs and led.        *)

State == [tree |-> Tree, pwm |-> pwm, runs |-> runs, led |-> led]
Become(s) == Set(s.tree) /\ pwm' = s.pwm /\ runs' = s.runs /\ led' = s.led

pwm_enable(l, s) ==
    IF s.pwm[l] = 1 THEN s
    ELSE [s EXCEPT !.pwm[l] = 1, !.runs[l] = TRUE, !.tree = clk_enable(Clk[l], @)]
pwm_disable(l, s) ==
    IF s.pwm[l] = 0 THEN s
    ELSE [s EXCEPT !.pwm[l] = 0, !.runs[l] = FALSE, !.tree = clk_disable(Clk[l], @)]

led_pwm_bl_set_brightness(l, b, s) == IF b > 0 THEN pwm_enable(l, s) ELSE pwm_disable(l, s)

\* The regulator is switched when the LED goes dark or lights up, -1 being dark too.
led_pwm_bl_set(l, b, s) ==
    IF s.led[l] = b THEN s
    ELSE LET r == IF b <= 0 THEN regulator_disable(Supply[l], s.tree)
                  ELSE IF s.led[l] <= 0 THEN regulator_enable(Supply[l], s.tree) ELSE s.tree
             u == led_pwm_bl_set_brightness(l, b, [s EXCEPT !.tree = r])
         IN [u EXCEPT !.led[l] = b]

----------------------------------------------------------------------------
(* Drivers                                                                  *)

\* The timers, the UARTs and the framebuffer take their clock when they are probed.
Take(d) ==
    /\ d \notin taken /\ sleep = Awake
    /\ Set(clk_enable(PlainClk[d], Tree)) /\ taken' = taken \cup {d}
    /\ UNCHANGED <<pwm, runs, led, saved, devices, sleep, before, abandoned>>
Release(d) ==
    /\ d \in taken /\ sleep = Awake
    /\ Set(clk_disable(PlainClk[d], Tree)) /\ taken' = taken \ {d}
    /\ UNCHANGED <<pwm, runs, led, saved, devices, sleep, before, abandoned>>

\* The private data is freed, nothing is switched off: neither where the registration fails
\* nor in the removal.
GiveUp(l, b) == l \in Leaving /\ abandoned' = IF b > 0 THEN abandoned \cup {l} ELSE abandoned

\* The default brightness is set before register_led(), which may fail.
led_pwm_bl_probe(l) ==
    /\ l \notin Ready /\ sleep = Awake
    /\ \E b \in Defaults :
         LET lit == led_pwm_bl_set(l, b, State) IN
         \/ Become(lit) /\ devices' = Append(devices, Bl(l)) /\ UNCHANGED abandoned
         \/ Become([lit EXCEPT !.led[l] = -1]) /\ GiveUp(l, b) /\ UNCHANGED devices
    /\ UNCHANGED <<saved, taken, sleep, before>>
\* A framebuffer keeps a pointer to its LED: the LED is removed after it.
led_pwm_bl_remove(l) ==
    /\ l \in Ready /\ Fb(l) \notin ToSet(devices) /\ sleep = Awake
    /\ devices' = Remove(devices, Bl(l))
    /\ led' = [led EXCEPT ![l] = -1] /\ GiveUp(l, led[l])
    /\ UNCHANGED <<tree, pwm, runs, saved, taken, sleep, before>>
fb_s5p4418_probe(l) ==
    /\ l \in Ready /\ Fb(l) \notin ToSet(devices) /\ sleep = Awake
    /\ devices' = Append(devices, Fb(l))
    /\ UNCHANGED <<tree, pwm, runs, led, saved, taken, sleep, before, abandoned>>
fb_s5p4418_remove(l) ==
    /\ Fb(l) \in ToSet(devices) /\ sleep = Awake
    /\ devices' = Remove(devices, Fb(l)) /\ saved' = [saved EXCEPT ![l] = 0]
    /\ UNCHANGED <<tree, pwm, runs, led, taken, sleep, before, abandoned>>

led_set_brightness(l) ==
    /\ l \in Ready /\ sleep = Awake
    /\ \E b \in Levels \cup {0} : Become(led_pwm_bl_set(l, b, State))
    /\ UNCHANGED <<saved, devices, taken, sleep, before, abandoned>>

----------------------------------------------------------------------------
(* machine_sleep(): the last device is suspended first and resumed last     *)

machine_sleep_forward ==
    /\ sleep = Awake /\ devices # <<>>
    /\ sleep' = [phase |-> "suspend", rest |-> devices] /\ before' = led
    /\ UNCHANGED <<tree, pwm, runs, led, saved, devices, taken, abandoned>>
machine_sleep ==
    /\ sleep = Awake /\ devices # <<>>
    /\ sleep' = [phase |-> "suspend", rest |-> Reverse(devices)] /\ before' = led
    /\ UNCHANGED <<tree, pwm, runs, led, saved, devices, taken, abandoned>>

\* The LED keeps its brightness while it is dark.
led_pwm_bl_suspend(l) ==
    Become(led_pwm_bl_set_brightness(l, 0,
        IF led[l] > 0 THEN [State EXCEPT !.tree = regulator_disable(Supply[l], @)] ELSE State))
led_pwm_bl_resume(l) ==
    Become(led_pwm_bl_set_brightness(l, led[l],
        IF led[l] > 0 THEN [State EXCEPT !.tree = regulator_enable(Supply[l], @)] ELSE State))

fb_s5p4418_suspend(l) ==
    saved' = [saved EXCEPT ![l] = led[l]] /\ Become(led_pwm_bl_set(l, 0, State))
fb_s5p4418_resume(l) == Become(led_pwm_bl_set(l, saved[l], State))

suspend_device ==
    /\ sleep.phase = "suspend" /\ sleep.rest # <<>>
    /\ LET d == Head(sleep.rest) l == d[2] IN
       IF d = Fb(l) THEN fb_s5p4418_suspend(l) ELSE led_pwm_bl_suspend(l) /\ UNCHANGED saved
    /\ sleep' = [sleep EXCEPT !.rest = Tail(@)]
    /\ UNCHANGED <<devices, taken, before, abandoned>>
Turn ==
    /\ sleep.phase = "suspend" /\ sleep.rest = <<>>
    /\ sleep' = [phase |-> "resume", rest |-> devices]
    /\ UNCHANGED <<tree, pwm, runs, led, saved, devices, taken, before, abandoned>>
resume_device ==
    /\ sleep.phase = "resume" /\ sleep.rest # <<>>
    /\ LET d == Head(sleep.rest) l == d[2] IN
       IF d = Fb(l) THEN fb_s5p4418_resume(l) ELSE led_pwm_bl_resume(l)
    /\ sleep' = IF Tail(sleep.rest) = <<>> THEN Awake ELSE [sleep EXCEPT !.rest = Tail(@)]
    /\ before' = IF sleep' = Awake THEN Dark ELSE before
    /\ UNCHANGED <<saved, devices, taken, abandoned>>

Next ==
    \/ \E d \in Plain : Take(d) \/ Release(d)
    \/ \E l \in Leds :
         \/ led_pwm_bl_probe(l) \/ led_pwm_bl_remove(l) \/ led_set_brightness(l)
         \/ fb_s5p4418_probe(l) \/ fb_s5p4418_remove(l)
    \/ machine_sleep \/ suspend_device \/ Turn \/ resume_device

----------------------------------------------------------------------------
(* What the counts of clocks and regulators are for.                        *)

TypeOK ==
    /\ count \in [Nodes -> 0..MaxCount] /\ on \in [Nodes -> BOOLEAN]
    /\ pwm \in [Leds -> {-1, 0, 1}] /\ runs \in [Leds -> BOOLEAN]
    /\ \A l \in Leds : led[l] \in {-1, 0} \cup Levels \cup Defaults
    /\ taken \subseteq Plain /\ abandoned \subseteq Leds /\ {over, nested} \subseteq BOOLEAN

Lit(l) == l \in Ready /\ led[l] > 0

\* What is in use stays on, with everything it is fed from, through every order in which
\* its users come and go: a lit backlight has a running PWM, its clock and its regulator, a
\* probed driver has its clock.  A disable without an enable, as the first pwm_disable()
\* after the boot is, takes the parents away from somebody else.
InUseIsOn ==
    sleep = Awake =>
        /\ \A l \in Leds : Lit(l) => runs[l] /\ (over \/ (clk_status(Clk[l]) /\ regulator_status(Supply[l])))
        /\ \A d \in taken : over \/ clk_status(PlainClk[d])

RECURSIVE Path(_)
Path(n) == IF n = None THEN {} ELSE {n} \cup Path(Up[n])

\* What nobody uses is off, unless a node was enabled twice at a time (every enable counts
\* in the parents, only the last disable does) or feeds an LED that was given up while lit.
UnusedIsOff ==
    sleep = Awake /\ taken = {} /\ (\A l \in Leds : ~Lit(l)) =>
        LET leaked == UNION {Path(Clk[l]) \cup Path(Supply[l]) : l \in abandoned} IN
        (\A n \in Nodes \ leaked : count[n] = 0 /\ ~on[n]) \/ nested

\* In its sleep the machine has no light on and no PWM runs, but for an LED that was given
\* up while lit and has no driver any more.
DarkInSleep ==
    sleep.phase = "suspend" /\ sleep.rest = <<>> => \A l \in Leds : runs[l] => l \in abandoned \ Ready

\* When it wakes up every light is as it was, though each brightness is put aside in two
\* places, by the LED and by the framebuffer that uses it.
WakesAsBefore == sleep.phase = "resume" /\ sleep' = Awake => led' = before

\* The sleep itself keeps the balance: no disable in it is one too many.
SleepIsBalanced == sleep # Awake => over' = over

PowerKept == TypeOK /\ InUseIsOn /\ UnusedIsOff /\ DarkInSleep
----------------------------------------------------------------------------
(* The drivers of the clocks.  A node of the device tree is a record: drv,  *)
(* its parent (a mux has the value of each of its parents), and, where it   *)
(* has one, its field: the bits of a register from shift on.                *)

CONSTANTS
    Clocks,         \* the nodes, by the name of the clock
    Order,          \* the order in which they are probed
    Words,          \* what may be in the registers at first
    Bits,           \* of a register, and of u32_t
    Rates,          \* the rates that are asked for
    Files,          \* the clocks whose files are written
    Takers,         \* the clocks that drivers enable when probed and disable when removed
    Failing,        \* bound: the clocks whose memory may not be had
    MaxUsers, MaxTaken, MaxWrites   \* bounds: clk_t.count, the drivers of a clock, the writes

HasField(c) == Clocks[c].shift >= 0 /\ Clocks[c].width > 0
Fielded == {c \in DOMAIN Clocks : Clocks[c].drv \in {"mux", "divider", "ratio", "gate"} /\ HasField(c)}
ClocksAssumption ==
    /\ Range(Order) = DOMAIN Clocks /\ None \notin DOMAIN Clocks
    /\ Files \subseteq DOMAIN Clocks /\ Takers \subseteq DOMAIN Clocks /\ Rates \subseteq Nat
    /\ \A w \in Words : \A r \in DOMAIN w : w[r] \in 0..(2^Bits - 1)
    /\ \A c \in Fielded : Clocks[c].shift + Clocks[c].width <= Bits
    /\ \A c \in Fielded : Clocks[c].drv = "mux" =>
          IsInjective(Clocks[c].parents) /\ Range(Clocks[c].parents) \subseteq 0..(2^Clocks[c].width - 1)

VARIABLES
    words,          \* the registers
    registered,     \* the clocks that search_clk() finds
    unprobed,       \* the nodes that are still to be probed
    users,          \* clk_t.count
    taken_by,       \* history: the drivers that have each clock
    forced,         \* history: a write to "enable" has switched a clock off
    writes          \* the writes so far
clockVars == <<words, registered, unprobed, users, taken_by, forced, writes>>

field(n, w) == (w[n.reg] \div 2^n.shift) % 2^n.width
set_field(n, w, v) == [w EXCEPT ![n.reg] = @ + (v - field(n, w)) * 2^n.shift]
mask(n) == 2^n.width - 1

\* A parent that a mux does not know is none.
parent_of(n, w) ==
    CASE n.drv = "fixed" -> None
      [] n.drv = "mux" ->
            IF field(n, w) \in Range(n.parents) THEN CHOOSE p \in DOMAIN n.parents : n.parents[p] = field(n, w)
            ELSE None
      [] OTHER -> n.parent

set_enable(n, b, w) == IF n.drv = "gate" THEN set_field(n, w, IF b # n.invert THEN 1 ELSE 0) ELSE w
get_enable(n, w) == n.drv = "gate" => (field(n, w) = 1) # n.invert

\* The rate of a clock from the rate of its parent, driver by driver.
clk_pll_get_rate(n, prate) == (n.m + n.k \div 65536) * (prate \div (n.p * 2^n.s))
clk_factor_get_rate(n, prate) == (prate * n.mult) \div n.div
clk_ratio_get_rate(n, prate, w) == prate \div 2^field(n, w)
clk_divider_get_rate(n, prate, w) ==
    LET div == IF n.onebased THEN field(n, w) + 1 ELSE field(n, w) IN
    IF div = 0 THEN prate ELSE prate \div div
get_rate(n, prate, w) ==
    CASE n.drv = "fixed" -> n.rate
      [] n.drv = "pll" -> clk_pll_get_rate(n, prate)
      [] n.drv = "factor" -> clk_factor_get_rate(n, prate)
      [] n.drv = "ratio" -> clk_ratio_get_rate(n, prate, w)
      [] n.drv = "divider" -> clk_divider_get_rate(n, prate, w)
      [] OTHER -> prate

\* What prate / rate may be as a u32_t: no rate asks for that of the parent, and 0 / 0 is anything.
Quotients(prate, rate) ==
    CASE rate # 0 -> {(prate \div rate) % 2^Bits}
      [] rate = 0 /\ prate # 0 -> {1}
      [] OTHER -> 0..(2^Bits - 1)
Clamped(n, div) == IF div > mask(n) THEN mask(n) ELSE div
fls(x) == Cardinality({i \in 0..(Bits - 1) : 2^i <= x})
clk_divider_set_rate(n, div, w) ==
    set_field(n, w, Clamped(n, IF n.onebased THEN (div - 1) % 2^Bits ELSE div))
clk_ratio_set_rate(n, div, w) == set_field(n, w, fls(Clamped(n, div)))
set_rate(n, prate, rate, w) ==
    CASE n.drv = "divider" -> {clk_divider_set_rate(n, div, w) : div \in Quotients(prate, rate)}
      [] n.drv = "ratio" -> {clk_ratio_set_rate(n, div, w) : div \in Quotients(prate, rate)}
      [] OTHER -> {w}
set_parent(n, p, w) ==
    IF n.drv = "mux" /\ p \in DOMAIN n.parents THEN set_field(n, w, n.parents[p]) ELSE w

\* clk_get_rate(), clk_enable(), clk_disable() and clk_status() on the clocks that are
\* found: a name that is not does nothing, has no rate and is not on.
Now == [words |-> words, found |-> registered, users |-> users]
Found(c) == [Now EXCEPT !.found = @ \cup {c}]

RECURSIVE rate_of(_, _), enable(_, _), disable(_, _), status(_, _)
Above(c, t) == parent_of(Clocks[c], t.words)
rate_of(c, t) == IF c \in t.found THEN get_rate(Clocks[c], rate_of(Above(c, t), t), t.words) ELSE 0
enable(c, t) ==
    IF c \notin t.found THEN t
    ELSE LET u == enable(Above(c, t), t) IN
         [u EXCEPT !.words = set_enable(Clocks[c], TRUE, @), !.users[c] = @ + 1]
disable(c, t) ==
    IF c \notin t.found THEN t
    ELSE LET left == IF t.users[c] > 0 THEN t.users[c] - 1 ELSE 0
             u == [t EXCEPT !.users[c] = left]
         IN  IF left > 0 THEN u
             ELSE [disable(Above(c, u), u) EXCEPT !.words = set_enable(Clocks[c], FALSE, @)]
status(c, t) ==
    /\ c \in t.found /\ get_enable(Clocks[c], t.words)
    /\ Above(c, t) = None \/ status(Above(c, t), t)
change_rate(c, rate, t) ==
    {[t EXCEPT !.words = w] : w \in set_rate(Clocks[c], rate_of(Above(c, t), t), rate, t.words)}
change_parent(c, p, t) ==
    IF p \in t.found THEN [t EXCEPT !.words = set_parent(Clocks[c], p, @)] ELSE t

\* The "default" of a node, which clk-s5p4418-pll does not read.
with_default(c, t) ==
    LET d == Clocks[c].default
        moved == change_parent(c, d.parent, t)
        rated == IF d.rate > 0 THEN change_rate(c, d.rate, moved) ELSE {moved}
    IN  CASE d.enable = "on" -> {enable(c, u) : u \in rated}
          [] d.enable = "off" -> {disable(c, u) : u \in rated}
          [] OTHER -> rated

Becomes(t) ==
    /\ \A c \in DOMAIN Clocks : t.users[c] <= MaxUsers
    /\ words' = t.words /\ registered' = t.found /\ users' = t.users

ClockInit ==
    /\ words \in Words /\ registered = {} /\ unprobed = Order
    /\ users = [c \in DOMAIN Clocks |-> 0] /\ taken_by = [c \in Takers |-> 0]
    /\ forced = FALSE /\ writes = 0

\* A node is probed once.  Its probe fails if it is not ready, or for want of memory.
clk_probe(c, drv, ready, after) ==
    /\ unprobed # <<>> /\ c = Head(unprobed) /\ Clocks[c].drv = drv /\ unprobed' = Tail(unprobed)
    /\ \/ ready /\ \E t \in after : Becomes(t)
       \/ (~ready \/ c \in Failing) /\ Becomes(Now)
    /\ UNCHANGED <<taken_by, forced, writes>>

\* A mux does not look for its parents, nor does a gate ask for a width.
Parented(c) == Clocks[c].parent \in registered
clk_fixed_probe(c) == clk_probe(c, "fixed", Clocks[c].rate > 0, with_default(c, Found(c)))
clk_s5p4418_pll_probe(c) == clk_probe(c, "pll", Parented(c), {Found(c)})
clk_mux_probe(c) ==
    clk_probe(c, "mux", DOMAIN Clocks[c].parents # {} /\ HasField(c), with_default(c, Found(c)))
clk_divider_probe(c) == clk_probe(c, "divider", Parented(c) /\ HasField(c), with_default(c, Found(c)))
clk_ratio_probe(c) == clk_probe(c, "ratio", Parented(c) /\ HasField(c), with_default(c, Found(c)))
clk_gate_probe(c) == clk_probe(c, "gate", Parented(c) /\ Clocks[c].shift >= 0, with_default(c, Found(c)))
clk_fixed_factor_probe(c) == clk_probe(c, "factor", Parented(c), with_default(c, Found(c)))
clk_link_probe(c) == clk_probe(c, "link", Parented(c), with_default(c, Found(c)))

take_clk(c) ==
    /\ unprobed = <<>> /\ c \in registered /\ taken_by[c] < MaxTaken
    /\ Becomes(enable(c, Now)) /\ taken_by' = [taken_by EXCEPT ![c] = @ + 1]
    /\ UNCHANGED <<unprobed, forced, writes>>
drop_clk(c) ==
    /\ unprobed = <<>> /\ taken_by[c] > 0
    /\ Becomes(disable(c, Now)) /\ taken_by' = [taken_by EXCEPT ![c] = @ - 1]
    /\ UNCHANGED <<unprobed, forced, writes>>

Write(c) ==
    /\ unprobed = <<>> /\ c \in registered /\ writes < MaxWrites /\ writes' = writes + 1
    /\ UNCHANGED <<unprobed, taken_by>>
clk_write_parent(c, p) == Write(c) /\ Becomes(change_parent(c, p, Now)) /\ UNCHANGED forced
clk_write_rate(c, rate) ==
    Write(c) /\ (\E t \in change_rate(c, rate, Now) : Becomes(t)) /\ UNCHANGED forced
clk_write_enable(c, b) ==
    Write(c) /\ Becomes(IF b THEN enable(c, Now) ELSE disable(c, Now)) /\ forced' = (forced \/ ~b)

ClockNext ==
    \/ \E c \in DOMAIN Clocks :
         \/ clk_fixed_probe(c) \/ clk_s5p4418_pll_probe(c) \/ clk_mux_probe(c) \/ clk_divider_probe(c)
         \/ clk_ratio_probe(c) \/ clk_gate_probe(c) \/ clk_fixed_factor_probe(c) \/ clk_link_probe(c)
    \/ \E c \in Takers : take_clk(c) \/ drop_clk(c)
    \/ \E c \in Files :
         \/ \E p \in DOMAIN Clocks : clk_write_parent(c, p)
         \/ \E rate \in Rates : clk_write_rate(c, rate)
         \/ \E b \in BOOLEAN : clk_write_enable(c, b)

----------------------------------------------------------------------------
(* What the drivers of the clocks promise.                                  *)

RECURSIVE Rooted(_)
Rooted(c) == c \in registered /\ (Above(c, Now) = None \/ Rooted(Above(c, Now)))

ClockTypeOK ==
    /\ \A r \in DOMAIN words : words[r] \in 0..(2^Bits - 1)
    /\ registered \subseteq DOMAIN Clocks /\ users \in [DOMAIN Clocks -> 0..MaxUsers]
    /\ taken_by \in [Takers -> 0..MaxTaken] /\ forced \in BOOLEAN

\* A clock that a driver has taken is on as long as all above it is there, whatever parent
\* its mux is given meanwhile and whoever else comes and goes, until somebody writes 0 to
\* an "enable": the gates of the machine are below its muxes.
TakenClockRuns ==
    \A c \in Takers : taken_by[c] > 0 /\ Rooted(c) => status(c, Now) \/ forced

\* Clocks share registers.  Whenever one is given a rate or a parent the fields of all
\* others stay as they are, and when one is switched all but the gates do.
OtherClocksKept ==
    \A c \in Files \cap registered, d \in Fielded :
        LET same(t) == field(Clocks[d], t.words) = field(Clocks[d], words) IN
        /\ c # d => /\ \A rate \in Rates : \A t \in change_rate(c, rate, Now) : same(t)
                    /\ \A p \in registered : same(change_parent(c, p, Now))
        /\ Clocks[d].drv # "gate" => same(enable(c, Now)) /\ same(disable(c, Now))

\* The rates that a clock can have.
Reachable(n, prate) == {get_rate(n, prate, set_field(n, words, v)) : v \in 0..mask(n)}

\* What clk_set_rate() chooses.  A divider gets the least of its rates that is not below
\* what is asked for, a ratio at least half of it and never more; 0 asks for the parent's
\* rate, of which a ratio gets the half.  Asked for more than its parent has, a divider that
\* counts from one goes to its lowest rate, others stay at the parent's.  The quotient has to
\* fit a u32_t.
RateIsNearest ==
    \A c \in Files \cap registered :
      LET n == Clocks[c] prate == rate_of(Above(c, Now), Now) IN
      n.drv \in {"divider", "ratio"} /\ prate > 0 =>
        \A rate \in Rates : \A t \in change_rate(c, rate, Now) :
          LET got == rate_of(c, t) asked == IF rate = 0 THEN prate ELSE rate IN
          prate \div asked < 2^Bits =>
            IF asked > prate THEN got = IF n.drv = "divider" /\ n.onebased THEN Min(Reachable(n, prate)) ELSE prate
            ELSE IF n.drv = "divider" THEN got = Min({x \in Reachable(n, prate) : x >= asked})
            ELSE 2 * got + 1 >= asked /\ (got <= asked \/ got = prate \div 2^n.width)

ClocksKept == ClockTypeOK /\ TakenClockRuns /\ OtherClocksKept /\ RateIsNearest
=============================================================================
