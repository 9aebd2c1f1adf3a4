-------------------------------- MODULE Probe --------------------------------
(* Probe and removal of the drivers, with the register_*() of their class.  *)
(* A probe takes resources step by step; a step that fails gives back what  *)
(* is on its error path, one release at a time.  Interrupts and timer       *)
(* callbacks may come between any two of these steps.  Each driver is the   *)
(* order of its steps: "pdat" is its private data, "object" the struct of   *)
(* its class, "name" the name of that, "dev" the device_t with its own name *)
(* and kobj, and "listed" stands for register_device().  From there on the   *)
(* files under its kobj can be read and written.                            *)
EXTENDS Sequences, FiniteSets, SequencesExt

VARIABLES
    driver,     \* the driver at work
    phase,      \* "probe", "undo", "bound", "remove", "failed" or "removed"
    steps,      \* the steps of the probe still to do
    releases,   \* the releases of an error path or a removal still to do
    held,       \* the resources that have been taken
    stolen      \* what was released without having been taken
vars == <<driver, phase, steps, releases, held, stolen>>

\* A step: what it takes and what follows if it cannot.
Step(gets, fails, undo) == [gets |-> gets, fails |-> fails, undo |-> undo]
Check(undo) == Step({}, "undo", undo)
Need == Check(<<>>)
Get(x, undo) == Step({x}, "undo", undo)
Take(X) == Step(X, "never", <<>>)
\* The result is not looked at.
Ask(X) == Step(X, "ignored", <<>>)

Call(by, uses) == [by |-> by, uses |-> uses]

----------------------------------------------------------------------------
(* The classes: register_led() and the like.  first: taken before the       *)
(* device_t; ready: with it; after: once it is listed.  drop and late: what  *)
(* unregister_*() takes back before and after unregister_device().  shown:   *)
(* the files that show what the object holds; told: those for which the     *)
(* driver is asked or told.                                                 *)

Class ==
    [first |-> {}, ready |-> {}, after |-> Take({}), drop |-> <<>>, late |-> <<>>,
     shown |-> {}, told |-> {}]
Shows(shown, told) == [Class EXCEPT !.shown = shown, !.told = told]

battery_files == {"supply", "status", "health", "design-capacity", "design-voltage", "voltage",
                  "current", "temperature", "cycle", "level"}
buzzer_files == {"frequency", "play"}
clk_files == {"summary", "parent", "enable", "rate"}
framebuffer_files == {"width", "height", "pwidth", "pheight", "bpp", "max_brightness"}
pwm_files == {"enable", "duty", "period", "polarity"}
regulator_files == {"summary", "parent", "enable", "voltage"}
uart_files == {"baud", "data", "parity", "stop"}
clockevent_files == {"mult", "shift", "frequency", "min_delta", "max_delta"}
clocksource_files == {"cycle", "time"}

led == Shows({"max_brightness"}, {"brightness"})
ledtrigger == Shows({}, {"activity"})
buzzer == Shows({}, buzzer_files)
battery == Shows({}, battery_files)
block == Shows({"size", "count", "capacity"}, {})
clk == Shows({}, clk_files)
framebuffer == Shows(framebuffer_files, {"brightness"})
gpiochip == Shows({"base", "ngpio"}, {})
i2c == Shows({}, {"detect"})
input == Shows({"type"}, {})
irqchip == Shows({"base", "nirq"}, {})
pwm == Shows(pwm_files, pwm_files)
regulator == Shows({}, regulator_files)
uart == Shows({}, uart_files)
clockevent ==
    [Shows(clockevent_files, {}) EXCEPT
        !.ready = {"handler"}, !.after = Take({"current"}), !.late = <<"current">>]
clocksource ==
    [Shows({"mult", "shift", "period", "deferment"}, clocksource_files) EXCEPT
        !.after = Take({"current", "timer"}), !.late = <<"timer", "current">>]
console ==
    [Shows({"active"}, {}) EXCEPT !.after = Take({"current"}), !.late = <<"current">>]
sdhci == [Class EXCEPT !.after = Ask({"card", "timer"}), !.drop = <<"timer", "card">>]
sub_irqchip == [irqchip EXCEPT !.first = {"irq"}, !.drop = <<"irq">>]

register(class, undo) ==
    (IF class.first = {} THEN <<>> ELSE <<Step(class.first, "undo", undo)>>)
    \o <<Get("dev", undo), Take({"dev.name", "kobj"} \cup class.ready),
         Get("listed", <<"kobj", "dev.name", "dev">> \o undo), class.after>>

unregister(class) == class.drop \o <<"listed">> \o class.late \o <<"kobj", "dev.name", "dev">>

\* Found by name, the device leads to the object and to the private data; so
\* do its files, of which those that tell the driver use what it has.
Lookup == Call("listed", {"dev", "dev.name", "kobj", "object", "pdat"})
File(uses) == Call("listed", {"kobj", "object"} \cup uses)

\* uses: what the driver's own functions for the class work with.
Driver(class, before, undo, uses, calls) ==
    [probe |-> before \o register(class, undo),
     remove |-> unregister(class) \o undo,
     files |-> [f \in class.shown \cup class.told |->
                   IF f \in class.told THEN File({"pdat"} \cup uses) ELSE File({})],
     calls |-> calls \cup {Lookup},
     starts |-> {}]
\* A write to one of its files starts what has its own callback.
Starting(d, what) == [d EXCEPT !.starts = what]

----------------------------------------------------------------------------
(* The drivers                                                              *)

Allocs == <<Need, Get("pdat", <<>>), Get("object", <<"pdat">>)>>
I2cAllocs ==
    <<Need, Get("i2cdev", <<>>), Check(<<"i2cdev">>), Get("pdat", <<"i2cdev">>),
      Get("object", <<"i2cdev", "pdat">>)>>
Named(X) == <<Take(X \cup {"name"})>>
Rest == <<"name", "pdat", "object">>

OnTimer(uses) == {Call("timer", {"pdat", "object"} \cup uses)}

led_gpio == Driver(led, Allocs \o Named({}), Rest, {}, {})
\* It is lit before it is registered.  No error path and no removal makes it dark again.
Lights == {"regulator on", "pwm on", "clk on"}
led_pwm_bl ==
    Driver(led, Allocs \o Named({"regulator"}) \o <<Take(Lights)>>, <<"regulator">> \o Rest, {"regulator"}, {})
ledtrigger_general ==
    Starting(Driver(ledtrigger, Allocs \o Named({}), <<"timer">> \o Rest, {}, OnTimer({})), {"timer"})
ledtrigger_heartbeat ==
    Driver(ledtrigger, Allocs \o Named({}) \o <<Take({"timer"})>>, <<"timer">> \o Rest, {}, OnTimer({}))
buzzer_gpio ==
    Starting(Driver(buzzer, Allocs \o Named({"queue"}), <<"timer", "queue">> \o Rest,
                    {"queue"}, OnTimer({"queue"})), {"timer"})
buzzer_pwm ==
    Starting(Driver(buzzer, Allocs \o Named({"queue"}), <<"timer", "queue">> \o Rest,
                    {"queue"}, OnTimer({"queue"})), {"timer"})
pwm_gpio == Starting(Driver(pwm, Allocs \o Named({}), <<"timer">> \o Rest, {}, OnTimer({})), {"timer"})
pwm_samsung == Driver(pwm, Allocs \o Named({"clk"}), <<"clk">> \o Rest, {"clk"}, {})
regulator_gpio == Driver(regulator, Allocs \o Named({"parent"}), <<"parent">> \o Rest, {"parent"}, {})
regulator_axp228 == Driver(regulator, I2cAllocs \o Named({}), <<"i2cdev">> \o Rest, {"i2cdev"}, {})
battery_axp228 == Driver(battery, I2cAllocs \o Named({}), <<"i2cdev">> \o Rest, {"i2cdev"}, {})
battery_sbs == Driver(battery, I2cAllocs \o Named({}), <<"i2cdev">> \o Rest, {"i2cdev"}, {})
romdisk == Driver(block, Allocs \o Named({}), Rest, {}, {})
console_uart ==
    Starting(Driver(console, Allocs \o Named({}), Rest, {}, {Call("current", {"pdat", "object"})}), {"current"})
uart_pl011 ==
    Driver(uart, Allocs \o Named({"clk", "clk on"}), <<"clk on", "clk">> \o Rest, {"clk", "clk on"}, {})
i2c_gpio == Driver(i2c, Allocs \o Named({}), Rest, {}, {})
gpio_s5p4418 == Driver(gpiochip, Allocs \o Named({}), Rest, {}, {})
gpio_s5p4418_alv == Driver(gpiochip, Allocs \o Named({}), Rest, {}, {})
fb_s5p4418 ==
    Driver(framebuffer, Allocs \o Named({"clk", "vram", "clk on"}),
           <<"clk on", "clk", "vram">> \o Rest, {}, {})

\* Clocks: the parent's name is a copy, and clk_mux has a table of them.
Derived == Driver(clk, Allocs \o Named({"parent"}), <<"parent">> \o Rest, {"parent"}, {})
clk_fixed == Driver(clk, Allocs \o Named({}), Rest, {}, {})
clk_mux ==
    Driver(clk, <<Need, Get("pdat", <<>>), Get("parents", <<"pdat">>),
                  Get("object", <<"pdat", "parents">>)>> \o Named({"parents.name"}),
           <<"parents.name", "parents">> \o Rest, {"parents", "parents.name"}, {})

\* Time: the interrupt is asked for before register_clockevent() sets a handler.
ce_samsung_timer ==
    Driver(clockevent,
           Allocs \o Named({"clk", "clk on"})
             \o <<Get("irq", <<"clk on", "clk", "pdat", "object">>), Take({"running"})>>,
           <<"running", "clk on", "irq", "clk">> \o Rest, {},
           {Call("irq", {"handler", "pdat", "object"}), Call("current", {"pdat", "object"})})
cs_samsung_timer ==
    Driver(clocksource, Allocs \o Named({"clk", "clk on", "running"}),
           <<"running", "clk on", "clk">> \o Rest, {"running"},
           OnTimer({"running"}) \cup {Call("current", {"pdat", "object"})})

\* Interrupt chips: a table of handlers; the gpio ones hang on another chip.
HandlersFirst == <<"name", "handlers", "pdat", "object">>
irq_pl192 == Driver(irqchip, Allocs \o Named({"handlers"}), HandlersFirst, {}, {})
Dispatch == Call("irq", {"pdat", "object", "handlers"})
irq_s5p4418_gpio == Driver(sub_irqchip, Allocs \o Named({"handlers"}), HandlersFirst, {}, {Dispatch})
irq_s5p4418_gpioalv == Driver(sub_irqchip, Allocs \o Named({"handlers"}), HandlersFirst, {}, {Dispatch})

\* Input
key_gpio_polled ==
    Driver(input, <<Need, Get("pdat", <<>>), Get("keys", <<"pdat">>),
                    Get("object", <<"pdat", "keys">>)>> \o Named({}) \o <<Take({"timer"})>>,
           <<"timer", "keys">> \o Rest, {}, OnTimer({"keys"}))
rc_gpio ==
    Driver(input, Allocs \o Named({"map"}) \o <<Ask({"irq"})>>, <<"irq", "map">> \o Rest, {},
           {Call("irq", {"pdat", "object", "map"})})
ts_gslx680 ==
    Driver(input, I2cAllocs \o Named({}) \o <<Ask({"irq"})>>, <<"irq", "i2cdev">> \o Rest, {},
           {Call("irq", {"pdat", "object", "i2cdev"})})

\* The name of its clock is never given back.
sdhci_xl00500 ==
    Driver(sdhci, <<Need>> \o Allocs \o Named({"clk_name"}) \o <<Check(Rest)>>, Rest, {},
           {Call("timer", {"card", "object", "pdat"})})

Drivers ==
    [led_gpio |-> led_gpio, led_pwm_bl |-> led_pwm_bl,
     ledtrigger_general |-> ledtrigger_general, ledtrigger_heartbeat |-> ledtrigger_heartbeat,
     buzzer_gpio |-> buzzer_gpio, buzzer_pwm |-> buzzer_pwm,
     pwm_gpio |-> pwm_gpio, pwm_samsung |-> pwm_samsung,
     regulator_gpio |-> regulator_gpio, regulator_axp228 |-> regulator_axp228,
     battery_axp228 |-> battery_axp228, battery_sbs |-> battery_sbs,
     romdisk |-> romdisk, console_uart |-> console_uart, uart_pl011 |-> uart_pl011,
     i2c_gpio |-> i2c_gpio, gpio_s5p4418 |-> gpio_s5p4418,
     gpio_s5p4418_alv |-> gpio_s5p4418_alv, fb_s5p4418 |-> fb_s5p4418,
     clk_divider |-> Derived, clk_fixed_factor |-> Derived, clk_gate |-> Derived,
     clk_link |-> Derived, clk_ratio |-> Derived, clk_s5p4418_pll |-> Derived,
     clk_fixed |-> clk_fixed, clk_mux |-> clk_mux,
     ce_samsung_timer |-> ce_samsung_timer, cs_samsung_timer |-> cs_samsung_timer,
     irq_pl192 |-> irq_pl192, irq_s5p4418_gpio |-> irq_s5p4418_gpio,
     irq_s5p4418_gpioalv |-> irq_s5p4418_gpioalv, key_gpio_polled |-> key_gpio_polled,
     rc_gpio |-> rc_gpio, ts_gslx680 |-> ts_gslx680, sdhci_xl00500 |-> sdhci_xl00500]

this == Drivers[driver]

----------------------------------------------------------------------------

\* probe_device() has found the driver of a node of the device tree.
Init ==
    /\ driver \in DOMAIN Drivers
    /\ phase = "probe"
    /\ steps = this.probe
    /\ releases = <<>>
    /\ held = {} /\ stolen = {}

Advance(taken) ==
    /\ held' = held \cup taken
    /\ steps' = Tail(steps)
    /\ phase' = IF Tail(steps) = <<>> THEN "bound" ELSE "probe"
    /\ UNCHANGED <<driver, releases, stolen>>

probe_step ==
    /\ phase = "probe"
    /\ \/ Advance(Head(steps).gets)
       \/ Head(steps).fails = "ignored" /\ Advance({})

probe_fails ==
    /\ phase = "probe" /\ Head(steps).fails = "undo"
    /\ releases' = Head(steps).undo
    /\ phase' = IF Head(steps).undo = <<>> THEN "failed" ELSE "undo"
    /\ UNCHANGED <<driver, steps, held, stolen>>

\* timer_cancel() may be called for a timer that is not queued.
release ==
    /\ phase \in {"undo", "remove"}
    /\ held' = held \ {Head(releases)}
    /\ stolen' = stolen \cup ({Head(releases)} \ (held \cup {"timer", "card", "current"}))
    /\ releases' = Tail(releases)
    /\ phase' = CASE Tail(releases) # <<>> -> phase
                  [] phase = "undo" -> "failed"
                  [] OTHER -> "removed"
    /\ UNCHANGED <<driver, steps>>

remove ==
    /\ phase = "bound"
    /\ phase' = "remove" /\ releases' = this.remove
    /\ UNCHANGED <<driver, steps, held, stolen>>

\* The timer that the driver has started starts itself again, or resume() does it.
timer_start ==
    /\ phase = "bound" /\ \E c \in this.calls : c.by = "timer" /\ c.uses \subseteq held
    /\ held' = held \cup {"timer"}
    /\ UNCHANGED <<driver, phase, steps, releases, stolen>>

\* A file is written: a beep, an activity, a duty cycle, the console to be used.
write_file ==
    /\ "listed" \in held
    /\ \E what \in this.starts : held' = held \cup {what}
    /\ UNCHANGED <<driver, phase, steps, releases, stolen>>

\* Its callback has come and does not start it again, or suspend() cancels it.
timer_ends ==
    /\ "timer" \in held
    /\ held' = held \ {"timer"}
    /\ UNCHANGED <<driver, phase, steps, releases, stolen>>

Next ==
    \/ probe_step \/ probe_fails \/ release \/ remove
    \/ timer_start \/ timer_ends \/ write_file

----------------------------------------------------------------------------
(* What a probe that fails, and a removal, must leave behind: nothing.  The *)
(* exceptions are the drivers whose code does leave something.              *)

Resources ==
    UNION {UNION {s.gets : s \in Range(Drivers[d].probe)} : d \in DOMAIN Drivers} \cup {"timer"}

TypeOK ==
    /\ driver \in DOMAIN Drivers
    /\ phase \in {"probe", "undo", "bound", "remove", "failed", "removed"}
    /\ held \subseteq Resources /\ stolen \subseteq Resources
    /\ phase \in {"undo", "remove"} <=> releases # <<>>
    /\ phase = "probe" <=> steps # <<>> /\ releases = <<>> /\ phase # "failed"

\* What is lost for good: what led_pwm_bl has switched on, the name that ce_samsung_timer
\* takes before it asks for its interrupt, the clock name of sdhci_xl00500, and the
\* interrupt of a gpio chip whose register_irqchip() fails after request_irq().
Lost ==
    CASE driver = "led_pwm_bl" -> Lights
      [] driver = "ce_samsung_timer" /\ phase = "failed" -> {"name"}
      [] driver = "sdhci_xl00500" -> {"clk_name"}
      [] driver \in {"irq_s5p4418_gpio", "irq_s5p4418_gpioalv"} /\ phase = "failed" -> {"irq"}
      [] OTHER -> {}

\* At whatever step a probe fails, its error path gives back all that the steps
\* before took, and so does a removal, but for what the drivers above lose.
NothingLeftBehind == phase \in {"failed", "removed"} => held \ {"handler"} \subseteq Lost

\* Nothing is released that is not held: no block freed twice, no interrupt of
\* another driver.  rc_gpio and ts_gslx680 do not look at the result of
\* request_irq() and free the interrupt of whoever had it.
ReleasesOnlyItsOwn ==
    stolen # {} => driver \in {"rc_gpio", "ts_gslx680"} /\ stolen = {"irq"}

\* An interrupt, a timer, the current clock or console, a look-up by name and the
\* files of the device find what they use set up and not yet freed, whenever they come.  Two holes: an
\* interrupt of ce_samsung_timer before register_clockevent(), and the chips that
\* stay linked to their parent interrupt when their registration fails.
CallbacksFindTheirData ==
    \A call \in this.calls \cup Range(this.files) :
        \/ call.by \notin held
        \/ call.uses \subseteq held
        \/ driver = "ce_samsung_timer" /\ call.uses \ held = {"handler"} /\ phase # "bound"
        \/ driver \in {"irq_s5p4418_gpio", "irq_s5p4418_gpioalv"} /\ phase \in {"undo", "failed"}

ProbesSound == TypeOK /\ NothingLeftBehind /\ ReleasesOnlyItsOwn /\ CallbacksFindTheirData
=============================================================================
