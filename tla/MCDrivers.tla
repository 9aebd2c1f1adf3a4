----------------------------- MODULE MCDrivers -----------------------------
(* The model-checking instances of the drivers: pins and their interrupts,  *)
(* the two-wire bus and the power chip on it, the buzzer, the touchscreen   *)
(* and the keys, and the infrared receiver.  A run starts in one of the     *)
(* subjects and stays there.                                                *)
EXTENDS Irq, TLC

VARIABLES
    subject,
    reg, gate, todo, read, call, want, torn, calls,                                             \* Gpio
    sda, scl, transfer, line, phase, msg, byte, tries, attempt, bits, late, input, ret,         \* I2c
    slave, store, unseen, naks, stretches,
    en, out, charge3, battery, volts, wanted, switching, mixed, update, info, blind, sets, fails, changes, \* Axp
    queue, beep, left, frequency, pwm, playing, heard, pc, wants, mine, alone, suspended,       \* Buzzer
    overtaken, passed, raced, beeps, pairs, tones,
    boot, controller, mute, panel, edge, node, wires, keys, polling, fifo, app, failed,         \* Input
    still, lost, broken,
    decoder, air, item, frame, reps, hurt, whole, said, due, items, faults                      \* Nec

gpioVars == <<reg, gate, todo, read, call, want, torn, calls>>
i2cVars == <<sda, scl, transfer, line, phase, msg, byte, tries, attempt, bits, late, input, ret,
             slave, store, unseen, naks, stretches>>
axpVars == <<en, out, charge3, battery, volts, wanted, switching, mixed, update, info, blind, sets, fails, changes>>
buzzerVars == <<queue, beep, left, frequency, pwm, playing, heard, pc, wants, mine, alone, suspended,
                overtaken, passed, raced, beeps>>
tuneVars == <<pairs, tones>>
inputVars == <<boot, controller, mute, panel, edge, node, wires, keys, polling, fifo, app, failed,
               still, lost, broken>>
necVars == <<decoder, air, item, frame, reps, hurt, whole, said, due, items, faults>>
suiteVars == <<gpioVars, vars, i2cVars, axpVars, buzzerVars, tuneVars, inputVars, necVars, subject>>

-----------------------------------------------------------------------------

CONSTANTS NoCall, Up, Nowhere, here, there, k1

Bits == INSTANCE Gpio WITH None <- NoCall, Contexts <- {"c1", "c2"}, Pins <- {"p", "q"}, Alive <- {"v", "w"}, MaxCalls <- 2

\* Irq itself is here for the pins that stay alive in sleep; for the others it promises more.
Ordinary == INSTANCE Irq WITH Bank <- "gpio", MaxEdges <- 3

\* Bytes of two bits: an address bit and the direction, four registers.
Transfer(kind, addr, r, val) == [kind |-> kind, addr |-> addr, reg |-> r, val |-> val]
Transfers == {Transfer("write", 1, 2, 1), Transfer("read", 1, 1, 2), Transfer("read", 0, 1, 1)}
Wires == INSTANCE I2c WITH
    call <- transfer, todo <- line, chip <- slave, regs <- store,
    W <- 2, Retries <- 1, Tries <- 2, Calls <- Transfers, MaxNaks <- 1, MaxStretches <- 1

Chip == INSTANCE Axp WITH
    asked <- volts, calls <- sets,
    Channels <- {0, 3, 8, 15}, Millivolts <- {600, 1541, 1860, 4000}, Limits <- {300, 1449, 1500}, Volts <- {15, 16, 240},
    MaxCalls <- 2, MaxFails <- 1, MaxChanges <- 1

\* Two tasks beep; or one does, another sets a frequency and a third suspends.
Controls ==
    [name : {"d"}, value : {1, 8, 32}] \cup [name : {"o"}, value : {4, 9}] \cup [name : {"b"}, value : {25, 160, 900}]
    \cup [name : {"x"}, value : {5}]
Beepers == INSTANCE Buzzer WITH
    want <- wants, crossed <- passed, calls <- beeps, Tasks <- {1, 2}, Setters <- {}, Powers <- {}, Frequencies <- {0, 5}, Millis <- {2},
    MaxBeeps <- 3, MaxCalls <- 3, Pairs <- Controls, Values <- {0, 1, 32}, Scales <- {0, 4, 7}, MaxPairs <- 2, MaxTones <- 1
Setters == INSTANCE Buzzer WITH
    want <- wants, crossed <- passed, calls <- beeps, Tasks <- {1}, Setters <- {2}, Powers <- {3}, Frequencies <- {0, 5}, Millis <- {2},
    MaxBeeps <- 3, MaxCalls <- 3, Pairs <- Controls, Values <- {0, 1, 32}, Scales <- {0, 4, 7}, MaxPairs <- 2, MaxTones <- 1

Touch == INSTANCE Input WITH
    chip <- controller, level <- wires, torn <- broken,
    Fingers <- {0}, Keys <- {}, ActiveLow <- {}, Places <- {here, there}, Words <- <<1, 2>>, CONFIG_EVENT_FIFO_LENGTH <- 2, MaxMute <- 1
Polled == INSTANCE Input WITH
    chip <- controller, level <- wires, torn <- broken,
    Fingers <- {0}, Keys <- {k1}, ActiveLow <- {k1}, Places <- {here}, Words <- <<1, 2>>, CONFIG_EVENT_FIFO_LENGTH <- 2, MaxMute <- 0

Scan == [c \in {1, 5} |-> 100 + c]
Remote == INSTANCE Nec WITH
    B <- 1, Map <- Scan, Frames <- {<<a, r, c, 1 - c>> : a, r, c \in 0..1}, MaxItems <- 3, MaxFaults <- 1
Held == INSTANCE Nec WITH
    B <- 2, Map <- Scan, Frames <- {<<2, 1, 2, 1>>}, MaxItems <- 7, MaxFaults <- 1

ASSUME
    /\ Bits!GpioAssumption /\ Wires!I2cAssumption /\ Chip!AxpAssumption
    /\ Beepers!BuzzerAssumption /\ Touch!InputAssumption /\ Polled!InputAssumption /\ Held!NecAssumption

-----------------------------------------------------------------------------

CONSTANT Subjects

\* What a subject is not about has one initial state.
Parked(subjects, state) == IF subject \in subjects THEN TRUE ELSE state
SuiteInit ==
    /\ subject \in Subjects
    /\ Bits!Init /\ Init /\ Wires!Init
    /\ Parked({"chip"}, battery = [plugged |-> TRUE, full |-> FALSE, volt |-> 15]) /\ Chip!Init
    /\ IF subject = "setters" THEN Setters!Init ELSE Beepers!Init
    /\ Beepers!TuneInit
    /\ IF subject = "polled" THEN Polled!Init ELSE Touch!Init
    /\ IF subject = "held" THEN Held!Init ELSE Remote!Init

IrqStep ==
    \/ subject = "ordinary" /\ Ordinary!Next
    \/ subject = "awake" /\ Next
BuzzerStep ==
    \/ subject = "beepers" /\ Beepers!Next
    \/ subject = "setters" /\ Setters!Next
InputStep ==
    \/ subject = "touch" /\ Touch!Next
    \/ subject = "polled" /\ Polled!Next
NecStep ==
    \/ subject = "remote" /\ Remote!Next
    \/ subject = "held" /\ Held!Next
ButGpio == <<vars, i2cVars, axpVars, buzzerVars, tuneVars, inputVars, necVars, subject>>
ButIrq == <<gpioVars, i2cVars, axpVars, buzzerVars, tuneVars, inputVars, necVars, subject>>
ButI2c == <<gpioVars, vars, axpVars, buzzerVars, tuneVars, inputVars, necVars, subject>>
ButAxp == <<gpioVars, vars, i2cVars, buzzerVars, tuneVars, inputVars, necVars, subject>>
ButBuzzer == <<gpioVars, vars, i2cVars, axpVars, tuneVars, inputVars, necVars, subject>>
ButTune == <<gpioVars, vars, i2cVars, axpVars, buzzerVars, inputVars, necVars, subject>>
ButInput == <<gpioVars, vars, i2cVars, axpVars, buzzerVars, tuneVars, necVars, subject>>
ButNec == <<gpioVars, vars, i2cVars, axpVars, buzzerVars, tuneVars, inputVars, subject>>
SuiteNext ==
    \/ subject = "bits" /\ Bits!Next /\ UNCHANGED ButGpio
    \/ IrqStep /\ UNCHANGED ButIrq
    \/ subject = "wires" /\ Wires!Next /\ UNCHANGED ButI2c
    \/ subject = "chip" /\ Chip!Next /\ UNCHANGED ButAxp
    \/ BuzzerStep /\ UNCHANGED ButBuzzer
    \/ subject = "tune" /\ Beepers!TuneNext /\ UNCHANGED ButTune
    \/ InputStep /\ UNCHANGED ButInput
    \/ NecStep /\ UNCHANGED ButNec

\* Interrupts that are on are taken, and their handlers and the calls of drivers
\* return; a transfer goes on and does not wait for the clock for ever; tasks run
\* and an armed timer expires; somebody reads the events.
Dispatches == subject = "ordinary" /\ (Ordinary!irq_pl192_dispatch \/ Ordinary!HandlerReturns \/ Ordinary!Step)
Proceeds == subject = "wires" /\ (Wires!Line \/ Wires!Timeout \/ Wires!Proceed \/ Wires!Return)
Plays ==
    /\ subject = "beepers"
    /\ (\E t \in {1, 2} : Beepers!Step(t)) \/ Beepers!Tick \/ Beepers!buzzer_pwm_timer_function
Listens == subject = "polled" /\ (Polled!key_gpio_polled_timer_function \/ Polled!pump_event)
SuiteSpec ==
    /\ SuiteInit /\ [][SuiteNext]_suiteVars
    /\ WF_vars(Dispatches) /\ WF_i2cVars(Proceeds) /\ WF_buzzerVars(Plays) /\ WF_inputVars(Listens)

-----------------------------------------------------------------------------

\* A pin and its interrupt are what was asked for; the bus is given back; the chip
\* does what its registers say; a beep is heard, a tune is the one written; the
\* reader of the events and the holder of the remote control are told the truth.
DriversTrue ==
    /\ subject = "bits" => Bits!PinsTrue
    /\ subject = "ordinary" => Ordinary!IrqSound
    /\ subject = "wires" => Wires!BusSound
    /\ subject = "chip" => Chip!PowerTrue
    /\ subject = "beepers" => Beepers!BuzzerSound
    /\ subject = "setters" => Setters!InOrder /\ Setters!StopsAll /\ Setters!HwAgrees
    /\ subject = "tune" => Beepers!TuneTrue
    /\ subject = "touch" => Touch!InputTrue
    /\ subject = "polled" => Polled!InputTrue
    /\ subject = "remote" => Remote!KeysTrue
    /\ subject = "held" => Held!KeysTrue

\* A transfer that succeeds has done what was asked and one that fails nothing else,
\* with every byte in its frame; and events come in an order that makes sense.
StepsTrue ==
    [][ /\ subject = "wires" => Wires!Honest /\ Wires!OnlyAsked /\ Wires!Framed
        /\ subject = "touch" => Touch!Alternates
        /\ subject = "polled" => Polled!Alternates ]_suiteVars

\* An edge is handled, a transfer returns, beeps come to an end, a key is heard of.
Answers ==
    /\ subject = "ordinary" => Ordinary!EdgeIsHandled
    /\ subject = "wires" => Wires!Returns
    /\ subject = "beepers" => Beepers!Ends
    /\ <>[](subject = "polled" /\ Polled!Waits(k1)) => <>[](subject = "polled" /\ app[k1])
=============================================================================
