-------------------------------- MODULE Gpio --------------------------------
(* The pins of the S5P4418: banks whose registers hold a bit of every pin   *)
(* and are read, changed and written back (gpio-s5p4418.c), and the bank    *)
(* that stays alive in sleep, with a register to set and one to reset bits  *)
(* behind a gate (gpio-s5p4418-alv.c).  Tasks and timer callbacks call them *)
(* through gpio.c, which takes no lock.                                     *)
EXTENDS Integers, Sequences

CONSTANTS
    Contexts,       \* tasks and interrupts that call
    Pins, Alive,    \* the pins of an ordinary bank and of the bank alive in sleep
    None,           \* no call, nothing read
    MaxCalls        \* a bound

GpioAssumption == Pins \cap Alive = {} /\ MaxCalls \in Nat

AllPins == Pins \cup Alive
Regs == {"OUT", "OUTENB", "ALTFN", "PULLSEL", "PULLENB", "PULLSEL_DISABLE_DEFAULT",
         "PULLENB_DISABLE_DEFAULT", "DRV0", "DRV1", "DRV0_DISABLE_DEFAULT",
         "DRV1_DISABLE_DEFAULT", "SLEW", "SLEW_DISABLE_DEFAULT"}
AlvRegs == {"PADOUT", "PADOUTENB", "PADPULLUP", "DETECTPEND"}

VARIABLES
    reg,        \* the registers: a value of each pin
    gate,       \* GPIOALV_PWRGATEREG
    todo,       \* what is left of the call of each context: the writes to come
    read,       \* val: the register as the context has read it, before it writes it
    call,       \* pin, attribute and setting of the call under way, and how the pin was before
    want,       \* what the last call that returned has asked of an attribute of a pin
    torn,       \* the attributes that another context has overwritten, or whose write was shut out
    calls
vars == <<reg, gate, todo, read, call, want, torn, calls>>

RegsOf(p) == IF p \in Pins THEN Regs ELSE AlvRegs

----------------------------------------------------------------------------
(* What each function writes, in its order                                  *)

W(r, v) == [reg |-> r, val |-> v]

set_cfg(v) == <<W("ALTFN", v)>>
set_pull(v) ==
    (CASE v = "up" -> <<W("PULLSEL", 1), W("PULLENB", 1)>>
       [] v = "down" -> <<W("PULLSEL", 0), W("PULLENB", 1)>>
       [] v = "none" -> <<W("PULLENB", 0)>>)
    \o <<W("PULLSEL_DISABLE_DEFAULT", 1), W("PULLENB_DISABLE_DEFAULT", 1)>>
Drives == [weak |-> <<0, 0>>, weaker |-> <<0, 1>>, stronger |-> <<1, 0>>, strong |-> <<1, 1>>]
set_drv(v) == <<W("DRV0", Drives[v][1]), W("DRV1", Drives[v][2]),
                W("DRV0_DISABLE_DEFAULT", 1), W("DRV1_DISABLE_DEFAULT", 1)>>
set_rate(v) == <<W("SLEW", IF v = "slow" THEN 1 ELSE 0), W("SLEW_DISABLE_DEFAULT", 1)>>
set_dir(v) == <<W("OUTENB", IF v = "output" THEN 1 ELSE 0)>>
set_value(v) == <<W("OUT", v)>>

\* The bank alive in sleep: no drive, rate or function, and no pull is no change.
Gated(ws) == <<W("PWRGATE", 1)>> \o ws \o <<W("PWRGATE", 0)>>
alv_set_pull(v) ==
    Gated(CASE v = "up" -> <<W("PADPULLUP", 1)>> [] v = "down" -> <<W("PADPULLUP", 0)>> [] v = "none" -> <<>>)
alv_set_dir(v) == Gated(<<W("PADOUTENB", IF v = "output" THEN 1 ELSE 0)>>)
alv_set_value(v) == Gated(<<W("PADOUT", v)>>)
alv_dispatch == Gated(<<W("DETECTPEND", 0)>>)       \* the end of the dispatch of its interrupts

\* gpio.c: the calls of a pin, what each sets, and gpio_direction_output(), direction first
Calls(p) ==
    {[pin |-> p, attr |-> "dir", setting |-> v] : v \in {"input", "output"}}
    \cup {[pin |-> p, attr |-> a, setting |-> v] : a \in {"value", "output"}, v \in 0..1}
    \cup {[pin |-> p, attr |-> "pull", setting |-> v] : v \in {"none", "up", "down"}}
    \cup IF p \in Alive THEN {[pin |-> p, attr |-> "pending", setting |-> 0]}
         ELSE {[pin |-> p, attr |-> "cfg", setting |-> v] : v \in {0, 2}}
              \cup {[pin |-> p, attr |-> "drv", setting |-> v] : v \in DOMAIN Drives}
              \cup {[pin |-> p, attr |-> "rate", setting |-> v] : v \in {"slow", "fast"}}
Writes(k) ==
    IF k.pin \in Pins
    THEN CASE k.attr = "cfg" -> set_cfg(k.setting)
           [] k.attr = "pull" -> set_pull(k.setting)
           [] k.attr = "drv" -> set_drv(k.setting)
           [] k.attr = "rate" -> set_rate(k.setting)
           [] k.attr = "dir" -> set_dir(k.setting)
           [] k.attr = "value" -> set_value(k.setting)
           [] k.attr = "output" -> set_dir("output") \o set_value(k.setting)
    ELSE CASE k.attr = "pull" -> alv_set_pull(k.setting)
           [] k.attr = "dir" -> alv_set_dir(k.setting)
           [] k.attr = "value" -> alv_set_value(k.setting)
           [] k.attr = "output" -> alv_set_dir("output") \o alv_set_value(k.setting)
           [] k.attr = "pending" -> alv_dispatch

----------------------------------------------------------------------------
(* What the pins do                                                         *)

\* The pull of an ordinary pin: that of the reset, up, until both bits that disable it are set
Pull(p) ==
    LET sel == IF reg["PULLSEL_DISABLE_DEFAULT"][p] = 1 THEN reg["PULLSEL"][p] ELSE 1
        enb == IF reg["PULLENB_DISABLE_DEFAULT"][p] = 1 THEN reg["PULLENB"][p] ELSE 1
    IN IF enb = 0 THEN "none" ELSE IF sel = 1 THEN "up" ELSE "down"
Drive(p) == CHOOSE d \in DOMAIN Drives : Drives[d] = <<reg["DRV0"][p], reg["DRV1"][p]>>
Output(bit) == IF bit = 1 THEN "output" ELSE "input"
get_dir(p) == Output(reg["OUTENB"][p])
get_rate(p) == IF reg["SLEW"][p] = 1 THEN "slow" ELSE "fast"
get_cfg(p) == reg["ALTFN"][p]
alv_get_pull(p) == IF reg["PADPULLUP"][p] = 1 THEN "up" ELSE "down"
alv_get_dir(p) == Output(reg["PADOUTENB"][p])
Has(p, a) ==
    IF p \in Pins
    THEN CASE a = "pull" -> Pull(p) [] a = "dir" -> get_dir(p) [] a = "value" -> reg["OUT"][p]
           [] a = "rate" -> get_rate(p) [] a = "cfg" -> get_cfg(p) [] a = "drv" -> Drive(p)
    ELSE CASE a = "pull" -> alv_get_pull(p) [] a = "dir" -> alv_get_dir(p)
           [] a = "value" -> reg["PADOUT"][p] [] a = "pending" -> reg["DETECTPEND"][p]

\* What a call has asked, by attribute; a pin alive in sleep keeps its pull when asked for none.
Asked(k) ==
    IF k.attr = "output" THEN {<<k.pin, "dir", "output">>, <<k.pin, "value", k.setting>>}
    ELSE IF k.pin \in Alive /\ k.attr = "pull" /\ k.setting = "none" THEN {}
    ELSE {<<k.pin, k.attr, k.setting>>}
Attrs(k) == {<<x[1], x[2]>> : x \in Asked(k)}

----------------------------------------------------------------------------
Init ==
    /\ reg = [r \in Regs \cup AlvRegs |->
                 [p \in AllPins |-> IF r \in {"DETECTPEND", "PADPULLUP"} THEN 1 ELSE 0]]
    /\ gate = 0 /\ calls = 0 /\ want = {} /\ torn = {}
    /\ todo = [c \in Contexts |-> <<>>] /\ read = [c \in Contexts |-> None]
    /\ call = [c \in Contexts |-> None]

\* A pin has one user: no two contexts are at the same one.
Idle(c) == call[c] = None
Unused(p) == {d \in Contexts : ~Idle(d) /\ call[d].k.pin = p} = {}
Call(c, k) ==
    /\ Idle(c) /\ Unused(k.pin) /\ calls < MaxCalls /\ calls' = calls + 1
    /\ todo' = [todo EXCEPT ![c] = Writes(k)]
    /\ call' = [call EXCEPT ![c] = [k |-> k, pull |-> Pull(k.pin)]]
    /\ want' = {x \in want : <<x[1], x[2]>> \notin Attrs(k)}
    /\ UNCHANGED <<reg, gate, read, torn>>
Return(c) ==
    /\ ~Idle(c) /\ todo[c] = <<>>
    /\ want' = {x \in want : <<x[1], x[2]>> \notin Attrs(call[c].k)} \cup Asked(call[c].k)
    /\ call' = [call EXCEPT ![c] = None]
    /\ UNCHANGED <<reg, gate, todo, read, torn, calls>>

\* Others write a register between the read and the write of one that then puts it back.
Others(c, r) == {d \in Contexts \ {c} : todo[d] # <<>> /\ Head(todo[d]).reg = r /\ read[d] # None}
Read(c) ==
    /\ todo[c] # <<>> /\ Head(todo[c]).reg \in Regs /\ read[c] = None
    /\ read' = [read EXCEPT ![c] = [val |-> reg[Head(todo[c]).reg]]]
    /\ UNCHANGED <<reg, gate, todo, call, want, torn, calls>>
Write(c) ==
    /\ todo[c] # <<>>
    /\ LET w == Head(todo[c]) p == call[c].k.pin IN
         /\ todo' = [todo EXCEPT ![c] = Tail(@)] /\ read' = [read EXCEPT ![c] = None]
         /\ \/ /\ w.reg \in Regs /\ read[c] # None /\ UNCHANGED gate
               /\ reg' = [reg EXCEPT ![w.reg] = [read[c].val EXCEPT ![p] = w.val]]
            \/ /\ w.reg \in AlvRegs /\ UNCHANGED gate
               /\ reg' = IF gate = 1 THEN [reg EXCEPT ![w.reg][p] = w.val] ELSE reg
            \/ w.reg = "PWRGATE" /\ gate' = w.val /\ UNCHANGED reg
         /\ torn' = IF Others(c, w.reg) # {} \/ (w.reg \in AlvRegs /\ gate = 0)
                    THEN torn \cup Attrs(call[c].k) ELSE torn
    /\ UNCHANGED <<call, want, calls>>

Next ==
    \/ \E c \in Contexts, p \in AllPins : \E k \in Calls(p) : Call(c, k)
    \/ \E c \in Contexts : Read(c) \/ Write(c) \/ Return(c)

----------------------------------------------------------------------------
(* What the callers of gpio.c rely on.                                      *)

TypeOK ==
    /\ \A p \in AllPins : \A r \in RegsOf(p) : reg[r][p] \in IF r = "ALTFN" THEN 0..3 ELSE 0..1
    /\ gate \in 0..1 /\ calls \in 0..MaxCalls
    /\ \A c \in Contexts : Idle(c) => todo[c] = <<>> /\ read[c] = None

\* A pin is as the last call that returned has asked, except for attributes that a call of
\* another context has overwritten or shut out: there is no other way to lose one.
Settled == \A x \in want : <<x[1], x[2]>> \in torn \/ Has(x[1], x[2]) = x[3]

\* While the pull of a pin is set it is the old one or the new one, at no time a third: a pin
\* that goes from none to down is never pulled up in between.  The first time, a moment between
\* the last two writes is left out: of the two defaults only one is off then.
PullStepwise ==
    \A c \in Contexts :
        ~Idle(c) /\ call[c].k.attr = "pull" /\ call[c].k.pin \in Pins
        /\ Attrs(call[c].k) \cap torn = {}
        /\ reg["PULLSEL_DISABLE_DEFAULT"][call[c].k.pin] = reg["PULLENB_DISABLE_DEFAULT"][call[c].k.pin]
        => Pull(call[c].k.pin) \in {call[c].pull, call[c].k.setting}

\* The registers that stay alive are shut whenever nobody is writing to them.
GateShut == (\A c \in Contexts : Idle(c)) => gate = 0

PinsTrue == TypeOK /\ Settled /\ PullStepwise /\ GateShut
=============================================================================
