--------------------------------- MODULE Irq ---------------------------------
(* The interrupts of the X4418: the vectored controller (irq-pl192.c) with  *)
(* a device on its first line and a bank of pins on its second, the bank    *)
(* (irq-s5p4418-gpio.c, irq-s5p4418-gpioalv.c), and interrupt.c, through    *)
(* which drivers ask for the interrupt of a pin with interrupts enabled.    *)
EXTENDS Integers, Sequences, TLAPS, WellFoundedInduction

CONSTANTS
    Bank,           \* "gpio" or "alv": which of the two drivers the bank has
    Pins,           \* offsets in the bank
    MaxEdges,       \* bound on the changes of the pins
    MaxOps          \* bound on the calls of the drivers

ASSUME IrqAssumption ==
    /\ Bank \in {"gpio", "alv"} /\ Pins \subseteq Nat /\ MaxEdges \in Nat /\ MaxOps \in Nat

Device == 0
Parent == 1
NoPin == 0              \* in the steps that concern the whole bank

VARIABLES
    func, data,     \* the handlers of the pins: null_interrupt_function or the driver's
    intenb, detenb, det,    \* GPIO_INTENB, GPIO_DETENB and GPIO_DET
    mode,           \* GPIO_DETMODE: the edges that a pin latches
    level,          \* of the pins
    vic,            \* VIC_INTENABLE
    raised,         \* the device on the first line asks for an interrupt
    chip,           \* the bank: "off", "asked" once it has its parent, "on" in the list of chips
    cpu,            \* the pin whose handler the CPU is in, and what it was called with
    op,             \* what is left of a driver's call
    doing,          \* the function of the bank alive in sleep that is under way
    stage,          \* how far it is: "open", "fell", "rose", "done"
    resets,         \* the functions that a reset of that bank has still to call
    pwrgate,        \* GPIOALV_PWRGATEREG: its registers can be written
    asked,          \* the type of the last request for a pin
    owed,           \* pins whose edge was latched with their interrupt on, not handled since
    crossed,        \* those of them whose edge came while their handler was running
    stale,          \* pins latched without an owner whose interrupt is on
    shut,           \* pins for which the gate was closed while a function had still to write
    edges, ops      \* counted for the bounds
hand == <<func, data>>
regs == <<intenb, detenb, det, mode>>
ghost == <<owed, crossed, stale>>
bank == <<doing, stage, resets, pwrgate, shut>>
vars == <<hand, regs, level, vic, raised, chip, cpu, op, bank, asked, ghost, edges, ops>>

None == <<>>
Lowest(S) == CHOOSE p \in S : \A q \in S : p <= q           \* __ffs()
TypeEdges == [falling |-> {"fall"}, rising |-> {"rise"}, both |-> {"fall", "rise"}]

Init ==
    /\ func = [p \in Pins |-> "null"] /\ data = [p \in Pins |-> "NULL"]
    /\ intenb = {} /\ detenb = {} /\ det = {} /\ mode = [p \in Pins |-> {}]
    /\ level = [p \in Pins |-> 0] /\ vic = {Device} /\ raised = FALSE /\ chip = "off"
    /\ cpu = None /\ op = None /\ asked = [p \in Pins |-> "none"]
    /\ doing = None /\ stage = "open" /\ resets = {} /\ pwrgate = FALSE /\ shut = {}
    /\ owed = {} /\ crossed = {} /\ stale = {} /\ edges = 0 /\ ops = 0

----------------------------------------------------------------------------
(* The hardware                                                             *)

\* A pin changes.  An edge that comes while the handler runs is latched, and then cleared.
Edge(p) ==
    /\ edges < MaxEdges /\ edges' = edges + 1
    /\ level' = [level EXCEPT ![p] = 1 - @]
    /\ LET latched == p \in detenb /\ (IF level[p] = 0 THEN "rise" ELSE "fall") \in mode[p] IN
         /\ det' = IF latched THEN det \cup {p} ELSE det
         /\ owed' = IF latched /\ p \in intenb THEN owed \cup {p} ELSE owed
         /\ crossed' = IF latched /\ cpu # None /\ cpu[1] = p THEN crossed \cup {p} ELSE crossed
         /\ stale' = IF latched /\ p \notin intenb THEN stale \cup {p} ELSE stale
    /\ UNCHANGED <<hand, intenb, detenb, mode, vic, raised, chip, cpu, op, bank, asked, ops>>
Raise ==
    /\ ~raised /\ edges < MaxEdges /\ edges' = edges + 1 /\ raised' = TRUE
    /\ UNCHANGED <<hand, regs, level, vic, chip, cpu, op, bank, asked, ghost, ops>>

\* VIC_IRQSTATUS: the lines that are on and ask
Status ==
    {l \in vic : \/ l = Device /\ raised
                 \/ l = Parent /\ det \cap intenb # {}}

----------------------------------------------------------------------------
(* The dispatch: the controller serves its lowest line, the bank its lowest *)
(* pin that has latched, whether or not the interrupt of that pin is on.    *)

Serving(p) == cpu' = <<p, func[p], data[p]>>
irq_pl192_dispatch ==
    /\ cpu = None /\ Status # {}
    /\ IF Lowest(Status) = Device
       THEN /\ raised' = FALSE                  \* the handler of the device clears its cause
            /\ UNCHANGED <<cpu, owed, crossed>>
       ELSE /\ Serving(Lowest(det)) /\ UNCHANGED raised
            /\ owed' = owed \ {Lowest(det)} /\ crossed' = crossed \ {Lowest(det)}
    /\ UNCHANGED <<hand, regs, level, vic, chip, op, bank, asked, stale, edges, ops>>

\* Who closes the gate takes it from the function that was interrupted.
CloseGate ==
    /\ pwrgate' = FALSE
    /\ shut' = IF doing # None /\ stage # "done" THEN shut \cup {doing[2]} ELSE shut

\* The handler has returned: the latch is cleared, between an opening of the gate and its closing.
HandlerReturns ==
    /\ cpu # None /\ cpu' = None /\ det' = det \ {cpu[1]} /\ stale' = stale \ {cpu[1]}
    /\ CloseGate
    /\ UNCHANGED <<hand, intenb, detenb, mode, level, vic, raised, chip, op, doing, stage, resets, asked, owed,
                   crossed, edges, ops>>

\* An interrupt or another task has been in gpio-s5p4418-alv.c, which has the same gate: a
\* function that is under way finds it closed.
gpio_s5p4418_alv ==
    /\ doing # None /\ CloseGate
    /\ UNCHANGED <<hand, regs, level, vic, raised, chip, cpu, op, doing, stage, resets, asked, ghost, edges, ops>>

----------------------------------------------------------------------------
(* The calls of the drivers, interrupted between any two of their steps     *)

\* request_irq() and free_irq() change the handler, its data, the type and the interrupt in turn.
RequestSteps(p, type) ==
    << <<"func", p, "drv">>, <<"data", p, "own">>, <<"settype", p, type>>, <<"enable", p, type>> >>
FreeSteps_left_on(p) ==
    << <<"func", p, "null">>, <<"data", p, "NULL">>, <<"settype", p, "none">> >>
FreeSteps(p) ==
    << <<"func", p, "null">>, <<"data", p, "NULL">>, <<"settype", p, "none">>, <<"disable", p, "none">> >>
\* A bank resets its pins, asks for its parent, resets them again and enters the list of chips.
Register == << <<"reset", NoPin, "none">>, <<"parent", NoPin, "none">>, <<"reset", NoPin, "none">>, <<"listed", NoPin, "none">> >>
Unregister == << <<"orphan", NoPin, "none">>, <<"unlisted", NoPin, "none">>, <<"reset", NoPin, "none">> >>
Begin(steps) ==
    /\ cpu = None /\ op = None /\ resets = {} /\ doing = None
    /\ ops < MaxOps /\ ops' = ops + 1 /\ op' = steps
    /\ UNCHANGED <<hand, regs, level, vic, raised, chip, cpu, bank, ghost, edges>>
request_irq(p, type) ==
    /\ chip = "on" /\ func[p] = "null" /\ Begin(RequestSteps(p, type))
    /\ asked' = [asked EXCEPT ![p] = type]
free_irq(p) ==
    chip = "on" /\ func[p] # "null" /\ Begin(FreeSteps(p)) /\ UNCHANGED asked
enable_irq(p) ==
    /\ chip = "on" /\ func[p] # "null" /\ p \notin intenb /\ Begin(<< <<"enable", p, "none">> >>)
    /\ UNCHANGED asked
disable_irq(p) ==
    /\ chip = "on" /\ func[p] # "null" /\ p \in intenb /\ Begin(<< <<"disable", p, "none">> >>)
    /\ UNCHANGED asked
register_sub_irqchip ==
    /\ chip = "off" /\ Begin(Register) /\ UNCHANGED asked
unregister_sub_irqchip ==
    /\ chip = "on" /\ \A p \in Pins : func[p] = "null"
    /\ Begin(Unregister) /\ UNCHANGED asked

\* What an owner gives up is not owed to it any more; what is latched then is left over.
GivenUp(p) ==
    /\ owed' = owed \ {p} /\ crossed' = crossed \ {p}
    /\ stale' = IF p \in det THEN stale \cup {p} ELSE stale
Functions == {"settype", "enable", "disable"}
Step ==
    /\ cpu = None /\ op # None /\ op' = Tail(op) /\ resets = {} /\ doing = None
    /\ LET s == Head(op) p == s[2] IN
         /\ s[1] \in Functions => Bank = "gpio"
         /\ resets' = IF s[1] = "reset" /\ Bank = "alv" THEN {"settype", "disable"} \X Pins \X {"none"} ELSE {}
         /\ \/ /\ s[1] = "func" /\ func' = [func EXCEPT ![p] = s[3]]
               /\ IF s[3] = "null" THEN GivenUp(p) ELSE UNCHANGED ghost
               /\ UNCHANGED <<data, regs, vic, chip>>
            \/ /\ s[1] = "data" /\ data' = [data EXCEPT ![p] = s[3]]
               /\ UNCHANGED <<func, regs, vic, chip, ghost>>
            \/ /\ s[1] = "settype" /\ s[3] = "none" /\ detenb' = detenb \ {p}
               /\ UNCHANGED <<hand, intenb, det, mode, vic, chip, ghost>>
            \/ /\ s[1] = "settype" /\ s[3] # "none" /\ detenb' = detenb \cup {p}
               /\ mode' = [mode EXCEPT ![p] = TypeEdges[s[3]]]
               /\ UNCHANGED <<hand, intenb, det, vic, chip, ghost>>
            \/ /\ s[1] = "enable" /\ intenb' = intenb \cup {p}
               /\ UNCHANGED <<hand, detenb, det, mode, vic, chip, ghost>>
            \/ /\ s[1] = "disable" /\ intenb' = intenb \ {p} /\ GivenUp(p)
               /\ UNCHANGED <<hand, detenb, det, mode, vic, chip>>
            \/ /\ s[1] = "reset"
               /\ func' = [q \in Pins |-> "null"] /\ data' = [q \in Pins |-> "NULL"]
               /\ IF Bank = "gpio" THEN detenb' = {} /\ intenb' = {} ELSE UNCHANGED <<detenb, intenb>>
               /\ UNCHANGED <<det, mode, vic, chip, ghost>>
            \/ /\ s[1] = "parent" /\ vic' = vic \cup {Parent} /\ chip' = "asked"
               /\ UNCHANGED <<hand, regs, ghost>>
            \/ /\ s[1] = "listed" /\ chip' = "on" /\ UNCHANGED <<hand, regs, vic, ghost>>
            \/ /\ s[1] = "orphan" /\ vic' = vic \ {Parent} /\ UNCHANGED <<hand, regs, chip, ghost>>
            \/ /\ s[1] = "unlisted" /\ chip' = "off" /\ UNCHANGED <<hand, regs, vic, ghost>>
    /\ UNCHANGED <<level, raised, cpu, doing, stage, pwrgate, shut, asked, edges, ops>>

----------------------------------------------------------------------------
(* A function of the bank alive in sleep opens the gate, writes one register *)
(* after the other and closes the gate.                                     *)

Rest == <<hand, det, level, vic, raised, chip, cpu, asked, edges, ops>>
Opens(s) == doing' = s /\ stage' = "open" /\ pwrgate' = TRUE

\* A reset calls settype() and disable() of pin after pin.
alv_open ==
    /\ Bank = "alv" /\ cpu = None /\ doing = None
    /\ \/ resets = {} /\ op # None /\ Head(op)[1] \in Functions /\ Opens(Head(op)) /\ UNCHANGED resets
       \/ \E s \in resets :
            /\ \A t \in resets : s[2] < t[2] \/ (s[2] = t[2] /\ (t[1] = "settype" => s = t))
            /\ Opens(s) /\ resets' = resets \ {s}
    /\ UNCHANGED <<Rest, intenb, detenb, mode, op, ghost, shut>>

\* A write that finds the gate closed does nothing.
SetBit(reg, p, on) == IF ~pwrgate THEN reg ELSE IF on THEN reg \cup {p} ELSE reg \ {p}
Detects(p, edge, type) ==
    /\ type \in {"falling", "rising"}           \* there is no case for both
    /\ mode' = [mode EXCEPT ![p] = SetBit(@, edge, edge \in TypeEdges[type])]
    /\ UNCHANGED <<intenb, detenb, ghost>>
alv_write ==
    /\ cpu = None /\ doing # None
    /\ LET p == doing[2] type == doing[3] IN
         \/ /\ doing[1] = "settype" /\ stage = "open" /\ stage' = "fell" /\ Detects(p, "fall", type)
         \/ /\ doing[1] = "settype" /\ stage = "fell" /\ stage' = "rose" /\ Detects(p, "rise", type)
         \/ /\ doing[1] = "settype" /\ stage = (IF type \in {"falling", "rising"} THEN "rose" ELSE "open")
            /\ stage' = "done" /\ detenb' = SetBit(detenb, p, type # "none")
            /\ UNCHANGED <<intenb, mode, ghost>>
         \/ /\ doing[1] = "enable" /\ stage = "open" /\ stage' = "done" /\ intenb' = SetBit(intenb, p, TRUE)
            /\ UNCHANGED <<detenb, mode, ghost>>
         \/ /\ doing[1] = "disable" /\ stage = "open" /\ stage' = "done" /\ intenb' = SetBit(intenb, p, FALSE)
            /\ IF pwrgate THEN GivenUp(p) ELSE UNCHANGED ghost
            /\ UNCHANGED <<detenb, mode>>
    /\ UNCHANGED <<Rest, op, doing, resets, pwrgate, shut>>
alv_close ==
    /\ cpu = None /\ doing # None /\ stage = "done" /\ stage' = "open"
    /\ pwrgate' = FALSE /\ doing' = None
    /\ op' = IF op # None /\ Head(op) = doing THEN Tail(op) ELSE op
    /\ UNCHANGED <<Rest, intenb, detenb, mode, resets, ghost, shut>>

Next ==
    \/ \E p \in Pins : Edge(p)
    \/ Raise \/ irq_pl192_dispatch \/ HandlerReturns \/ gpio_s5p4418_alv
    \/ Step \/ alv_open \/ alv_write \/ alv_close
    \/ \E p \in Pins :
         \/ \E type \in DOMAIN TypeEdges : request_irq(p, type)
         \/ free_irq(p) \/ enable_irq(p) \/ disable_irq(p)
    \/ register_sub_irqchip \/ unregister_sub_irqchip

----------------------------------------------------------------------------
(* What a driver that asks for the interrupt of a pin relies on.            *)

TypeOK ==
    /\ func \in [Pins -> {"null", "drv"}] /\ data \in [Pins -> {"NULL", "own"}]
    /\ intenb \subseteq Pins /\ detenb \subseteq Pins /\ det \subseteq Pins
    /\ mode \in [Pins -> SUBSET {"fall", "rise"}] /\ vic \subseteq {Device, Parent}
    /\ chip \in {"off", "asked", "on"} /\ Len(op) <= 4
    /\ stage \in {"open", "fell", "rose", "done"} /\ pwrgate \in BOOLEAN /\ shut \subseteq Pins

\* An edge latched for a driver stays latched until its handler has begun: only one that
\* comes while that handler runs is wiped out when it returns.
NoEdgeLost == \A p \in owed : p \in det \/ p \in crossed

\* The handler of a driver is called with the driver's data, though request_irq() sets the two
\* in two steps with interrupts enabled: only a latch left over from an earlier owner can
\* bring it in between, or an interrupt that could not be switched off when that owner left.
CalledWithItsData == cpu # None /\ cpu[2] = "drv" => cpu[3] = "own" \/ cpu[1] \in stale \cup shut

\* Once a request has returned, the pin latches the edges that were asked for.  In the bank alive
\* in sleep both edges of a pin are those of the request before; and a dispatch, or a call for
\* another pin, that closes the gate while settype() has it open leaves the rest unwritten.
EdgesAsAsked ==
    \A p \in Pins :
        func[p] = "drv" /\ op = None =>
            mode[p] = TypeEdges[asked[p]] \/ (Bank = "alv" /\ asked[p] = "both") \/ p \in shut

\* A bank that is out of the list of chips interrupts nobody: neither does a pin without owner,
\* unless the gate was closed under the function that should have switched it off.
Quiet ==
    op = None => /\ chip # "on" => Parent \notin vic /\ intenb \subseteq shut
                 /\ \A p \in Pins : func[p] = "null" => (p \notin intenb /\ p \notin detenb) \/ p \in shut

\* Every edge latched for a driver is handled, whatever pins latch before it in the bank and
\* however the device on the line before asks, unless it is wiped out or given up.
EdgeIsHandled == \A p \in Pins : p \in owed ~> p \notin owed \/ p \in crossed

IrqSound == TypeOK /\ NoEdgeLost /\ CalledWithItsData /\ EdgesAsAsked /\ Quiet
----------------------------------------------------------------------------
(* The inductive invariant: what is left of a call says what it has done.   *)

Spec == Init /\ [][Next]_vars

Types == {"falling", "rising", "both"}
Typed(p) == mode[p] = TypeEdges[asked[p]] \/ (Bank = "alv" /\ asked[p] = "both") \/ p \in shut

\* What is left of a request for p once its handler is set, and of the release of p.
NoData(p) == << <<"data", p, "own">>, <<"settype", p, asked[p]>>, <<"enable", p, asked[p]>> >>
NoType(p) == << <<"settype", p, asked[p]>>, <<"enable", p, asked[p]>> >>
HasData(p) == << <<"data", p, "NULL">>, <<"settype", p, "none">>, <<"disable", p, "none">> >>
HasType(p) == << <<"settype", p, "none">>, <<"disable", p, "none">> >>
IsOn(p) == << <<"disable", p, "none">> >>

\* Only a bank in the list of chips has calls for its pins.
PinCall(p) ==
    \/ func[p] = "null" /\ asked[p] \in Types /\ op = RequestSteps(p, asked[p])
    \/ func[p] = "drv" /\ asked[p] \in Types /\ op = NoData(p)
    \/ func[p] = "drv" /\ asked[p] \in Types /\ data[p] = "own" /\ op = NoType(p)
    \/ func[p] = "drv" /\ data[p] = "own" /\ op \in {<< <<"enable", p, asked[p]>> >>, << <<"enable", p, "none">> >>}
    \/ func[p] = "drv" /\ op = FreeSteps(p)
    \/ func[p] = "null" /\ op \in {HasData(p), HasType(p)}
    \/ op = IsOn(p)
ChipCall ==
    \/ chip = "off" /\ Parent \notin vic /\ op \in {Register, Tail(Register)}
    \/ chip = "asked" /\ op \in {<< <<"reset", NoPin, "none">>, <<"listed", NoPin, "none">> >>, << <<"listed", NoPin, "none">> >>}
    \/ chip = "on" /\ (\A p \in Pins : func[p] = "null") /\ op = Unregister
    \/ chip = "on" /\ (\A p \in Pins : func[p] = "null") /\ Parent \notin vic /\ op = Tail(Unregister)
    \/ chip = "off" /\ Parent \notin vic /\ op = << <<"reset", NoPin, "none">> >>
CallInv ==
    \/ op = None /\ chip \in {"off", "on"} /\ (chip = "off" => Parent \notin vic)
    \/ chip = "on" /\ \E p \in Pins : PinCall(p)
    \/ ChipCall

\* A pin is on while it has an owner, or one that is about to leave, or if it could not be
\* switched off.
PinInv(p) ==
    /\ func[p] = "drv" => /\ chip = "on" /\ asked[p] \in Types
                          /\ data[p] = "own" \/ op = NoData(p)
                          /\ Typed(p) \/ op \in {NoData(p), NoType(p)}
    /\ p \in detenb => func[p] = "drv" \/ op \in {HasData(p), HasType(p)} \/ p \in shut
    /\ p \in intenb => \/ func[p] = "drv" /\ data[p] = "own"
                       \/ op \in {HasData(p), HasType(p), IsOn(p)}
                       \/ p \in shut

\* A function of the bank alive in sleep finds the gate open as long as it has to write, or its
\* pin is shut; what it has written is what it was called for.
TypeInv(p) ==
    /\ op = NoType(p) /\ func[p] = "drv" /\ asked[p] \in Types /\ doing[3] = asked[p]
    /\ stage = "fell" /\ asked[p] # "both" =>
          ("fall" \in mode[p] <=> "fall" \in TypeEdges[asked[p]]) \/ p \in shut
    /\ stage \in {"rose", "done"} => Typed(p)
DoingInv ==
    doing # None =>
        /\ Bank = "alv" /\ doing \in Functions \X Pins \X (Types \cup {"none"})
        /\ stage = "done" \/ pwrgate \/ doing[2] \in shut
        /\ doing[1] = "settype" /\ doing[3] # "none" => TypeInv(doing[2])
        /\ doing[1] = "settype" /\ doing[3] = "none" /\ stage = "done" => doing[2] \notin detenb \/ doing[2] \in shut
        /\ doing[1] = "enable" => func[doing[2]] = "drv" /\ data[doing[2]] = "own"
        /\ doing[1] = "disable" /\ stage = "done" => doing[2] \notin intenb \/ doing[2] \in shut

\* What is latched is left over or its interrupt is on; and an edge is owed to the
\* handler that runs only if it came after that had begun.
LatchInv ==
    /\ det \subseteq stale \cup intenb
    /\ cpu # None => cpu \in Pins \X {"null", "drv"} \X {"NULL", "own"} /\ (cpu[1] \in owed => cpu[1] \in crossed)

TypesInv ==
    /\ func \in [Pins -> {"null", "drv"}] /\ data \in [Pins -> {"NULL", "own"}]
    /\ intenb \subseteq Pins /\ detenb \subseteq Pins /\ det \subseteq Pins
    /\ mode \in [Pins -> SUBSET {"fall", "rise"}] /\ vic \subseteq {Device, Parent}
    /\ chip \in {"off", "asked", "on"} /\ asked \in [Pins -> Types \cup {"none"}]
    /\ stage \in {"open", "fell", "rose", "done"} /\ pwrgate \in BOOLEAN /\ shut \subseteq Pins
    /\ resets \subseteq {"settype", "disable"} \X Pins \X {"none"}
    /\ Bank = "gpio" => resets = {} /\ shut = {}

IInv == TypesInv /\ CallInv /\ (\A p \in Pins : PinInv(p)) /\ DoingInv /\ LatchInv /\ NoEdgeLost /\ CalledWithItsData

----------------------------------------------------------------------------
(* What a step does.                                                        *)

USE IrqAssumption DEF Device, Parent, None

LEMMA DomainOfTypes == DOMAIN TypeEdges = Types /\ \A type \in Types : TypeEdges[type] \in SUBSET {"fall", "rise"}
BY DEF TypeEdges, Types

\* The parts of what a step leaves alone.
StepKeeps == UNCHANGED <<level, raised, cpu, doing, stage, pwrgate, shut, asked, edges, ops>>

LEMMA FuncStep ==
    ASSUME Step, NEW p, NEW to, Head(op) = <<"func", p, to>>
    PROVE  /\ func' = [func EXCEPT ![p] = to]
           /\ IF to = "null" THEN GivenUp(p) ELSE UNCHANGED ghost
           /\ UNCHANGED <<data, regs, vic, chip>>
BY DEF Step
LEMMA DataStep ==
    ASSUME Step, NEW p, NEW to, Head(op) = <<"data", p, to>>
    PROVE  data' = [data EXCEPT ![p] = to] /\ UNCHANGED <<func, regs, vic, chip, ghost>>
BY DEF Step
LEMMA TypeStep ==
    ASSUME Step, NEW p, NEW to, Head(op) = <<"settype", p, to>>
    PROVE  /\ IF to = "none" THEN detenb' = detenb \ {p} /\ UNCHANGED mode
              ELSE detenb' = detenb \cup {p} /\ mode' = [mode EXCEPT ![p] = TypeEdges[to]]
           /\ UNCHANGED <<hand, intenb, det, vic, chip, ghost>>
BY DEF Step
LEMMA EnableStep ==
    ASSUME Step, NEW p, NEW to, Head(op) = <<"enable", p, to>>
    PROVE  intenb' = intenb \cup {p} /\ UNCHANGED <<hand, detenb, det, mode, vic, chip, ghost>>
BY DEF Step
LEMMA DisableStep ==
    ASSUME Step, NEW p, NEW to, Head(op) = <<"disable", p, to>>
    PROVE  intenb' = intenb \ {p} /\ GivenUp(p) /\ UNCHANGED <<hand, detenb, det, mode, vic, chip>>
BY DEF Step
LEMMA ResetStep ==
    ASSUME Step, Head(op) = <<"reset", NoPin, "none">>
    PROVE  /\ func' = [q \in Pins |-> "null"] /\ data' = [q \in Pins |-> "NULL"]
           /\ IF Bank = "gpio" THEN detenb' = {} /\ intenb' = {} ELSE UNCHANGED <<detenb, intenb>>
           /\ UNCHANGED <<det, mode, vic, chip, ghost>>
BY DEF Step
LEMMA ParentStep ==
    ASSUME Step, Head(op) = <<"parent", NoPin, "none">>
    PROVE  vic' = vic \cup {Parent} /\ chip' = "asked" /\ UNCHANGED <<hand, regs, ghost>>
BY DEF Step
LEMMA ListedStep ==
    ASSUME Step, Head(op) = <<"listed", NoPin, "none">>
    PROVE  chip' = "on" /\ UNCHANGED <<hand, regs, vic, ghost>>
BY DEF Step
LEMMA OrphanStep ==
    ASSUME Step, Head(op) = <<"orphan", NoPin, "none">>
    PROVE  vic' = vic \ {Parent} /\ UNCHANGED <<hand, regs, chip, ghost>>
BY DEF Step
LEMMA UnlistedStep ==
    ASSUME Step, Head(op) = <<"unlisted", NoPin, "none">>
    PROVE  chip' = "off" /\ UNCHANGED <<hand, regs, vic, ghost>>
BY DEF Step
LEMMA StepRest ==
    ASSUME Step
    PROVE  /\ cpu = None /\ op' = Tail(op) /\ StepKeeps /\ doing = None
           /\ Head(op)[1] \in Functions => Bank = "gpio"
           /\ resets' \in {{}, {"settype", "disable"} \X Pins \X {"none"}}
           /\ Bank = "gpio" => resets' = {}
<1>1. Step => resets' = IF Head(op)[1] = "reset" /\ Bank = "alv" THEN {"settype", "disable"} \X Pins \X {"none"} ELSE {}
  BY DEF Step
<1> QED
  BY <1>1 DEF Step, StepKeeps

\* The lowest of the latched pins is one of them.
LEMMA LowestIsOne ==
    ASSUME NEW S \in SUBSET Nat, S # {}
    PROVE  Lowest(S) \in S
<1>1. IsWellFoundedOn(OpToRel(<, Nat), Nat)
  BY NatLessThanWellFounded
<1>2. PICK p \in S : \A q \in S : ~ (<<q, p>> \in OpToRel(<, Nat))
  BY <1>1, WFMin, Zenon
<1>3. \A q \in S : p <= q
  <2>1. \A q \in S : ~ (q < p)
    BY <1>2 DEF OpToRel
  <2> QED
    BY <2>1
<1> QED
  BY <1>2, <1>3 DEF Lowest

-----------------------------------------------------------------------------
(* The invariant holds, and is kept by what is no step of a call.           *)

LEMMA IrqSoundFollows == ASSUME IInv PROVE IrqSound
<1> USE DEF IInv, TypesInv
<1>1. TypeOK
  <2>1. Len(op) <= 4
    <3>1. CASE op = None
      BY <3>1
    <3>2. ASSUME NEW p \in Pins, PinCall(p) PROVE Len(op) <= 4
      <4>1. /\ Len(RequestSteps(p, asked[p])) = 4 /\ Len(NoData(p)) = 3 /\ Len(NoType(p)) = 2
            /\ Len(FreeSteps(p)) = 4 /\ Len(HasData(p)) = 3 /\ Len(HasType(p)) = 2 /\ Len(IsOn(p)) = 1
        BY DEF RequestSteps, NoData, NoType, HasData, HasType, IsOn, FreeSteps
      <4>2. Len(<< <<"enable", p, asked[p]>> >>) = 1 /\ Len(<< <<"enable", p, "none">> >>) = 1
        OBVIOUS
      <4>3. Len(op) \in {1, 2, 3, 4}
        BY <3>2, <4>1, <4>2, Zenon DEF PinCall
      <4>4. \A n \in {1, 2, 3, 4} : n <= 4
        OBVIOUS
      <4> QED
        BY <4>3, <4>4, Zenon
    <3>3. CASE ChipCall
      <4>1. /\ Len(Register) = 4 /\ Len(Tail(Register)) = 3
            /\ Len(Unregister) = 3 /\ Len(Tail(Unregister)) = 2
        BY DEF Register, Unregister
      <4>2. /\ Len(<< <<"reset", NoPin, "none">>, <<"listed", NoPin, "none">> >>) = 2
            /\ Len(<< <<"listed", NoPin, "none">> >>) = 1 /\ Len(<< <<"reset", NoPin, "none">> >>) = 1
        OBVIOUS
      <4>3. Len(op) \in {1, 2, 3, 4}
        BY <3>3, <4>1, <4>2, Zenon DEF ChipCall
      <4>4. \A n \in {1, 2, 3, 4} : n <= 4
        OBVIOUS
      <4> QED
        BY <4>3, <4>4, Zenon
    <3> QED
      BY <3>1, <3>2, <3>3 DEF CallInv
  <2> QED
    BY <2>1 DEF TypeOK
<1>2. NoEdgeLost /\ CalledWithItsData
  OBVIOUS
<1>3. EdgesAsAsked
  BY DEF EdgesAsAsked, PinInv, Typed, NoData, NoType
<1>4. Quiet
  <2>1. SUFFICES ASSUME op = None
                 PROVE  /\ chip # "on" => Parent \notin vic /\ intenb \subseteq shut
                        /\ \A p \in Pins : func[p] = "null" => (p \notin intenb /\ p \notin detenb) \/ p \in shut
    BY DEF Quiet
  <2>2. \A p \in Pins : op \notin {HasData(p), HasType(p), IsOn(p)}
    BY <2>1 DEF HasData, HasType, IsOn
  <2>3. \A p \in Pins : (p \in intenb \/ p \in detenb) => func[p] = "drv" \/ p \in shut
    BY <2>2 DEF PinInv
  <2>4. ASSUME chip # "on" PROVE Parent \notin vic
    BY <2>1, <2>4 DEF CallInv, ChipCall, Register, Unregister
  <2> QED
    BY <2>3, <2>4 DEF PinInv
<1> QED
  BY <1>1, <1>2, <1>3, <1>4 DEF IrqSound

LEMMA InitInv == ASSUME Init PROVE IInv
<1>1. TypesInv
  BY DEF Init, TypesInv, Types
<1>2. CallInv /\ DoingInv /\ \A p \in Pins : PinInv(p)
  BY DEF Init, CallInv, DoingInv, PinInv
<1>3. LatchInv /\ NoEdgeLost /\ CalledWithItsData
  BY DEF Init, LatchInv, NoEdgeLost, CalledWithItsData
<1> QED
  BY <1>1, <1>2, <1>3 DEF IInv

\* What neither a call nor the drivers' state depends on.
LEMMA CallsKept ==
    ASSUME IInv, UNCHANGED <<hand, intenb, detenb, mode, vic, chip, op, asked>>, shut \subseteq shut'
    PROVE  CallInv' /\ \A p \in Pins : PinInv(p)'
<1>1. CallInv'
  BY DEF IInv, CallInv, PinCall, ChipCall, NoData, NoType, HasData, HasType, IsOn, hand
<1>2. \A p \in Pins : PinInv(p)'
  BY DEF IInv, PinInv, Typed, NoData, NoType, HasData, HasType, IsOn, hand
<1> QED
  BY <1>1, <1>2

\* A function that still has to write has the gate open or its pin shut.
LEMMA DoingKept ==
    ASSUME IInv, UNCHANGED <<hand, intenb, detenb, mode, op, asked, doing, stage>>, shut \subseteq shut',
           pwrgate' = pwrgate \/ (doing # None /\ stage # "done" => doing[2] \in shut')
    PROVE  DoingInv'
<1>1. CASE doing = None
  BY <1>1 DEF DoingInv
<1>2. CASE doing # None
  <2>1. DoingInv
    BY DEF IInv
  <2>2. \A p : TypeInv(p) => TypeInv(p)'
    BY DEF TypeInv, Typed, NoType, hand
  <2>3. TypeInv(doing[2]) => TypeInv(doing[2])'
    BY <2>2
  <2> QED
    BY <1>2, <2>1, <2>3 DEF DoingInv, hand
<1> QED
  BY <1>1, <1>2

LEMMA EdgeInv == ASSUME IInv, NEW p \in Pins, Edge(p) PROVE IInv'
<1> USE DEF Edge, hand, bank
<1>1. TypesInv'
  BY DEF IInv, TypesInv
<1>2. CallInv' /\ (\A q \in Pins : PinInv(q)') /\ DoingInv'
  BY CallsKept, DoingKept
<1>3. LatchInv'
  BY DEF IInv, LatchInv
<1>4. NoEdgeLost'
  BY DEF IInv, NoEdgeLost
<1>5. CalledWithItsData'
  BY DEF IInv, CalledWithItsData
<1> QED
  BY <1>1, <1>2, <1>3, <1>4, <1>5 DEF IInv

\* The driver of a latched pin that is not left over has set its data.
LEMMA ServedInv == ASSUME IInv, irq_pl192_dispatch PROVE IInv'
<1> USE DEF irq_pl192_dispatch, hand, regs, bank
<1>1. TypesInv'
  BY DEF IInv, TypesInv
<1>2. CallInv' /\ (\A q \in Pins : PinInv(q)') /\ DoingInv'
  BY CallsKept, DoingKept
<1>3. CASE Lowest(Status) = Device
  BY <1>1, <1>2, <1>3 DEF IInv, LatchInv, NoEdgeLost, CalledWithItsData
<1>4. CASE Lowest(Status) # Device
  <2> DEFINE p == Lowest(det)
  <2>1. Serving(p) /\ owed' = owed \ {p} /\ crossed' = crossed \ {p} /\ det' = det /\ stale' = stale /\ intenb' = intenb /\ shut' = shut
    BY <1>4
  <2>2. det # {}
    <3>1. Status \in SUBSET Nat /\ Status # {}
      BY DEF Status, IInv, TypesInv
    <3>2. Lowest(Status) \in Status
      BY <3>1, LowestIsOne
    <3> QED
      BY <1>4, <3>2 DEF Status
  <2>3. det \subseteq Pins /\ Pins \subseteq Nat
    <3>1. det \subseteq Pins
      BY DEF IInv, TypesInv
    <3> QED
      BY <3>1, IrqAssumption
  <2>4. p \in det /\ p \in Pins
    BY <2>2, <2>3, LowestIsOne
  <2>5. func[p] \in {"null", "drv"} /\ data[p] \in {"NULL", "own"}
    BY <2>4 DEF IInv, TypesInv
  <2>6. func[p] = "drv" => data[p] = "own" \/ p \in stale \cup shut
    <3>1. p \in stale \/ p \in intenb
      BY <2>4 DEF IInv, LatchInv
    <3>2. ASSUME func[p] = "drv", p \in intenb PROVE data[p] = "own" \/ p \in shut
      <4>1. data[p] = "own" \/ op = NoData(p)
        BY <2>4, <3>2 DEF IInv, PinInv
      <4>2. data[p] = "own" \/ op \in {HasData(p), HasType(p), IsOn(p)} \/ p \in shut
        BY <2>4, <3>2 DEF IInv, PinInv
      <4>3. NoData(p) \notin {HasData(p), HasType(p), IsOn(p)}
        BY DEF NoData, HasData, HasType, IsOn
      <4> QED
        BY <4>1, <4>2, <4>3
    <3> QED
      BY <3>1, <3>2
  <2> HIDE DEF p
  <2>7. cpu' = <<p, func[p], data[p]>>
    BY <2>1 DEF Serving
  <2>8. LatchInv'
    BY <2>1, <2>4, <2>5, <2>7 DEF IInv, LatchInv
  <2>9. NoEdgeLost'
    BY <2>1 DEF IInv, NoEdgeLost
  <2>10. CalledWithItsData'
    BY <2>1, <2>6, <2>7 DEF CalledWithItsData
  <2> QED
    BY <1>1, <1>2, <2>8, <2>9, <2>10 DEF IInv
<1> QED
  BY <1>3, <1>4

LEMMA CloseGateShuts ==
    ASSUME IInv, CloseGate
    PROVE  /\ shut \subseteq shut' /\ shut' \subseteq Pins /\ pwrgate' = FALSE /\ (Bank = "gpio" => shut' = {})
           /\ doing # None /\ stage # "done" => doing[2] \in shut'
<1>1. doing # None => Bank = "alv" /\ doing[2] \in Pins
  BY DEF IInv, DoingInv
<1>2. Bank = "alv" => Bank # "gpio"
  OBVIOUS
<1> QED
  BY <1>1, <1>2 DEF IInv, TypesInv, CloseGate

LEMMA ReturnInv == ASSUME IInv, HandlerReturns PROVE IInv'
<1> USE DEF HandlerReturns, hand
<1>0. shut \subseteq shut' /\ shut' \subseteq Pins /\ pwrgate' = FALSE /\ (Bank = "gpio" => shut' = {})
       /\ (doing # None /\ stage # "done" => doing[2] \in shut')
  BY CloseGateShuts
<1>1. TypesInv'
  BY <1>0 DEF IInv, TypesInv
<1>2. CallInv' /\ (\A q \in Pins : PinInv(q)') /\ DoingInv'
  BY <1>0, CallsKept, DoingKept
<1>3. LatchInv' /\ NoEdgeLost' /\ CalledWithItsData'
  BY DEF IInv, LatchInv, NoEdgeLost, CalledWithItsData
<1> QED
  BY <1>1, <1>2, <1>3 DEF IInv

LEMMA GateInv == ASSUME IInv, gpio_s5p4418_alv PROVE IInv'
<1> USE DEF gpio_s5p4418_alv, hand, regs, ghost
<1>0. shut \subseteq shut' /\ shut' \subseteq Pins /\ pwrgate' = FALSE /\ (Bank = "gpio" => shut' = {})
       /\ (doing # None /\ stage # "done" => doing[2] \in shut')
  BY CloseGateShuts
<1>1. TypesInv'
  BY <1>0 DEF IInv, TypesInv
<1>2. CallInv' /\ (\A q \in Pins : PinInv(q)') /\ DoingInv'
  BY <1>0, CallsKept, DoingKept
<1>3. LatchInv' /\ NoEdgeLost' /\ CalledWithItsData'
  BY <1>0 DEF IInv, LatchInv, NoEdgeLost, CalledWithItsData
<1> QED
  BY <1>1, <1>2, <1>3 DEF IInv

-----------------------------------------------------------------------------
(* A call begins.                                                           *)

\* Between two calls nothing is half done.
LEMMA AtRest ==
    ASSUME IInv, op = None, NEW p \in Pins
    PROVE  /\ func[p] = "drv" => chip = "on" /\ asked[p] \in Types /\ data[p] = "own" /\ Typed(p)
           /\ (p \in detenb \/ p \in intenb) => func[p] = "drv" \/ p \in shut
BY DEF IInv, PinInv, NoData, NoType, HasData, HasType, IsOn

\* What the beginning of a call has to show.
LEMMA BeginInv ==
    ASSUME IInv, NEW steps, Begin(steps), CallInv', asked' \in [Pins -> Types \cup {"none"}],
           \A p \in Pins : func[p] = "drv" => asked'[p] = asked[p]
    PROVE  IInv'
<1> USE DEF Begin, hand, regs, ghost, bank
<1>1. TypesInv'
  BY DEF IInv, TypesInv
<1>2. ASSUME NEW p \in Pins PROVE PinInv(p)'
  <2>1. /\ func[p] = "drv" => chip = "on" /\ asked[p] \in Types /\ data[p] = "own" /\ Typed(p)
        /\ (p \in detenb \/ p \in intenb) => func[p] = "drv" \/ p \in shut
    BY AtRest
  <2> QED
    BY <2>1 DEF PinInv, Typed
<1>3. DoingInv' /\ LatchInv' /\ NoEdgeLost' /\ CalledWithItsData'
  BY DEF IInv, DoingInv, LatchInv, NoEdgeLost, CalledWithItsData
<1> QED
  BY <1>1, <1>2, <1>3 DEF IInv

LEMMA BeginPinInv ==
    ASSUME IInv, NEW p \in Pins,
           \/ \E type \in DOMAIN TypeEdges : request_irq(p, type)
           \/ free_irq(p) \/ enable_irq(p) \/ disable_irq(p)
    PROVE  IInv'
<1> USE DEF hand, regs
<1>0. func[p] \in {"null", "drv"} /\ asked \in [Pins -> Types \cup {"none"}]
  BY DEF IInv, TypesInv
<1>1. ASSUME NEW type \in DOMAIN TypeEdges, request_irq(p, type) PROVE IInv'
  <2>1. type \in Types
    BY DomainOfTypes
  <2>2. /\ asked' = [asked EXCEPT ![p] = type] /\ Begin(RequestSteps(p, type))
        /\ chip = "on" /\ func[p] = "null"
    BY <1>1 DEF request_irq
  <2>3. asked' \in [Pins -> Types \cup {"none"}] /\ asked'[p] = type
    BY <1>0, <2>1, <2>2
  <2>4. \A q \in Pins : func[q] = "drv" => asked'[q] = asked[q]
    BY <1>0, <2>2
  <2>5. PinCall(p)'
    BY <2>1, <2>2, <2>3 DEF PinCall, Begin
  <2>6. CallInv'
    BY <2>2, <2>5 DEF CallInv, Begin
  <2> QED
    BY <2>2, <2>3, <2>4, <2>6, BeginInv
<1>2. ASSUME free_irq(p) PROVE IInv'
  <2>1. chip = "on" /\ func[p] = "drv" /\ Begin(FreeSteps(p)) /\ asked' = asked
    BY <1>0, <1>2 DEF free_irq
  <2>2. PinCall(p)'
    BY <2>1 DEF PinCall, Begin, FreeSteps
  <2>3. CallInv'
    BY <2>1, <2>2 DEF CallInv, Begin
  <2> QED
    BY <1>0, <2>1, <2>3, BeginInv
<1>3. ASSUME enable_irq(p) PROVE IInv'
  <2>1. chip = "on" /\ func[p] = "drv" /\ Begin(<< <<"enable", p, "none">> >>) /\ asked' = asked
    BY <1>0, <1>3 DEF enable_irq
  <2>2. data[p] = "own" /\ data' = data /\ op' = << <<"enable", p, "none">> >> /\ func' = func
    BY <2>1, AtRest DEF Begin
  <2>3. PinCall(p)'
    BY <2>1, <2>2 DEF PinCall
  <2>4. CallInv'
    BY <2>1, <2>3 DEF CallInv, Begin
  <2> QED
    BY <1>0, <2>1, <2>4, BeginInv
<1>4. ASSUME disable_irq(p) PROVE IInv'
  <2>1. chip = "on" /\ Begin(<< <<"disable", p, "none">> >>) /\ asked' = asked
    BY <1>4 DEF disable_irq
  <2>2. PinCall(p)'
    BY <2>1 DEF PinCall, Begin, IsOn
  <2>3. CallInv'
    BY <2>1, <2>2 DEF CallInv, Begin
  <2> QED
    BY <1>0, <2>1, <2>3, BeginInv
<1> QED
  BY <1>1, <1>2, <1>3, <1>4

LEMMA BeginChipInv ==
    ASSUME IInv, register_sub_irqchip \/ unregister_sub_irqchip
    PROVE  IInv'
<1> USE DEF hand, regs
<1>0. asked \in [Pins -> Types \cup {"none"}]
  BY DEF IInv, TypesInv
<1>1. ASSUME register_sub_irqchip PROVE IInv'
  <2>1. chip = "off" /\ Begin(Register) /\ asked' = asked
    BY <1>1 DEF register_sub_irqchip
  <2>2. Parent \notin vic
    BY <2>1 DEF Begin, IInv, CallInv, ChipCall, Register, Unregister
  <2>3. ChipCall'
    BY <2>1, <2>2 DEF ChipCall, Begin
  <2> QED
    BY <1>0, <2>1, <2>3, BeginInv DEF CallInv
<1>2. ASSUME unregister_sub_irqchip PROVE IInv'
  <2>1. chip = "on" /\ (\A p \in Pins : func[p] = "null") /\ Begin(Unregister) /\ asked' = asked
    BY <1>2 DEF unregister_sub_irqchip
  <2>2. ChipCall'
    BY <2>1 DEF ChipCall, Begin
  <2> QED
    BY <1>0, <2>1, <2>2, BeginInv DEF CallInv
<1> QED
  BY <1>1, <1>2

-----------------------------------------------------------------------------
(* A call goes on.                                                          *)

\* What a step has to show: nobody is served meanwhile.
LEMMA StepInv ==
    ASSUME IInv, Step, TypesInv', CallInv', \A p \in Pins : PinInv(p)',
           det' \subseteq stale' \cup intenb', NoEdgeLost'
    PROVE  IInv'
<1>1. cpu = None /\ cpu' = None /\ doing' = None
  BY StepRest DEF StepKeeps
<1>2. DoingInv' /\ LatchInv' /\ CalledWithItsData'
  BY <1>1 DEF DoingInv, LatchInv, CalledWithItsData
<1> QED
  BY <1>2 DEF IInv

\* The types of what all steps treat alike.
LEMMA StepTypes ==
    ASSUME IInv, Step
    PROVE  /\ stage' \in {"open", "fell", "rose", "done"} /\ pwrgate' \in BOOLEAN /\ shut' = shut /\ shut' \subseteq Pins
           /\ resets' \subseteq {"settype", "disable"} \X Pins \X {"none"}
           /\ Bank = "gpio" => resets' = {} /\ shut' = {}
<1>1. StepKeeps /\ resets' \in {{}, {"settype", "disable"} \X Pins \X {"none"}} /\ (Bank = "gpio" => resets' = {})
  BY StepRest
<1> QED
  BY <1>1 DEF StepKeeps, IInv, TypesInv

\* A call is about one pin.
LEMMA OtherPins ==
    ASSUME NEW p \in Pins, NEW q \in Pins, p # q,
           op \in {RequestSteps(p, asked[p]), NoData(p), NoType(p), << <<"enable", p, asked[p]>> >>,
                   << <<"enable", p, "none">> >>, FreeSteps(p), HasData(p), HasType(p), IsOn(p)}
    PROVE  op \notin {NoData(q), NoType(q), HasData(q), HasType(q), IsOn(q)}
BY DEF RequestSteps, NoData, NoType, FreeSteps, HasData, HasType, IsOn

\* A function of the bank has returned.
LEMMA FunctionReturned ==
    ASSUME IInv, chip = "on", NEW p \in Pins, PinCall(p), op' = Tail(op), UNCHANGED <<hand, vic, chip, asked, shut>>,
           op \in {NoType(p), << <<"enable", p, asked[p]>> >>, << <<"enable", p, "none">> >>, HasType(p), IsOn(p)},
           \A q \in Pins : q # p => mode'[q] = mode[q] /\ (q \in detenb' => q \in detenb) /\ (q \in intenb' => q \in intenb),
           IF op = NoType(p) THEN Typed(p)' ELSE mode'[p] = mode[p] /\ (p \in detenb' => p \in detenb),
           op = HasType(p) => p \notin detenb \/ p \notin detenb' \/ p \in shut,
           op \in {NoType(p), HasType(p), IsOn(p)} => (p \in intenb' => p \in intenb),
           op = IsOn(p) => p \notin intenb' \/ p \in shut
    PROVE  CallInv' /\ \A q \in Pins : PinInv(q)'
<1> USE DEF hand
<1>0. \A q \in Pins : PinInv(q)
  BY DEF IInv
<1>1. CASE op = NoType(p)
  <2>1. op' = << <<"enable", p, asked[p]>> >>
    BY <1>1 DEF NoType
  <2>2. func[p] = "drv" /\ data[p] = "own" /\ asked[p] \in Types
    BY <1>1 DEF PinCall, RequestSteps, NoData, NoType, FreeSteps, HasData, HasType, IsOn
  <2>3. PinCall(p)'
    BY <2>1, <2>2 DEF PinCall
  <2>4. ASSUME NEW q \in Pins PROVE PinInv(q)'
    <3>1. CASE q = p
      BY <1>0, <1>1, <2>2, <3>1 DEF PinInv
    <3>2. CASE q # p
      BY <1>0, <1>1, <3>2, OtherPins DEF PinInv, Typed
    <3> QED
      BY <3>1, <3>2
  <2> QED
    BY <2>3, <2>4 DEF CallInv
<1>2. CASE op \in {<< <<"enable", p, asked[p]>> >>, << <<"enable", p, "none">> >>}
  <2>1. PICK to : op = << <<"enable", p, to>> >>
    BY <1>2
  <2>2. op' = None
    BY <2>1
  <2>3. op \notin {NoData(p), NoType(p), HasData(p), HasType(p), IsOn(p), RequestSteps(p, asked[p]), FreeSteps(p)}
    BY <2>1 DEF NoData, NoType, HasData, HasType, IsOn, RequestSteps, FreeSteps
  <2>4. func[p] = "drv" /\ data[p] = "own"
    BY <2>3 DEF PinCall
  <2>5. ASSUME NEW q \in Pins PROVE PinInv(q)'
    <3>1. CASE q = p
      BY <1>0, <2>3, <2>4, <3>1 DEF PinInv, Typed
    <3>2. CASE q # p
      BY <1>0, <1>2, <3>2, OtherPins DEF PinInv, Typed
    <3> QED
      BY <3>1, <3>2
  <2> QED
    BY <2>2, <2>5 DEF CallInv
<1>3. CASE op = HasType(p)
  <2>1. op' = IsOn(p)
    BY <1>3 DEF HasType, IsOn
  <2>2. PinCall(p)'
    BY <2>1 DEF PinCall, IsOn
  <2>3. func[p] = "null" /\ op # NoType(p)
    BY <1>3 DEF PinCall, RequestSteps, NoData, NoType, FreeSteps, HasData, HasType, IsOn
  <2>4. ASSUME NEW q \in Pins PROVE PinInv(q)'
    <3>1. CASE q = p
      BY <1>0, <1>3, <2>1, <2>3, <3>1 DEF PinInv, IsOn
    <3>2. CASE q # p
      BY <1>0, <1>3, <3>2, OtherPins DEF PinInv, Typed
    <3> QED
      BY <3>1, <3>2
  <2> QED
    BY <2>2, <2>4 DEF CallInv
<1>4. CASE op = IsOn(p)
  <2>1. op' = None
    BY <1>4 DEF IsOn
  <2>2. op \notin {NoData(p), NoType(p), HasData(p), HasType(p)}
    BY <1>4 DEF NoData, NoType, HasData, HasType, IsOn
  <2>3. ASSUME NEW q \in Pins PROVE PinInv(q)'
    <3>1. CASE q = p
      BY <1>0, <1>4, <2>2, <3>1 DEF PinInv, Typed
    <3>2. CASE q # p
      BY <1>0, <1>4, <3>2, OtherPins DEF PinInv, Typed
    <3> QED
      BY <3>1, <3>2
  <2> QED
    BY <2>1, <2>3 DEF CallInv
<1> QED
  BY <1>1, <1>2, <1>3, <1>4

LEMMA PinStepInv ==
    ASSUME IInv, Step, chip = "on", NEW p \in Pins, PinCall(p)
    PROVE  IInv'
<1> USE DEF hand, regs, ghost
<1>0. /\ cpu = None /\ op' = Tail(op) /\ asked' = asked /\ shut' = shut /\ stage' \in {"open", "fell", "rose", "done"}
      /\ pwrgate' \in BOOLEAN /\ shut' \subseteq Pins /\ resets' \subseteq {"settype", "disable"} \X Pins \X {"none"}
      /\ Bank = "gpio" => resets' = {} /\ shut' = {}
  BY StepRest, StepTypes DEF StepKeeps
<1>1. TypesInv /\ (\A q \in Pins : PinInv(q)) /\ det \subseteq stale \cup intenb /\ NoEdgeLost
  BY DEF IInv, LatchInv
<1>2. CASE func[p] = "null" /\ asked[p] \in Types /\ op = RequestSteps(p, asked[p])
  <2>1. Head(op) = <<"func", p, "drv">> /\ op' = NoData(p)
    BY <1>0, <1>2 DEF RequestSteps, NoData
  <2>2. func' = [func EXCEPT ![p] = "drv"] /\ UNCHANGED ghost /\ UNCHANGED <<data, regs, vic, chip>>
    BY <2>1, FuncStep
  <2>3. TypesInv'
    BY <1>0, <1>1, <2>2 DEF TypesInv
  <2>4. func'[p] = "drv" /\ \A q \in Pins : q # p => func'[q] = func[q]
    BY <1>1, <2>2 DEF TypesInv
  <2>5. CallInv'
    <3>1. PinCall(p)'
      BY <1>0, <1>2, <2>1, <2>4 DEF PinCall, NoData
    <3> QED
      BY <2>2, <3>1 DEF CallInv
  <2>6. ASSUME NEW q \in Pins PROVE PinInv(q)'
    <3>1. CASE q = p
      <4>1. p \in shut \/ (p \notin detenb /\ p \notin intenb)
        BY <1>1, <1>2 DEF PinInv, RequestSteps, HasData, HasType, IsOn
      <4> QED
        BY <1>0, <1>2, <2>1, <2>2, <2>4, <3>1, <4>1 DEF PinInv, NoData
    <3>2. CASE q # p
      BY <1>0, <1>1, <1>2, <2>2, <2>4, <3>2, OtherPins DEF PinInv, Typed
    <3> QED
      BY <3>1, <3>2
  <2> QED
    BY <1>1, <2>2, <2>3, <2>5, <2>6, StepInv DEF NoEdgeLost
<1>3. CASE func[p] = "drv" /\ asked[p] \in Types /\ op = NoData(p)
  <2>1. Head(op) = <<"data", p, "own">> /\ op' = NoType(p)
    BY <1>0, <1>3 DEF NoData, NoType
  <2>2. data' = [data EXCEPT ![p] = "own"] /\ UNCHANGED <<func, regs, vic, chip, ghost>>
    BY <2>1, DataStep
  <2>3. TypesInv'
    BY <1>0, <1>1, <2>2 DEF TypesInv
  <2>4. data'[p] = "own" /\ \A q \in Pins : q # p => data'[q] = data[q]
    BY <1>1, <2>2 DEF TypesInv
  <2>5. CallInv'
    <3>1. PinCall(p)'
      BY <1>0, <1>3, <2>1, <2>2, <2>4 DEF PinCall, NoType
    <3> QED
      BY <2>2, <3>1 DEF CallInv
  <2>6. ASSUME NEW q \in Pins PROVE PinInv(q)'
    <3>1. CASE q = p
      BY <1>0, <1>1, <1>3, <2>1, <2>2, <2>4, <3>1 DEF PinInv, NoType
    <3>2. CASE q # p
      BY <1>0, <1>1, <1>3, <2>2, <2>4, <3>2, OtherPins DEF PinInv, Typed
    <3> QED
      BY <3>1, <3>2
  <2> QED
    BY <1>1, <2>2, <2>3, <2>5, <2>6, StepInv DEF NoEdgeLost
<1>4. CASE func[p] = "drv" /\ asked[p] \in Types /\ data[p] = "own" /\ op = NoType(p)
  <2>1. Head(op) = <<"settype", p, asked[p]>> /\ op' = << <<"enable", p, asked[p]>> >>
    BY <1>0, <1>4 DEF NoType
  <2>2. /\ detenb' = detenb \cup {p} /\ mode' = [mode EXCEPT ![p] = TypeEdges[asked[p]]]
        /\ UNCHANGED <<hand, intenb, det, vic, chip, ghost>>
    BY <1>4, <2>1, TypeStep DEF Types
  <2>3. TypeEdges[asked[p]] \in SUBSET {"fall", "rise"}
    BY <1>4, DomainOfTypes
  <2>4. TypesInv'
    BY <1>0, <1>1, <2>2, <2>3 DEF TypesInv
  <2>5. mode'[p] = TypeEdges[asked[p]] /\ \A q \in Pins : q # p => mode'[q] = mode[q]
    BY <1>1, <2>2 DEF TypesInv
  <2>6. Typed(p)' /\ op \notin {HasType(p), IsOn(p)}
    BY <1>0, <1>4, <2>5 DEF Typed, NoType, HasType, IsOn
  <2>7. CallInv' /\ \A q \in Pins : PinInv(q)'
    BY <1>0, <1>4, <2>2, <2>5, <2>6, FunctionReturned
  <2> QED
    BY <1>1, <2>2, <2>4, <2>7, StepInv DEF NoEdgeLost
<1>5. CASE /\ func[p] = "drv" /\ data[p] = "own"
           /\ op \in {<< <<"enable", p, asked[p]>> >>, << <<"enable", p, "none">> >>}
  <2>1. PICK to : op = << <<"enable", p, to>> >>
    BY <1>5
  <2>2. Head(op) = <<"enable", p, to>> /\ op' = None
    BY <1>0, <2>1
  <2>3. intenb' = intenb \cup {p} /\ UNCHANGED <<hand, detenb, det, mode, vic, chip, ghost>>
    BY <2>2, EnableStep
  <2>4. TypesInv'
    BY <1>0, <1>1, <2>3 DEF TypesInv
  <2>5. op \notin {NoType(p), HasType(p), IsOn(p)}
    BY <2>1 DEF NoType, HasType, IsOn
  <2>6. CallInv' /\ \A q \in Pins : PinInv(q)'
    BY <1>0, <1>5, <2>3, <2>5, FunctionReturned
  <2> QED
    BY <1>1, <2>3, <2>4, <2>6, StepInv DEF NoEdgeLost
<1>6. CASE func[p] = "drv" /\ op = FreeSteps(p)
  <2>1. Head(op) = <<"func", p, "null">> /\ op' = HasData(p)
    BY <1>0, <1>6 DEF FreeSteps, HasData
  <2>2. func' = [func EXCEPT ![p] = "null"] /\ GivenUp(p) /\ UNCHANGED <<data, regs, vic, chip>>
    BY <2>1, FuncStep
  <2>3. TypesInv'
    BY <1>0, <1>1, <2>2 DEF TypesInv
  <2>4. func'[p] = "null" /\ \A q \in Pins : q # p => func'[q] = func[q]
    BY <1>1, <2>2 DEF TypesInv
  <2>5. CallInv'
    <3>1. PinCall(p)'
      BY <2>1, <2>4 DEF PinCall, HasData
    <3> QED
      BY <1>0, <2>2, <3>1 DEF CallInv
  <2>6. ASSUME NEW q \in Pins PROVE PinInv(q)'
    <3>1. CASE q = p
      BY <2>1, <2>4, <3>1 DEF PinInv, HasData
    <3>2. CASE q # p
      BY <1>0, <1>1, <1>6, <2>2, <2>4, <3>2, OtherPins DEF PinInv, Typed
    <3> QED
      BY <3>1, <3>2
  <2>7. det' \subseteq stale' \cup intenb' /\ NoEdgeLost'
    BY <1>1, <2>2 DEF GivenUp, NoEdgeLost
  <2> QED
    BY <2>3, <2>5, <2>6, <2>7, StepInv
<1>7. CASE func[p] = "null" /\ op = HasData(p)
  <2>1. Head(op) = <<"data", p, "NULL">> /\ op' = HasType(p)
    BY <1>0, <1>7 DEF HasData, HasType
  <2>2. data' = [data EXCEPT ![p] = "NULL"] /\ UNCHANGED <<func, regs, vic, chip, ghost>>
    BY <2>1, DataStep
  <2>3. TypesInv'
    BY <1>0, <1>1, <2>2 DEF TypesInv
  <2>4. \A q \in Pins : q # p => data'[q] = data[q]
    BY <1>1, <2>2 DEF TypesInv
  <2>5. CallInv'
    <3>1. PinCall(p)'
      BY <1>7, <2>1, <2>2 DEF PinCall, HasType
    <3> QED
      BY <2>2, <3>1 DEF CallInv
  <2>6. ASSUME NEW q \in Pins PROVE PinInv(q)'
    <3>1. CASE q = p
      BY <1>7, <2>1, <2>2, <3>1 DEF PinInv, HasType
    <3>2. CASE q # p
      BY <1>0, <1>1, <1>7, <2>2, <2>4, <3>2, OtherPins DEF PinInv, Typed
    <3> QED
      BY <3>1, <3>2
  <2> QED
    BY <1>1, <2>2, <2>3, <2>5, <2>6, StepInv DEF NoEdgeLost
<1>8. CASE func[p] = "null" /\ op = HasType(p)
  <2>1. Head(op) = <<"settype", p, "none">> /\ op' = IsOn(p)
    BY <1>0, <1>8 DEF HasType, IsOn
  <2>2. detenb' = detenb \ {p} /\ UNCHANGED mode /\ UNCHANGED <<hand, intenb, det, vic, chip, ghost>>
    BY <2>1, TypeStep
  <2>3. TypesInv'
    BY <1>0, <1>1, <2>2 DEF TypesInv
  <2>4. p \notin detenb' /\ op \notin {NoType(p), IsOn(p)}
    BY <1>8, <2>2 DEF HasType, NoType, IsOn
  <2>5. CallInv' /\ \A q \in Pins : PinInv(q)'
    BY <1>0, <1>8, <2>2, <2>4, FunctionReturned
  <2> QED
    BY <1>1, <2>2, <2>3, <2>5, StepInv DEF NoEdgeLost
<1>9. CASE op = IsOn(p)
  <2>1. Head(op) = <<"disable", p, "none">> /\ op' = None
    BY <1>0, <1>9 DEF IsOn
  <2>2. intenb' = intenb \ {p} /\ GivenUp(p) /\ UNCHANGED <<hand, detenb, det, mode, vic, chip>>
    BY <2>1, DisableStep
  <2>3. TypesInv'
    BY <1>0, <1>1, <2>2 DEF TypesInv
  <2>4. p \notin intenb' /\ op \notin {NoType(p), HasType(p)}
    BY <1>9, <2>2 DEF HasType, NoType, IsOn
  <2>5. CallInv' /\ \A q \in Pins : PinInv(q)'
    BY <1>0, <1>9, <2>2, <2>4, FunctionReturned
  <2>6. det' \subseteq stale' \cup intenb' /\ NoEdgeLost'
    BY <1>1, <2>2 DEF GivenUp, NoEdgeLost
  <2> QED
    BY <2>3, <2>5, <2>6, StepInv
<1> QED
  BY <1>2, <1>3, <1>4, <1>5, <1>6, <1>7, <1>8, <1>9 DEF PinCall

\* While the bank comes or goes no pin has an owner, or latches, but those that are shut.
LEMMA NoOwners ==
    ASSUME IInv, ChipCall
    PROVE  \A p \in Pins : func[p] = "null" /\ (p \in shut \/ (p \notin detenb /\ p \notin intenb))
<1>1. SUFFICES ASSUME NEW p \in Pins
               PROVE  func[p] = "null" /\ (p \in shut \/ (p \notin detenb /\ p \notin intenb))
  OBVIOUS
<1>2. op \notin {HasData(p), HasType(p), IsOn(p)}
  BY DEF ChipCall, Register, Unregister, HasData, HasType, IsOn
<1>3. func[p] \in {"null", "drv"} /\ PinInv(p)
  BY DEF IInv, TypesInv
<1>4. func[p] = "null"
  BY <1>3 DEF ChipCall, PinInv
<1> QED
  BY <1>2, <1>3, <1>4 DEF PinInv

LEMMA ChipStepInv == ASSUME IInv, Step, ChipCall PROVE IInv'
<1> USE DEF hand, regs, ghost
<1>0. /\ cpu = None /\ op' = Tail(op) /\ asked' = asked /\ shut' = shut /\ stage' \in {"open", "fell", "rose", "done"}
      /\ pwrgate' \in BOOLEAN /\ shut' \subseteq Pins /\ resets' \subseteq {"settype", "disable"} \X Pins \X {"none"}
      /\ Bank = "gpio" => resets' = {} /\ shut' = {}
  BY StepRest, StepTypes DEF StepKeeps
<1>1. TypesInv /\ det \subseteq stale \cup intenb /\ NoEdgeLost
  BY DEF IInv, LatchInv
<1>2. \A p \in Pins : func[p] = "null" /\ (p \in shut \/ (p \notin detenb /\ p \notin intenb))
  BY NoOwners
<1>3. CASE op \in {Register, << <<"reset", NoPin, "none">>, <<"listed", NoPin, "none">> >>, << <<"reset", NoPin, "none">> >>}
  <2>1. Head(op) = <<"reset", NoPin, "none">>
    BY <1>3 DEF Register
  <2>2. /\ func' = [q \in Pins |-> "null"] /\ data' = [q \in Pins |-> "NULL"]
        /\ IF Bank = "gpio" THEN detenb' = {} /\ intenb' = {} ELSE UNCHANGED <<detenb, intenb>>
        /\ UNCHANGED <<det, mode, vic, chip, ghost>>
    BY <2>1, ResetStep
  <2>3. TypesInv' /\ \A p \in Pins : PinInv(p)'
    <3>1. detenb' \subseteq detenb /\ intenb' \subseteq intenb
      BY <2>2
    <3>2. TypesInv'
      BY <1>0, <1>1, <2>2, <3>1 DEF TypesInv
    <3>3. \A p \in Pins : func'[p] = "null"
      BY <2>2
    <3> QED
      BY <1>0, <1>2, <3>1, <3>2, <3>3 DEF PinInv
  <2>5. det' \subseteq stale' \cup intenb'
    <3>1. CASE Bank = "gpio"
      <4>1. intenb = {}
        BY <1>1, <1>2, <3>1 DEF TypesInv
      <4> QED
        BY <1>1, <2>2, <4>1
    <3>2. CASE Bank # "gpio"
      BY <1>1, <2>2, <3>2
    <3> QED
      BY <3>1, <3>2
  <2>4. CallInv'
    <3>1. CASE op = Register
      <4>1. chip = "off" /\ Parent \notin vic
        BY <3>1 DEF ChipCall, Register, Unregister
      <4>2. op' = Tail(Register)
        BY <1>0, <3>1
      <4> QED
        BY <2>2, <4>1, <4>2 DEF ChipCall, CallInv
    <3>2. CASE op = << <<"reset", NoPin, "none">>, <<"listed", NoPin, "none">> >>
      <4>1. chip = "asked"
        BY <3>2 DEF ChipCall, Register, Unregister
      <4>2. op' = << <<"listed", NoPin, "none">> >>
        BY <1>0, <3>2
      <4> QED
        BY <2>2, <4>1, <4>2 DEF ChipCall, CallInv
    <3>3. CASE op = << <<"reset", NoPin, "none">> >>
      <4>1. chip = "off" /\ Parent \notin vic
        BY <3>3 DEF ChipCall, Register, Unregister
      <4>2. op' = None
        BY <1>0, <3>3
      <4> QED
        BY <2>2, <4>1, <4>2 DEF CallInv
    <3> QED
      BY <1>3, <3>1, <3>2, <3>3
  <2> QED
    BY <1>1, <2>2, <2>3, <2>4, <2>5, StepInv DEF NoEdgeLost
<1>4. CASE op = Tail(Register)
  <2>1. Head(op) = <<"parent", NoPin, "none">>
    BY <1>4 DEF Register
  <2>2. vic' = vic \cup {Parent} /\ chip' = "asked" /\ UNCHANGED <<hand, intenb, detenb, det, mode, ghost>>
    BY <2>1, ParentStep
  <2>3. TypesInv' /\ \A p \in Pins : PinInv(p)'
    BY <1>0, <1>1, <1>2, <2>2 DEF TypesInv, PinInv
  <2>4. CallInv'
    BY <1>0, <1>4, <2>2 DEF ChipCall, CallInv, Register
  <2> QED
    BY <1>1, <2>2, <2>3, <2>4, StepInv DEF NoEdgeLost
<1>5. CASE op = << <<"listed", NoPin, "none">> >>
  <2>1. Head(op) = <<"listed", NoPin, "none">>
    BY <1>5
  <2>2. chip' = "on" /\ UNCHANGED <<hand, intenb, detenb, det, mode, vic, ghost>>
    BY <2>1, ListedStep
  <2>3. TypesInv' /\ \A p \in Pins : PinInv(p)'
    BY <1>0, <1>1, <1>2, <2>2 DEF TypesInv, PinInv
  <2>4. CallInv'
    BY <1>0, <1>5, <2>2 DEF CallInv
  <2> QED
    BY <1>1, <2>2, <2>3, <2>4, StepInv DEF NoEdgeLost
<1>6. CASE op = Unregister /\ chip = "on"
  <2>1. Head(op) = <<"orphan", NoPin, "none">>
    BY <1>6 DEF Unregister
  <2>2. vic' = vic \ {Parent} /\ UNCHANGED <<hand, intenb, detenb, det, mode, chip, ghost>>
    BY <2>1, OrphanStep
  <2>3. TypesInv' /\ \A p \in Pins : PinInv(p)'
    BY <1>0, <1>1, <1>2, <2>2 DEF TypesInv, PinInv
  <2>4. CallInv'
    BY <1>0, <1>2, <1>6, <2>2 DEF CallInv, ChipCall
  <2> QED
    BY <1>1, <2>2, <2>3, <2>4, StepInv DEF NoEdgeLost
<1>7. CASE op = Tail(Unregister) /\ Parent \notin vic
  <2>1. Head(op) = <<"unlisted", NoPin, "none">>
    BY <1>7 DEF Unregister
  <2>2. chip' = "off" /\ UNCHANGED <<hand, intenb, detenb, det, mode, vic, ghost>>
    BY <2>1, UnlistedStep
  <2>3. TypesInv' /\ \A p \in Pins : PinInv(p)'
    BY <1>0, <1>1, <1>2, <2>2 DEF TypesInv, PinInv
  <2>4. CallInv'
    BY <1>0, <1>7, <2>2 DEF CallInv, ChipCall, Unregister
  <2> QED
    BY <1>1, <2>2, <2>3, <2>4, StepInv DEF NoEdgeLost
<1> QED
  BY <1>3, <1>4, <1>5, <1>6, <1>7 DEF ChipCall

-----------------------------------------------------------------------------
(* The functions of the bank alive in sleep.                                *)

\* A function that a call has still to make is about the pin of the call.
LEMMA FunctionOfCall ==
    ASSUME IInv, op # None, Head(op)[1] \in Functions
    PROVE  /\ chip = "on"
           /\ \E p \in Pins :
                /\ PinCall(p)
                /\ op \in {NoType(p), << <<"enable", p, asked[p]>> >>, << <<"enable", p, "none">> >>, HasType(p), IsOn(p)}
<1>1. ~ChipCall
  BY DEF ChipCall, Register, Unregister, Functions
<1>2. PICK p \in Pins : chip = "on" /\ PinCall(p)
  BY <1>1 DEF IInv, CallInv
<1>3. op \notin {RequestSteps(p, asked[p]), NoData(p), FreeSteps(p), HasData(p)}
  BY DEF RequestSteps, NoData, FreeSteps, HasData, Functions
<1> QED
  BY <1>2, <1>3 DEF PinCall

LEMMA OpenInv == ASSUME IInv, alv_open PROVE IInv'
<1> USE DEF alv_open, Opens, Rest, hand, ghost
<1>1. TypesInv'
  BY DEF IInv, TypesInv
<1>2. CallInv' /\ \A q \in Pins : PinInv(q)'
  BY CallsKept
<1>3. LatchInv' /\ NoEdgeLost' /\ CalledWithItsData'
  BY DEF IInv, LatchInv, NoEdgeLost, CalledWithItsData
<1>4. DoingInv'
  <2>1. CASE op # None /\ Head(op)[1] \in Functions /\ doing' = Head(op)
    <3>1. PICK p \in Pins :
             /\ PinCall(p)
             /\ op \in {NoType(p), << <<"enable", p, asked[p]>> >>, << <<"enable", p, "none">> >>, HasType(p), IsOn(p)}
      BY <2>1, FunctionOfCall
    <3>2. CASE op = NoType(p)
      <4>1. func[p] = "drv" /\ asked[p] \in Types
        BY <3>1, <3>2 DEF PinCall, RequestSteps, NoData, NoType, FreeSteps, HasData, HasType, IsOn
      <4>2. doing' = <<"settype", p, asked[p]>>
        BY <2>1, <3>2 DEF NoType
      <4>3. TypeInv(p)'
        BY <3>2, <4>1, <4>2 DEF TypeInv, NoType
      <4> QED
        BY <3>2, <4>1, <4>2, <4>3 DEF DoingInv, Functions
    <3>3. CASE op \in {<< <<"enable", p, asked[p]>> >>, << <<"enable", p, "none">> >>}
      <4>1. func[p] = "drv" /\ data[p] = "own"
        BY <3>1, <3>3 DEF PinCall, RequestSteps, NoData, NoType, FreeSteps, HasData, HasType, IsOn
      <4>2. PICK to \in Types \cup {"none"} : doing' = <<"enable", p, to>>
        BY <2>1, <3>3 DEF IInv, TypesInv
      <4> QED
        BY <4>1, <4>2 DEF DoingInv, Functions
    <3>4. CASE op = HasType(p)
      <4>1. doing' = <<"settype", p, "none">>
        BY <2>1, <3>4 DEF HasType
      <4> QED
        BY <4>1 DEF DoingInv, Functions
    <3>5. CASE op = IsOn(p)
      <4>1. doing' = <<"disable", p, "none">>
        BY <2>1, <3>5 DEF IsOn
      <4> QED
        BY <4>1 DEF DoingInv, Functions
    <3> QED
      BY <3>1, <3>2, <3>3, <3>4, <3>5
  <2>2. ASSUME NEW t \in resets, doing' = t PROVE DoingInv'
    <3>1. t \in {"settype", "disable"} \X Pins \X {"none"}
      BY DEF IInv, TypesInv
    <3> QED
      BY <2>2, <3>1 DEF DoingInv, Functions
  <2> QED
    BY <2>1, <2>2
<1> QED
  BY <1>1, <1>2, <1>3, <1>4 DEF IInv

\* While the edges of a pin are written, what they are is nobody's concern.
LEMMA OneMode ==
    ASSUME TypesInv, \A q \in Pins : PinInv(q), NEW p \in Pins, TypeInv(p), NEW edges_of, mode' = [mode EXCEPT ![p] = edges_of],
           UNCHANGED <<hand, intenb, detenb, chip, op, asked, shut>>
    PROVE  \A q \in Pins : PinInv(q)'
<1>1. SUFFICES ASSUME NEW q \in Pins PROVE PinInv(q)'
  OBVIOUS
<1>2. CASE q = p
  <2>1. op' = NoType(q)'
    BY <1>2 DEF TypeInv, NoType
  <2> QED
    BY <1>2, <2>1 DEF PinInv, NoData, NoType, HasData, HasType, IsOn, hand
<1>3. CASE q # p
  <2>1. mode'[q] = mode[q]
    BY <1>3 DEF TypesInv
  <2> QED
    BY <2>1 DEF PinInv, Typed, NoData, NoType, HasData, HasType, IsOn, hand
<1> QED
  BY <1>2, <1>3

LEMMA WriteInv == ASSUME IInv, alv_write PROVE IInv'
<1> DEFINE p == doing[2]
<1> USE DEF Rest, hand
<1>0. /\ doing # None /\ cpu = None /\ Bank = "alv" /\ doing \in Functions \X Pins \X (Types \cup {"none"})
      /\ UNCHANGED <<Rest, op, doing, resets, pwrgate, shut>>
  BY DEF IInv, DoingInv, alv_write
<1>1. p \in Pins /\ doing[3] \in Types \cup {"none"} /\ p' = p
  BY <1>0
<1>2. /\ TypesInv /\ CallInv /\ (\A q \in Pins : PinInv(q)) /\ det \subseteq stale \cup intenb /\ NoEdgeLost
      /\ mode[p] \subseteq {"fall", "rise"}
  BY <1>1 DEF IInv, LatchInv, TypesInv
<1>3. CallInv'
  BY <1>0, <1>2 DEF CallInv, PinCall, ChipCall, NoData, NoType, HasData, HasType, IsOn
<1>4. cpu' = None
  BY <1>0
<1>5. /\ stage = "done" \/ pwrgate \/ p \in shut
      /\ doing[1] = "settype" /\ doing[3] # "none" => TypeInv(p)
      /\ doing[1] = "enable" => func[p] = "drv" /\ data[p] = "own"
  BY <1>0 DEF IInv, DoingInv
<1> HIDE DEF p
<1>6. ASSUME TypesInv', \A q \in Pins : PinInv(q)', DoingInv', det' \subseteq stale' \cup intenb', NoEdgeLost'
      PROVE  IInv'
  <2>1. LatchInv' /\ CalledWithItsData'
    BY <1>4, <1>6 DEF LatchInv, CalledWithItsData
  <2> QED
    BY <1>3, <1>6, <2>1 DEF IInv
<1>7. CASE doing[1] = "settype" /\ stage = "open" /\ stage' = "fell" /\ Detects(p, "fall", doing[3])
  <2>1. /\ doing[3] \in {"falling", "rising"} /\ UNCHANGED <<intenb, detenb, ghost>>
        /\ mode' = [mode EXCEPT ![p] = SetBit(mode[p], "fall", "fall" \in TypeEdges[doing[3]])]
    BY <1>7 DEF Detects
  <2>2. SetBit(mode[p], "fall", "fall" \in TypeEdges[doing[3]]) \subseteq {"fall", "rise"}
    BY <1>2 DEF SetBit
  <2>3. TypesInv' /\ mode'[p] = SetBit(mode[p], "fall", "fall" \in TypeEdges[doing[3]])
    BY <1>0, <1>1, <1>2, <1>7, <2>1, <2>2 DEF TypesInv
  <2>4. TypeInv(p)
    BY <1>5, <1>7, <2>1
  <2>5. \A q \in Pins : PinInv(q)'
    BY <1>0, <1>1, <1>2, <2>1, <2>4, OneMode
  <2>6. TypeInv(p)'
    <3>1. ("fall" \in mode'[p] <=> "fall" \in TypeEdges[doing[3]]) \/ p \in shut
      BY <1>5, <1>7, <2>3 DEF SetBit
    <3> QED
      BY <1>0, <1>1, <1>7, <2>4, <3>1 DEF TypeInv, NoType
  <2>7. DoingInv'
    BY <1>0, <1>1, <1>5, <1>7, <2>1, <2>6 DEF DoingInv, p
  <2> QED
    BY <1>0, <1>2, <1>6, <2>1, <2>3, <2>5, <2>7 DEF NoEdgeLost, ghost
<1>8. CASE doing[1] = "settype" /\ stage = "fell" /\ stage' = "rose" /\ Detects(p, "rise", doing[3])
  <2>1. /\ doing[3] \in {"falling", "rising"} /\ UNCHANGED <<intenb, detenb, ghost>>
        /\ mode' = [mode EXCEPT ![p] = SetBit(mode[p], "rise", "rise" \in TypeEdges[doing[3]])]
    BY <1>8 DEF Detects
  <2>2. SetBit(mode[p], "rise", "rise" \in TypeEdges[doing[3]]) \subseteq {"fall", "rise"}
    BY <1>2 DEF SetBit
  <2>3. TypesInv' /\ mode'[p] = SetBit(mode[p], "rise", "rise" \in TypeEdges[doing[3]])
    BY <1>0, <1>1, <1>2, <1>8, <2>1, <2>2 DEF TypesInv
  <2>4. TypeInv(p)
    BY <1>5, <1>8, <2>1
  <2>5. \A q \in Pins : PinInv(q)'
    BY <1>0, <1>1, <1>2, <2>1, <2>4, OneMode
  <2>6. TypeInv(p)'
    <3>1. doing[3] = asked[p] /\ asked[p] # "both"
      BY <2>1, <2>4 DEF TypeInv
    <3>2. ASSUME p \notin shut PROVE mode'[p] = TypeEdges[asked[p]]
      <4>1. pwrgate /\ ("fall" \in mode[p] <=> "fall" \in TypeEdges[asked[p]])
        BY <1>5, <1>8, <2>4, <3>1, <3>2 DEF TypeInv
      <4>2. TypeEdges[asked[p]] \subseteq {"fall", "rise"} /\ asked[p] \in Types
        BY <2>4, DomainOfTypes DEF TypeInv
      <4>3. "fall" \in mode'[p] <=> "fall" \in TypeEdges[asked[p]]
        BY <2>3, <4>1 DEF SetBit
      <4>4. "rise" \in mode'[p] <=> "rise" \in TypeEdges[asked[p]]
        BY <2>3, <3>1, <4>1 DEF SetBit
      <4> QED
        BY <2>2, <2>3, <4>2, <4>3, <4>4
    <3>3. Typed(p)'
      BY <1>0, <1>1, <3>2 DEF Typed
    <3> QED
      BY <1>0, <1>1, <1>8, <2>4, <3>3 DEF TypeInv, NoType
  <2>7. DoingInv'
    BY <1>0, <1>1, <1>5, <1>8, <2>1, <2>6 DEF DoingInv, p
  <2> QED
    BY <1>0, <1>2, <1>6, <2>1, <2>3, <2>5, <2>7 DEF NoEdgeLost, ghost
<1>9. CASE /\ doing[1] = "settype" /\ stage = (IF doing[3] \in {"falling", "rising"} THEN "rose" ELSE "open")
           /\ stage' = "done" /\ detenb' = SetBit(detenb, p, doing[3] # "none") /\ UNCHANGED <<intenb, mode, ghost>>
  <2>1. TypesInv' /\ NoEdgeLost' /\ det' \subseteq stale' \cup intenb'
    BY <1>0, <1>1, <1>2, <1>9 DEF TypesInv, SetBit, NoEdgeLost, ghost
  <2>2. CASE doing[3] = "none"
    <3>1. detenb' \subseteq detenb /\ (p \notin detenb' \/ p \in shut)
      BY <1>5, <1>9, <2>2 DEF SetBit
    <3>2. \A q \in Pins : PinInv(q)'
      BY <1>0, <1>2, <1>9, <3>1 DEF PinInv, Typed, NoData, NoType, HasData, HasType, IsOn
    <3>3. DoingInv'
      BY <1>0, <1>1, <1>5, <1>9, <2>2, <3>1 DEF DoingInv, p
    <3> QED
      BY <1>6, <2>1, <3>2, <3>3
  <2>3. CASE doing[3] # "none"
    <3>1. TypeInv(p)
      BY <1>5, <1>9, <2>3
    <3>2. func[p] = "drv" /\ detenb' \subseteq detenb \cup {p}
      BY <1>9, <3>1 DEF TypeInv, SetBit
    <3>3. \A q \in Pins : PinInv(q)'
      BY <1>0, <1>2, <1>9, <3>2 DEF PinInv, Typed, NoData, NoType, HasData, HasType, IsOn
    <3>4. Typed(p)'
      BY <1>0, <1>1, <1>9, <3>1 DEF TypeInv, Typed, Types
    <3>5. TypeInv(p)'
      BY <1>0, <1>1, <1>9, <3>1, <3>4 DEF TypeInv, NoType
    <3>6. DoingInv'
      BY <1>0, <1>1, <1>5, <1>9, <2>3, <3>5 DEF DoingInv, p
    <3> QED
      BY <1>6, <2>1, <3>3, <3>6
  <2> QED
    BY <2>2, <2>3
<1>10. CASE /\ doing[1] = "enable" /\ stage = "open" /\ stage' = "done" /\ intenb' = SetBit(intenb, p, TRUE)
            /\ UNCHANGED <<detenb, mode, ghost>>
  <2>1. intenb \subseteq intenb' /\ intenb' \subseteq intenb \cup {p}
    BY <1>10 DEF SetBit
  <2>2. TypesInv' /\ NoEdgeLost' /\ det' \subseteq stale' \cup intenb'
    BY <1>0, <1>1, <1>2, <1>10, <2>1 DEF TypesInv, NoEdgeLost, ghost
  <2>3. \A q \in Pins : PinInv(q)'
    BY <1>0, <1>2, <1>5, <1>10, <2>1 DEF PinInv, Typed, NoData, NoType, HasData, HasType, IsOn
  <2>4. DoingInv'
    BY <1>0, <1>1, <1>5, <1>10 DEF DoingInv, p
  <2> QED
    BY <1>6, <2>2, <2>3, <2>4
<1>11. CASE /\ doing[1] = "disable" /\ stage = "open" /\ stage' = "done" /\ intenb' = SetBit(intenb, p, FALSE)
            /\ IF pwrgate THEN GivenUp(p) ELSE UNCHANGED ghost
            /\ UNCHANGED <<detenb, mode>>
  <2>1. intenb' \subseteq intenb /\ (p \notin intenb' \/ p \in shut)
    BY <1>5, <1>11 DEF SetBit
  <2>2. TypesInv'
    BY <1>0, <1>1, <1>2, <1>11, <2>1 DEF TypesInv
  <2>3. NoEdgeLost' /\ det' \subseteq stale' \cup intenb'
    BY <1>0, <1>2, <1>11 DEF GivenUp, SetBit, NoEdgeLost, ghost
  <2>4. \A q \in Pins : PinInv(q)'
    BY <1>0, <1>2, <1>11, <2>1 DEF PinInv, Typed, NoData, NoType, HasData, HasType, IsOn
  <2>5. DoingInv'
    BY <1>0, <1>1, <1>5, <1>11, <2>1 DEF DoingInv, p
  <2> QED
    BY <1>6, <2>2, <2>3, <2>4, <2>5
<1> QED
  BY <1>7, <1>8, <1>9, <1>10, <1>11 DEF alv_write, p

LEMMA CloseInv == ASSUME IInv, alv_close PROVE IInv'
<1> USE DEF Rest, hand, ghost
<1>1. /\ doing # None /\ doing' = None /\ stage = "done" /\ UNCHANGED <<Rest, intenb, detenb, mode, resets, ghost, shut>>
      /\ op' = IF op # None /\ Head(op) = doing THEN Tail(op) ELSE op
  BY DEF alv_close
<1>2. TypesInv'
  BY DEF IInv, TypesInv, alv_close
<1>3. DoingInv' /\ LatchInv' /\ NoEdgeLost' /\ CalledWithItsData'
  BY <1>1 DEF IInv, DoingInv, LatchInv, NoEdgeLost, CalledWithItsData
<1>4. CallInv' /\ \A q \in Pins : PinInv(q)'
  <2>1. CASE op # None /\ Head(op) = doing
    <3>1. doing \in Functions \X Pins \X (Types \cup {"none"}) /\ DoingInv
      BY <1>1 DEF IInv, DoingInv
    <3>2. chip = "on" /\ op' = Tail(op)
      BY <1>1, <2>1, <3>1, FunctionOfCall
    <3>3. PICK p \in Pins :
             /\ PinCall(p)
             /\ op \in {NoType(p), << <<"enable", p, asked[p]>> >>, << <<"enable", p, "none">> >>, HasType(p), IsOn(p)}
      BY <2>1, <3>1, FunctionOfCall
    <3>4. op = NoType(p) => Typed(p)'
      <4>1. SUFFICES ASSUME op = NoType(p) PROVE Typed(p)'
        OBVIOUS
      <4>2. doing = <<"settype", p, asked[p]>> /\ asked[p] # "none"
        BY <2>1, <3>3, <4>1 DEF NoType, PinCall, RequestSteps, NoData, FreeSteps, HasData, HasType, IsOn, Types
      <4>3. TypeInv(p)
        BY <1>1, <3>1, <4>2 DEF DoingInv
      <4> QED
        BY <1>1, <4>3 DEF TypeInv, Typed
    <3>5. op = HasType(p) => p \notin detenb \/ p \in shut
      <4>1. SUFFICES ASSUME op = HasType(p) PROVE p \notin detenb \/ p \in shut
        OBVIOUS
      <4>2. doing = <<"settype", p, "none">>
        BY <2>1, <4>1 DEF HasType
      <4> QED
        BY <1>1, <3>1, <4>2 DEF DoingInv
    <3>6. op = IsOn(p) => p \notin intenb \/ p \in shut
      <4>1. SUFFICES ASSUME op = IsOn(p) PROVE p \notin intenb \/ p \in shut
        OBVIOUS
      <4>2. doing = <<"disable", p, "none">>
        BY <2>1, <4>1 DEF IsOn
      <4> QED
        BY <1>1, <3>1, <4>2 DEF DoingInv
    <3> QED
      BY <1>1, <3>2, <3>3, <3>4, <3>5, <3>6, FunctionReturned
  <2>2. CASE ~(op # None /\ Head(op) = doing)
    BY <1>1, <2>2, CallsKept
  <2> QED
    BY <2>1, <2>2
<1> QED
  BY <1>2, <1>3, <1>4 DEF IInv

-----------------------------------------------------------------------------
(* The theorem.                                                             *)

LEMMA NextInv == ASSUME IInv, [Next]_vars PROVE IInv'
<1>1. ASSUME UNCHANGED vars PROVE IInv'
  <2>1. CallInv' /\ (\A p \in Pins : PinInv(p)') /\ DoingInv'
    BY <1>1, CallsKept, DoingKept DEF vars, hand, regs, bank
  <2> QED
    BY <1>1, <2>1 DEF vars, hand, regs, bank, ghost, IInv, TypesInv, LatchInv, NoEdgeLost, CalledWithItsData
<1>2. ASSUME Raise PROVE IInv'
  <2>1. CallInv' /\ (\A p \in Pins : PinInv(p)') /\ DoingInv'
    BY <1>2, CallsKept, DoingKept DEF Raise, hand, regs, bank
  <2> QED
    BY <1>2, <2>1 DEF Raise, hand, regs, bank, ghost, IInv, TypesInv, LatchInv, NoEdgeLost, CalledWithItsData
<1>3. ASSUME Step PROVE IInv'
  <2>1. CallInv /\ op # None
    BY <1>3 DEF IInv, Step
  <2> QED
    BY <1>3, <2>1, PinStepInv, ChipStepInv DEF CallInv
<1> QED
  BY <1>1, <1>2, <1>3, EdgeInv, ServedInv, ReturnInv, GateInv, OpenInv, WriteInv, CloseInv, BeginPinInv, BeginChipInv DEF Next

\* With calls interrupted between any two of their steps: no edge latched for a driver is
\* lost but one that comes while its handler runs, a handler gets its driver's data unless
\* what is latched is left over from an earlier owner, the edges are the ones asked for,
\* and a pin without owner or a bank that is gone interrupts nobody.  Excepted are the pins
\* for which the gate of the bank alive in sleep was closed under a function.
THEOREM InterruptsReachTheirOwners == Spec => []IrqSound
<1>1. Init => IInv
  BY InitInv
<1>2. IInv /\ [Next]_vars => IInv'
  BY NextInv
<1>3. IInv => IrqSound
  BY IrqSoundFollows
<1> QED
  BY <1>1, <1>2, <1>3, PTL DEF Spec
=============================================================================
