-------------------------------- MODULE Input --------------------------------
(* The input events of core/event.c between the drivers that push them and  *)
(* the task that pumps them: the touch screen ts-gslx680.c, whose interrupt *)
(* reads the fingers over the bus, and key-gpio-polled.c, whose timer reads *)
(* the pins.  The queue is that of lib/libx/fifo.c (Fifo), whose size is a  *)
(* whole number of events; what does not fit is dropped without a word.     *)
EXTENDS Integers, Sequences, SequencesExt, TLC

CONSTANTS
    Fingers,        \* 0..maximum-fingers - 1: the indices of node[]
    Keys, ActiveLow,
    Places,         \* coordinates
    Words,          \* the registers the firmware writes, in order
    CONFIG_EVENT_FIFO_LENGTH,
    MaxMute,        \* bound on the writes of the probe that fail
    Up, Nowhere     \* no finger; no coordinates yet (node[] is zeroed)

InputAssumption ==
    /\ Fingers \subseteq Nat /\ Keys \cap Fingers = {} /\ ActiveLow \subseteq Keys
    /\ Up \notin Places /\ Nowhere \notin Places \cup {Up}
    /\ CONFIG_EVENT_FIFO_LENGTH \in Nat \ {0} /\ Words \in Seq(Nat) /\ MaxMute \in Nat

VARIABLES
    boot,           \* the writes of the probe that are left; <<>> once it is registered
    chip,           \* [halted, loaded, hot]: the controller; hot: a word came while it ran
    mute,           \* writes of the probe that have failed
    panel, edge,    \* the fingers on the glass; the interrupt is pending
    node,           \* pdat->node[]
    level, keys,    \* the pins; keys[i].state
    polling,        \* the timer is armed
    fifo,           \* __event_fifo
    app,            \* what a reader of the events makes of them
    failed,         \* the last read of the fingers failed
    still,          \* fingers that came down where the last one left
    lost, torn      \* whose last event, whose any event did not fit (or a key was down at the probe)
probe == <<boot, chip, mute>>
touch == <<panel, edge, node, failed, still>>
key == <<level, keys, polling>>
queue == <<fifo, lost, torn>>
vars == <<probe, touch, key, queue, app>>

Contacts == Fingers \cup Keys
Event(c, type, at) == [c |-> c, type |-> type, at |-> at]

Write(reg, val) == <<[reg |-> reg, val |-> val]>>
gslx680_clear == Write("e0", "halt") \o Write("80", "clear") \o Write("e4", "clock") \o Write("e0", "run")
gslx680_reset == Write("e0", "halt") \o Write("e4", "clock") \o Write("bc", "zero") \o Write("bd", "zero")
                 \o Write("be", "zero") \o Write("bf", "zero")
gslx680_startup == Write("e0", "run")
firmware == [i \in 1..Len(Words) |-> [reg |-> "word", val |-> Words[i]]]

ts_gslx680_probe == gslx680_clear \o gslx680_reset \o firmware \o gslx680_startup \o gslx680_reset \o gslx680_startup

Init ==
    /\ boot = ts_gslx680_probe /\ chip = [halted |-> FALSE, loaded |-> <<>>, hot |-> FALSE] /\ mute = 0
    /\ panel = [f \in Fingers |-> Up] /\ edge = FALSE
    /\ node = [f \in Fingers |-> [at |-> Nowhere, press |-> FALSE]]
    /\ level \in [Keys -> BOOLEAN] /\ keys = level /\ polling = TRUE
    /\ fifo = <<>> /\ app = [c \in Contacts |-> IF c \in Keys THEN FALSE ELSE Up]
    /\ failed = FALSE /\ still = {} /\ lost = {k \in Keys : level[k] # (k \in ActiveLow)} /\ torn = lost

----------------------------------------------------------------------------
(* The probe                                                                *)

\* One write.  gslx680_load_firmware() gives up at the first one that fails;
\* the others, and its own result, are not looked at.
gslx680_write(ok) ==
    /\ boot # <<>> /\ (~ok => mute < MaxMute)
    /\ LET w == Head(boot) IN
         /\ boot' = IF ok \/ w.reg # "word" THEN Tail(boot) ELSE SelectSeq(boot, LAMBDA v : v.reg # "word")
         /\ chip' = CASE ~ok -> chip
                      [] ok /\ w.reg = "e0" -> [chip EXCEPT !.halted = w.val = "halt"]
                      [] ok /\ w.reg = "word" -> [chip EXCEPT !.loaded = Append(@, w.val), !.hot = @ \/ ~chip.halted]
                      [] OTHER -> chip
    /\ mute' = IF ok THEN mute ELSE mute + 1
    /\ UNCHANGED <<touch, key, queue, app>>

----------------------------------------------------------------------------
(* The queue                                                                *)

\* push_event() for each of a sequence of events, with no reader in between.
push_event(events) ==
    LET room == CONFIG_EVENT_FIFO_LENGTH - Len(fifo)
        n == IF Len(events) < room THEN Len(events) ELSE room
        missed == {events[i].c : i \in (n + 1)..Len(events)}
    IN  /\ fifo' = fifo \o SubSeq(events, 1, n)
        /\ lost' = (lost \ {events[i].c : i \in 1..n}) \cup missed
        /\ torn' = torn \cup missed

Heard(a, e) ==
    [a EXCEPT ![e.c] = CASE e.type \in {"KEY_DOWN", "KEY_UP"} -> e.type = "KEY_DOWN"
                         [] e.type = "TOUCH_END" -> Up
                         [] OTHER -> e.at]
pump_event ==
    /\ fifo # <<>> /\ fifo' = Tail(fifo)
    /\ app' = Heard(app, Head(fifo))
    /\ UNCHANGED <<probe, touch, key, lost, torn>>

----------------------------------------------------------------------------
(* The touch screen                                                         *)

\* A finger comes, moves or leaves: the controller raises its line.
Finger(f, at) ==
    /\ boot = <<>> /\ panel[f] # at
    /\ panel' = [panel EXCEPT ![f] = at] /\ edge' = TRUE
    /\ UNCHANGED <<probe, node, failed, still, key, queue, app>>

InOrder(S) == SetToSortSeq(S, <)
Came(f) == panel[f] # Up
Events(S, type) == LET s == InOrder(S) IN [i \in 1..Len(s) |-> Event(s[i], type, node[s[i]].at)]

\* What the two loops of the interrupt push: first the fingers reported that
\* are not where they were, then those pressed that were not reported.
TouchEvents_moved ==
    LET s == InOrder({f \in Fingers : Came(f) /\ node[f].at # panel[f]})
    IN  [i \in 1..Len(s) |-> Event(s[i], IF node[s[i]].press THEN "TOUCH_MOVE" ELSE "TOUCH_BEGIN", panel[s[i]])]
TouchEvents ==
    TouchEvents_moved \o Events({f \in Fingers : ~Came(f) /\ node[f].press}, "TOUCH_END")

NodesAfter ==
    [f \in Fingers |-> IF Came(f) THEN [at |-> panel[f], press |-> node[f].press \/ node[f].at # panel[f]]
                                  ELSE [node[f] EXCEPT !.press = FALSE]]

gslx680_interrupt(ok) ==
    /\ edge /\ boot = <<>> /\ edge' = FALSE /\ failed' = ~ok
    /\ IF ok THEN /\ node' = NodesAfter /\ push_event(TouchEvents)
                  /\ still' = {f \in Fingers : Came(f) /\ node[f].at = panel[f] /\ (~node[f].press \/ f \in still)}
             ELSE UNCHANGED <<node, queue, still>>
    /\ UNCHANGED <<probe, panel, key, app>>

----------------------------------------------------------------------------
(* The polled keys                                                          *)

Pressed(k) == level[k] # (k \in ActiveLow)
Turn(k) ==
    /\ level' = [level EXCEPT ![k] = ~@]
    /\ UNCHANGED <<probe, touch, keys, polling, queue, app>>

KeyEvents == LET s == SetToSeq({k \in Keys : level[k] # keys[k]})
             IN  [i \in 1..Len(s) |-> Event(s[i], IF Pressed(s[i]) THEN "KEY_DOWN" ELSE "KEY_UP", Up)]
key_gpio_polled_timer_function ==
    /\ polling /\ push_event(KeyEvents) /\ keys' = level
    /\ UNCHANGED <<level, polling, probe, touch, app>>

key_gpio_polled_suspend == polling /\ polling' = FALSE /\ UNCHANGED <<level, keys, probe, touch, queue, app>>
key_gpio_polled_resume == ~polling /\ polling' = TRUE /\ UNCHANGED <<level, keys, probe, touch, queue, app>>

Next ==
    \/ \E ok \in BOOLEAN : gslx680_write(ok) \/ gslx680_interrupt(ok)
    \/ pump_event
    \/ \E f \in Fingers, at \in Places \cup {Up} : Finger(f, at)
    \/ \E k \in Keys : Turn(k)
    \/ key_gpio_polled_timer_function
    \/ key_gpio_polled_suspend \/ key_gpio_polled_resume

----------------------------------------------------------------------------
(* What the input events promise to the task that reads them.               *)

TypeOK ==
    /\ Len(fifo) <= CONFIG_EVENT_FIFO_LENGTH
    /\ \A i \in DOMAIN fifo : fifo[i].c \in Contacts
    /\ node \in [Fingers -> [at : Places \cup {Nowhere}, press : BOOLEAN]]
    /\ app \in [Fingers \cup Keys -> Places \cup {Up} \cup BOOLEAN] /\ keys \in [Keys -> BOOLEAN]
    /\ lost \subseteq torn

\* A word of the firmware reaches a controller that is halted: the probe
\* stops it before it loads it, unless a write before has failed.
LoadedHalted == (mute = 0) => ~chip.hot

\* Once registered, the controller has the firmware, all of it in order.
LoadedWhole == (boot = <<>> /\ mute = 0) => chip.loaded = Words

\* Who has read all events knows what the drivers know: where each finger
\* is, and which keys are held, but for contacts whose last event was lost.
Told ==
    LET end == FoldLeft(Heard, app, fifo) IN
    \A c \in Contacts \ lost :
      end[c] = CASE c \in Keys -> keys[c] # (c \in ActiveLow)
                 [] c \in Fingers /\ node[c].press -> node[c].at
                 [] OTHER -> Up

\* A reader never hears of a touch that moves or ends and did not begin, nor
\* of a beginning or a key twice, but for contacts that lost an event.
Alternates ==
    \A e \in {fifo[i] : i \in DOMAIN fifo \cap {1}} : (pump_event /\ e.c \notin torn) =>
         CASE e.type = "TOUCH_BEGIN" -> app[e.c] = Up
           [] e.type = "TOUCH_MOVE" -> app[e.c] \in Places \ {e.at}
           [] e.type = "TOUCH_END" -> app[e.c] = e.at
           [] OTHER -> app[e.c] # app'[e.c]

\* When no interrupt is pending the driver has the fingers that are on the
\* glass, and no other: but a read that failed is not tried again, and a
\* finger that comes down exactly where it left is not noticed.
SeesFingers ==
    (~edge /\ ~failed) =>
      \A f \in Fingers : /\ node[f].press = (panel[f] # Up /\ f \notin still)
                         /\ node[f].press => node[f].at = panel[f]

\* A key that is held, and polled, is heard of: unless its event was lost.
Waits(k) == Pressed(k) /\ polling /\ k \notin lost

InputTrue == TypeOK /\ LoadedHalted /\ LoadedWhole /\ Told /\ SeesFingers
=============================================================================
