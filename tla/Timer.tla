------------------------------- MODULE Timer -------------------------------
(***************************************************************************)
(* Timers: kernel/time/timer.c on the clock event that drives it,          *)
(* drivers/clockevent/clockevent.c and the one-shot hardware counter of    *)
(* the x4418 (mach-x4418/driver/ce-samsung-timer.c).                       *)
(*                                                                         *)
(* timer_start() and timer_cancel() run with interrupts masked, and so     *)
(* does timer_event_handler() with all the callbacks it makes.  What can   *)
(* be cut is the call that a task makes: timer_start_now() reads the clock *)
(* first, and the task may lose the CPU before timer_start() masks         *)
(* interrupts.  Time passes everywhere.                                    *)
(***************************************************************************)
EXTENDS Integers

CONSTANTS
    Timers,          \* the struct timer_t of the drivers
    Keeper,          \* the one of the clock source, always running
    NoTimer,         \* NULL
    Callers,         \* the tasks that start timers
    Intervals,       \* the intervals drivers ask for
    KeeperInterval,  \* cs->keeper.interval
    Period,          \* the time of one count of the hardware counter
    MinDelta,        \* ce->min_delta_ns, at least one count
    MaxDelta,        \* ce->max_delta_ns
    MaxLag,          \* the longest that one run of the handler can take
    Ahead,           \* how far ahead of the clock a task can read it
    Prompt           \* TRUE: no task is kept from timer_start() past the expiry

ASSUME TimerAssumption ==
    /\ Keeper \in Timers /\ NoTimer \notin Timers
    /\ Intervals \subseteq Nat /\ KeeperInterval \in Nat \ {0}
    /\ Period \in Nat \ {0} /\ MinDelta \in Nat /\ MaxDelta \in Nat
    /\ Period <= MinDelta /\ MinDelta <= MaxDelta
    /\ MaxLag \in Nat /\ Ahead \in Nat /\ Prompt \in BOOLEAN

INACTIVE == "TIMER_STATE_INACTIVE"
ENQUEUED == "TIMER_STATE_ENQUEUED"
CALLBACK == "TIMER_STATE_CALLBACK"

VARIABLES
    clock,    \* what ktime_get() returns with interrupts masked
    timer,    \* struct timer_t: state and expires
    base,     \* struct timer_base_t: the tree, as a set, and the cached first timer
    ce,       \* the counter: armed, when it reaches 0, its interrupt pending
    calls,    \* timer_start_now() calls that have read the clock and not gone on
    handler   \* timer_event_handler(): active, its now, the timer it calls back

vars == <<clock, timer, base, ce, calls, handler>>

-----------------------------------------------------------------------------
(* The clock event.                                                        *)

\* ktime_add_safe(), which saturates after 292 years.
ktime_add_safe(a, b) == a + b

\* The counter counts whole periods.
Counted(delta) == delta - (delta % Period)

\* clockevent_set_event_next() and ce_samsung_timer_next(): nothing happens if
\* the expiry has passed; the counter starts now, whatever now the caller says.
clockevent_set_event_next(e, now, expires) ==
    IF expires < now THEN e
    ELSE LET capped == IF expires - now > MaxDelta THEN MaxDelta ELSE expires - now
             delta == IF capped < MinDelta THEN MinDelta ELSE capped
         IN  [e EXCEPT !.armed = TRUE, !.at = clock + Counted(delta)]

-----------------------------------------------------------------------------
(* The tree.  It is ordered by expiry; timers of equal expiry are in the   *)
(* order of their insertion, which is not kept here: any may come next.    *)

Later(b, tm, t) == {u \in b.head \ {t} : tm[u].expires >= tm[t].expires}

rb_next(b, tm, t) ==
    IF Later(b, tm, t) = {} THEN {NoTimer}
    ELSE {u \in Later(b, tm, t) :
            \A v \in Later(b, tm, t) : tm[u].expires <= tm[v].expires}

\* (mutant: the first timer is cached past a new earlier one)
add_timer_uncached(b, tm, t) ==
    IF tm[t].state # INACTIVE THEN b
    ELSE [head |-> b.head \cup {t},
          next |-> IF b.next = NoTimer THEN t ELSE b.next]

\* The base after add_timer().
add_timer(b, tm, t) ==
    IF tm[t].state # INACTIVE THEN b
    ELSE [head |-> b.head \cup {t},
          next |-> IF b.next = NoTimer \/ tm[t].expires < tm[b.next].expires
                   THEN t ELSE b.next]

\* The bases that del_timer() can leave.
del_timer(b, tm, t) ==
    IF tm[t].state # ENQUEUED THEN {b}
    ELSE {[head |-> b.head \ {t}, next |-> n] :
            n \in IF b.next = t THEN rb_next(b, tm, t) ELSE {b.next}}

\* What timer_start() and timer_cancel() begin with, del_timer() having left b:
\* the counter is set for the new first timer if t was the first.
after_del_timer(b, t) ==
    IF timer[t].state = ENQUEUED /\ base.next = t /\ b.next # NoTimer
    THEN clockevent_set_event_next(ce, clock, timer[b.next].expires)
    ELSE ce

Unqueued(t) == IF timer[t].state = ENQUEUED THEN INACTIVE ELSE timer[t].state

-----------------------------------------------------------------------------
(* The calls of the drivers.                                               *)

\* timer_start(), with interrupts masked.
timer_start(t, now, interval) ==
    LET expires == ktime_add_safe(now, interval)
        With(s) == [timer EXCEPT ![t] = [state |-> s, expires |-> expires]]
        added == Unqueued(t) = INACTIVE
    IN  \E b \in del_timer(base, timer, t) :
            /\ base' = add_timer(b, With(Unqueued(t)), t)
            /\ timer' = With(IF added THEN ENQUEUED ELSE Unqueued(t))
            /\ ce' = IF added /\ base'.next = t
                     THEN clockevent_set_event_next(after_del_timer(b, t), clock, expires)
                     ELSE after_del_timer(b, t)

\* A task calls timer_start_now(), up to the return of ktime_get().  It adds
\* keeper.nsec when its sequence loop is over: if the keeper runs in between,
\* the time is ahead by what the keeper has added ...
timer_start_now(c, t, interval) ==
    /\ ~handler.active
    /\ \A call \in calls : call.caller # c
    /\ \E now \in clock .. clock + Ahead :
         calls' = calls \cup
             {[caller |-> c, timer |-> t, now |-> now, interval |-> interval]}
    /\ UNCHANGED <<clock, timer, base, ce, handler>>

\* ... and goes on.
timer_start_locked(call) ==
    /\ ~handler.active
    /\ timer_start(call.timer, call.now, call.interval)
    /\ calls' = calls \ {call}
    /\ UNCHANGED <<clock, handler>>

timer_cancel(t) ==
    /\ ~handler.active
    /\ \E b \in del_timer(base, timer, t) :
        /\ base' = b
        /\ ce' = after_del_timer(b, t)
    /\ timer' = [timer EXCEPT ![t].state = Unqueued(t)]
    /\ UNCHANGED <<clock, calls, handler>>

-----------------------------------------------------------------------------
(* The interrupt.                                                          *)

\* ce_samsung_timer_interrupt(), up to the ktime_get() of timer_event_handler().
interrupt ==
    /\ ce.pending /\ ~handler.active
    /\ ce' = [ce EXCEPT !.pending = FALSE]
    /\ handler' = [active |-> TRUE, now |-> clock, timer |-> NoTimer]
    /\ UNCHANGED <<clock, timer, base, calls>>

\* (mutant: the first timer is called back whatever its expiry)
Due_always == base.next # NoTimer

Due == base.next # NoTimer /\ handler.now >= timer[base.next].expires

\* One round of the loop, up to the call of timer->function ...
timer_event_call ==
    /\ handler.active /\ handler.timer = NoTimer /\ Due
    /\ base' \in del_timer(base, timer, base.next)
    /\ timer' = [timer EXCEPT ![base.next].state = CALLBACK]
    /\ handler' = [handler EXCEPT !.timer = base.next]
    /\ UNCHANGED <<clock, ce, calls>>

\* ... which may start another driver's timer (a buzzer or a led on pwm-gpio) ...
callback_start(t, interval) ==
    /\ handler.timer # NoTimer /\ t # handler.timer
    /\ timer_start(t, clock, interval)
    /\ UNCHANGED <<clock, calls, handler>>

\* ... and returns 0 ...
callback_stop ==
    /\ handler.timer \notin {NoTimer, Keeper}
    /\ timer' = [timer EXCEPT ![handler.timer].state = INACTIVE]
    /\ handler' = [handler EXCEPT !.timer = NoTimer]
    /\ UNCHANGED <<clock, base, ce, calls>>

\* ... or 1, after its timer_forward_now(), and is queued again.
callback_restart(interval) ==
    LET t == handler.timer
        expires == ktime_add_safe(clock, interval)
        With(s) == [timer EXCEPT ![t] = [state |-> s, expires |-> expires]]
    IN  /\ t # NoTimer
        /\ base' = add_timer(base, With(INACTIVE), t)
        /\ timer' = With(ENQUEUED)
        /\ handler' = [handler EXCEPT !.timer = NoTimer]
        /\ UNCHANGED <<clock, ce, calls>>

\* (mutant: the counter is not set again)
timer_event_done_unset ==
    /\ handler.active /\ handler.timer = NoTimer /\ ~Due
    /\ handler' = [handler EXCEPT !.active = FALSE]
    /\ UNCHANGED <<clock, timer, base, ce, calls>>

\* The end of the handler.
timer_event_done ==
    /\ handler.active /\ handler.timer = NoTimer /\ ~Due
    /\ ce' = IF base.next = NoTimer THEN ce
             ELSE clockevent_set_event_next(ce, handler.now, timer[base.next].expires)
    /\ handler' = [handler EXCEPT !.active = FALSE]
    /\ UNCHANGED <<clock, timer, base, calls>>

-----------------------------------------------------------------------------
(* The hardware.                                                           *)

\* The one-shot counter reaches 0.
expire ==
    /\ ce.armed /\ clock >= ce.at
    /\ ce' = [ce EXCEPT !.armed = FALSE, !.pending = TRUE]
    /\ UNCHANGED <<clock, timer, base, calls, handler>>

MayTick ==
    /\ handler.active => clock < handler.now + MaxLag
    /\ Prompt => \A call \in calls : clock < call.now + call.interval

Tick ==
    /\ MayTick
    /\ clock' = clock + 1
    /\ UNCHANGED <<timer, base, ce, calls, handler>>

-----------------------------------------------------------------------------

\* The clock event has been registered (timer_bind_clockevent()) and after it
\* the clock source, which has started its keeper: the order of x4418.json.
Init ==
    /\ clock = 0
    /\ timer = [t \in Timers |->
                    [state |-> IF t = Keeper THEN ENQUEUED ELSE INACTIVE,
                     expires |-> IF t = Keeper THEN KeeperInterval ELSE 0]]
    /\ base = [head |-> {Keeper}, next |-> Keeper]
    /\ ce = clockevent_set_event_next([armed |-> FALSE, at |-> 0, pending |-> FALSE],
                                      0, KeeperInterval)
    /\ calls = {}
    /\ handler = [active |-> FALSE, now |-> 0, timer |-> NoTimer]

driver_call ==
    \E t \in Timers \ {Keeper} :
        \/ \E c \in Callers, i \in Intervals : timer_start_now(c, t, i)
        \/ timer_cancel(t)
        \/ \E i \in Intervals : callback_start(t, i)

callback_return ==
    \/ callback_stop
    \/ handler.timer # Keeper /\ \E i \in Intervals : callback_restart(i)
    \/ handler.timer = Keeper /\ callback_restart(KeeperInterval)

timer_event_handler == timer_event_call \/ callback_return \/ timer_event_done

\* A step of a driver, of the handler or of the counter.
Step ==
    \/ driver_call
    \/ \E call \in calls : timer_start_locked(call)
    \/ interrupt
    \/ timer_event_handler
    \/ expire

Next == Step \/ Tick

Spec == Init /\ [][Next]_vars

-----------------------------------------------------------------------------
(* Time without end: the clock stays at 0 and all times are lowered        *)
(* instead.  What is further back than any now of the handler, or no       *)
(* longer read, is taken for one.                                          *)

Floor == -(MaxLag + 1)
Lowered(x, least) == IF x - 1 < least THEN least ELSE x - 1

RebasedTick ==
    /\ MayTick
    /\ timer' = [t \in Timers |->
            [timer[t] EXCEPT !.expires =
                IF timer[t].state = ENQUEUED THEN Lowered(@, Floor) ELSE 0]]
    /\ ce' = [ce EXCEPT !.at = IF ce.armed THEN Lowered(@, 0) ELSE 0]
    /\ calls' = {[call EXCEPT !.now = Lowered(@, Floor - call.interval)] : call \in calls}
    /\ handler' = [handler EXCEPT !.now = IF handler.active THEN @ - 1 ELSE 0]
    /\ UNCHANGED <<clock, base>>

EverNext == Step \/ RebasedTick

----------------------------------------------------------------------------
(* What is claimed of Timer.                                               *)

States == {INACTIVE, ENQUEUED, CALLBACK}

TypeOK ==
    /\ clock \in Nat
    /\ timer \in [Timers -> [state : States, expires : Nat]]
    /\ base \in [head : SUBSET Timers, next : Timers \cup {NoTimer}]
    /\ ce \in [armed : BOOLEAN, at : Nat, pending : BOOLEAN]
    /\ calls \subseteq [caller : Callers, timer : Timers \ {Keeper},
                     now : Nat, interval : Intervals]
    /\ handler \in [active : BOOLEAN, now : Nat, timer : Timers \cup {NoTimer}]

\* The cached timer is the first of the tree.
Ordered(b, tm) ==
    /\ b.next = NoTimer <=> b.head = {}
    /\ b.next # NoTimer =>
        /\ b.next \in b.head
        /\ \A t \in b.head : tm[b.next].expires <= tm[t].expires

\* The states of the timers, the tree and the cached first timer, which are
\* written in different places, always agree.
QueueOK ==
    /\ base.head = {t \in Timers : timer[t].state = ENQUEUED}
    /\ Ordered(base, timer)
    /\ \A t \in Timers : timer[t].state = CALLBACK <=> t = handler.timer

\* The timers never stop: outside the handler the counter runs or its interrupt
\* is pending.  It need not be set for the first timer, which may have been
\* started too late; that the keeper is always queued is what saves it.
NeverStops == handler.active \/ ce.armed \/ ce.pending

\* How late the counter can be, at most.
Slack == MinDelta + MaxLag

\* If no task is kept from starting a timer beyond the expiry, the counter is
\* always set for the first timer.
ArmedInTime ==
    Prompt /\ ~handler.active /\ ~ce.pending =>
        ce.armed /\ ce.at <= timer[base.next].expires + Slack

Expired(t) == timer[t].state = ENQUEUED /\ timer[t].expires <= clock

Restart(t) ==
    \/ \E call \in calls : call.timer = t /\ timer_start_locked(call)
    \/ \E i \in Intervals : callback_start(t, i)

\* A timer that has expired is called back, however late it was started,
\* unless it is cancelled or started anew again and again.
ExpiredIsCalled ==
    \A t \in Timers : []<>~Expired(t) \/ []<><<Restart(t)>>_vars

\* When a timer is due, or Service!Never.
deadline ==
    [t \in Timers |-> IF timer[t].state = ENQUEUED THEN timer[t].expires ELSE -1]

\* What users may rely on: every behaviour is one of TimerService.
Service == INSTANCE TimerService WITH called <- handler.timer

ImplementsTimerService == Service!Spec
=============================================================================
