---------------------------- MODULE TimerProofs ----------------------------
(***************************************************************************)
(* For any timers, tasks, intervals and counter: what Timer keeps true;    *)
(* for any rate, counter, lateness and readers: what Clocksource does.     *)
(***************************************************************************)
EXTENDS Timer, Clocksource, WellFoundedInduction, TLAPS

TimerRecord == [state : States, expires : Nat]
BaseRecord == [head : SUBSET Timers, next : Timers \cup {NoTimer}]
CERecord == [armed : BOOLEAN, at : Nat, pending : BOOLEAN]
HandlerRecord == [active : BOOLEAN, now : Nat, timer : Timers \cup {NoTimer}]

-----------------------------------------------------------------------------
(* The counter.                                                            *)

LEMMA CountedBounds ==
    ASSUME NEW delta \in Nat
    PROVE  Counted(delta) \in 0 .. delta
BY TimerAssumption DEF Counted

\* The counter is left alone or set for the expiry, a little late at most.
LEMMA SetEvent ==
    ASSUME NEW e \in CERecord, NEW now \in Nat, NEW expires \in Nat, clock \in Nat,
           NEW e2, e2 = clockevent_set_event_next(e, now, expires)
    PROVE  /\ e2 \in CERecord
           /\ e2.pending = e.pending
           /\ e.armed => e2.armed
           /\ expires < now => e2 = e
           /\ expires >= now =>
                /\ e2.armed
                /\ e2.at <= clock + (expires - now) + MinDelta
<1> DEFINE capped == IF expires - now > MaxDelta THEN MaxDelta ELSE expires - now
           delta == IF capped < MinDelta THEN MinDelta ELSE capped
<1>1. CASE expires < now
  BY <1>1 DEF clockevent_set_event_next
<1>2. CASE expires >= now
  <2>1. e2 = [e EXCEPT !.armed = TRUE, !.at = clock + Counted(delta)]
    BY <1>2 DEF clockevent_set_event_next
  <2>2. delta \in Nat /\ delta <= (expires - now) + MinDelta
    BY <1>2, TimerAssumption
  <2>3. Counted(delta) \in 0 .. delta
    BY <2>2, CountedBounds
  <2>4. /\ clock + Counted(delta) \in Nat
        /\ clock + Counted(delta) <= clock + (expires - now) + MinDelta
    <3> HIDE DEF delta
    <3> QED
      BY <1>2, <2>2, <2>3, TimerAssumption
  <2> HIDE DEF delta
  <2>5. e2.at = clock + Counted(delta) /\ e2.armed = TRUE /\ e2.pending = e.pending
    BY <2>1 DEF CERecord
  <2>6. e2 \in CERecord
    BY <2>1, <2>4 DEF CERecord
  <2> QED
    BY <1>2, <2>4, <2>5, <2>6
<1> QED
  BY <1>1, <1>2

-----------------------------------------------------------------------------
(* The tree.                                                               *)

\* The tree without a timer, the cached one again the first.
LEMMA DelTimer ==
    ASSUME NEW b \in BaseRecord, NEW tm \in [Timers -> TimerRecord], Ordered(b, tm),
           NEW t \in Timers, t \in b.head <=> tm[t].state = ENQUEUED,
           NEW b2 \in del_timer(b, tm, t)
    PROVE  /\ b2 \in BaseRecord
           /\ b2.head = b.head \ {t}
           /\ Ordered(b2, tm)
           /\ b.next # t => b2.next = b.next
<1>1. CASE tm[t].state # ENQUEUED
  <2>1. b2 = b /\ t \notin b.head
    BY <1>1 DEF del_timer
  <2> QED
    BY <2>1 DEF Ordered, BaseRecord
<1>2. CASE tm[t].state = ENQUEUED
  <2>1. PICK n \in (IF b.next = t THEN rb_next(b, tm, t) ELSE {b.next}) :
            b2 = [head |-> b.head \ {t}, next |-> n]
    BY <1>2 DEF del_timer
  <2>2. t \in b.head /\ b.next # NoTimer /\ b.next \in b.head /\ b.head \subseteq Timers
    BY <1>2 DEF Ordered, BaseRecord
  <2>3. CASE b.next # t
    BY <2>1, <2>2, <2>3 DEF Ordered, BaseRecord
  <2>4. CASE b.next = t
    <3>1. Later(b, tm, t) = b.head \ {t}
      BY <2>2, <2>4 DEF Later, Ordered, TimerRecord
    <3>2. n \in rb_next(b, tm, t)
      BY <2>1, <2>4
    <3>3. CASE b.head \ {t} = {}
      BY <2>1, <2>2, <2>4, <3>1, <3>2, <3>3 DEF rb_next, Ordered, BaseRecord
    <3>4. CASE b.head \ {t} # {}
      <4>1. n \in b.head \ {t} /\ \A v \in b.head \ {t} : tm[n].expires <= tm[v].expires
        BY <3>1, <3>2, <3>4 DEF rb_next
      <4>2. n # NoTimer
        BY <4>1, <2>2, TimerAssumption
      <4> QED
        BY <2>1, <2>2, <2>4, <4>1, <4>2, <3>4 DEF Ordered, BaseRecord
    <3> QED
      BY <3>3, <3>4
  <2> QED
    BY <2>3, <2>4
<1> QED
  BY <1>1, <1>2

\* The tree with one more timer.
LEMMA AddTimer ==
    ASSUME NEW b \in BaseRecord, NEW tm \in [Timers -> TimerRecord], Ordered(b, tm),
           NEW t \in Timers, tm[t].state = INACTIVE,
           NEW b2, b2 = add_timer(b, tm, t)
    PROVE  /\ b2 \in BaseRecord
           /\ b2.head = b.head \cup {t}
           /\ Ordered(b2, tm)
           /\ b2.next \in {b.next, t} /\ b2.next # NoTimer
           /\ tm[b2.next].expires <= tm[t].expires
<1>1. b2 = [head |-> b.head \cup {t},
            next |-> IF b.next = NoTimer \/ tm[t].expires < tm[b.next].expires
                     THEN t ELSE b.next]
  BY DEF add_timer
<1>2. t # NoTimer /\ b.head \subseteq Timers
  BY TimerAssumption DEF BaseRecord
<1>3. \A u \in Timers : tm[u].expires \in Nat
  BY DEF TimerRecord
<1>4. /\ b2 \in BaseRecord /\ b2.head = b.head \cup {t}
      /\ b2.next \in {b.next, t} /\ b2.next # NoTimer
  BY <1>1, <1>2 DEF BaseRecord
<1>5. ASSUME NEW u \in b2.head PROVE tm[b2.next].expires <= tm[u].expires
  <2> DEFINE x(w) == tm[w].expires
  <2>1. u \in Timers /\ x(u) \in Nat /\ x(t) \in Nat /\ (u \in b.head \/ u = t)
    BY <1>2, <1>3, <1>4
  <2>2. CASE b.next = NoTimer
    <3>1. u = t /\ b2.next = t
      BY <1>1, <2>1, <2>2 DEF Ordered
    <3> QED
      BY <2>1, <3>1
  <2>3. CASE b.next # NoTimer
    <3>1. x(b.next) \in Nat /\ (u \in b.head => x(b.next) <= x(u))
      BY <1>2, <1>3, <2>3 DEF Ordered
    <3>2. b2.next = IF x(t) < x(b.next) THEN t ELSE b.next
      BY <1>1, <2>3
    <3>3. x(b2.next) = IF x(t) < x(b.next) THEN x(t) ELSE x(b.next)
      BY <3>2
    <3> HIDE DEF x
    <3>4. x(b2.next) <= x(u)
      BY <2>1, <3>1, <3>3
    <3> QED
      BY <3>4 DEF x
  <2> QED
    BY <2>2, <2>3
<1>6. b2.next \in b2.head
  BY <1>1, <1>4 DEF Ordered
<1> QED
  BY <1>4, <1>5, <1>6 DEF Ordered

-----------------------------------------------------------------------------
(* The inductive invariant.                                                *)

\* The handler does not outlast MaxLag, and a call that is kept from going on
\* does not outlast its interval if tasks are prompt.
LagInv ==
    /\ handler.active => handler.now <= clock /\ clock <= handler.now + MaxLag
    /\ handler.timer # NoTimer => handler.active
    /\ Prompt => \A call \in calls : clock <= call.now + call.interval

\* The keeper is always queued, but for its own callback.
KeeperInv == Keeper \in base.head \/ handler.timer = Keeper

IInv == TypeOK /\ QueueOK /\ LagInv /\ KeeperInv /\ NeverStops /\ ArmedInTime

\* The counter is set, in time for the first timer.
SetFor(e, b, tm) == e.armed /\ e.at <= tm[b.next].expires + Slack

LEMMA Types ==
    ASSUME TypeOK
    PROVE  /\ clock \in Nat
           /\ timer \in [Timers -> TimerRecord]
           /\ base \in BaseRecord
           /\ ce \in CERecord
           /\ handler \in HandlerRecord
           /\ \A t \in Timers : timer[t].expires \in Nat
           /\ \A call \in calls :
                /\ call.timer \in Timers \ {Keeper}
                /\ call.now \in Nat /\ call.interval \in Nat
BY TimerAssumption DEF TypeOK, TimerRecord, BaseRecord, CERecord, HandlerRecord

\* What timer_start() and timer_cancel() do to the counter when they take a
\* timer out of the tree.
LEMMA AfterDelTimer ==
    ASSUME TypeOK, QueueOK, NEW t \in Timers, NEW b \in del_timer(base, timer, t),
           NEW e, e = after_del_timer(b, t)
    PROVE  /\ e \in CERecord
           /\ e.pending = ce.pending
           /\ ce.armed => e.armed
           /\ SetFor(ce, base, timer) /\ b.next # NoTimer => SetFor(e, b, timer)
<1>1. /\ clock \in Nat /\ ce \in CERecord /\ ce.at \in Nat
      /\ \A u \in Timers : timer[u].expires \in Nat
  BY Types DEF CERecord
<1>2. /\ b \in BaseRecord /\ b.head = base.head \ {t} /\ Ordered(b, timer)
      /\ base.next # t => b.next = base.next
  BY Types, DelTimer DEF QueueOK
<1>3. CASE timer[t].state = ENQUEUED /\ base.next = t /\ b.next # NoTimer
  <2>1. b.next \in Timers /\ timer[t].expires <= timer[b.next].expires
    BY <1>2, <1>3 DEF QueueOK, Ordered, BaseRecord
  <2>2. e = clockevent_set_event_next(ce, clock, timer[b.next].expires)
    BY <1>3 DEF after_del_timer
  <2>3. /\ e \in CERecord
        /\ e.pending = ce.pending
        /\ ce.armed => e.armed
        /\ timer[b.next].expires < clock => e = ce
        /\ timer[b.next].expires >= clock =>
            e.armed /\ e.at <= clock + (timer[b.next].expires - clock) + MinDelta
    BY <1>1, <2>1, <2>2, SetEvent
  <2>4. ASSUME SetFor(ce, base, timer) PROVE SetFor(e, b, timer)
    <3>1. CASE timer[b.next].expires < clock
      BY <1>1, <1>3, <2>1, <2>3, <2>4, <3>1, TimerAssumption DEF SetFor, Slack
    <3>2. CASE timer[b.next].expires >= clock
      BY <1>1, <2>1, <2>3, <3>2, TimerAssumption DEF SetFor, Slack, CERecord
    <3> QED
      BY <1>1, <2>1, <3>1, <3>2
  <2> QED
    BY <2>3, <2>4
<1>4. CASE ~(timer[t].state = ENQUEUED /\ base.next = t /\ b.next # NoTimer)
  <2>1. e = ce
    BY <1>4 DEF after_del_timer
  <2>2. b.next = base.next \/ b.next = NoTimer
    BY <1>2, <1>4 DEF QueueOK, Ordered
  <2> QED
    BY <1>1, <2>1, <2>2 DEF SetFor
<1> QED
  BY <1>3, <1>4

\* timer_start() queues the timer and leaves the counter set in time, if the
\* expiry has not passed.
LEMMA TimerStart ==
    ASSUME TypeOK, QueueOK, NEW t \in Timers, t # handler.timer,
           NEW now \in Nat, NEW interval \in Nat, timer_start(t, now, interval)
    PROVE  /\ timer' = [timer EXCEPT ![t] = [state |-> ENQUEUED, expires |-> now + interval]]
           /\ base' \in BaseRecord
           /\ base'.head = base.head \cup {t}
           /\ Ordered(base', timer')
           /\ ce' \in CERecord
           /\ ce'.pending = ce.pending
           /\ ce.armed => ce'.armed
           /\ SetFor(ce, base, timer) /\ clock <= now + interval => SetFor(ce', base', timer')
<1> DEFINE expires == now + interval
           stopped == [timer EXCEPT ![t] = [state |-> Unqueued(t), expires |-> expires]]
<1>1. /\ clock \in Nat /\ timer \in [Timers -> TimerRecord] /\ ce \in CERecord
      /\ base \in BaseRecord /\ expires \in Nat
      /\ \A u \in Timers : timer[u].expires \in Nat
  BY Types
<1>2. Unqueued(t) = INACTIVE
  BY <1>1 DEF Unqueued, QueueOK, States, TimerRecord
<1>3. PICK b \in del_timer(base, timer, t) :
        /\ base' = add_timer(b, stopped, t)
        /\ timer' = [timer EXCEPT ![t] = [state |-> ENQUEUED, expires |-> expires]]
        /\ ce' = IF base'.next = t
                 THEN clockevent_set_event_next(after_del_timer(b, t), clock, expires)
                 ELSE after_del_timer(b, t)
  BY <1>2 DEF timer_start, ktime_add_safe
<1>4. timer' = [timer EXCEPT ![t] = [state |-> ENQUEUED, expires |-> expires]]
  BY <1>3
<1>5. /\ stopped \in [Timers -> TimerRecord]
      /\ stopped[t].state = INACTIVE /\ stopped[t].expires = expires
  BY <1>1, <1>2 DEF TimerRecord, States
<1>6. /\ b \in BaseRecord /\ b.head = base.head \ {t} /\ Ordered(b, timer)
      /\ base.next # t => b.next = base.next
  BY <1>1, DelTimer DEF QueueOK
<1>7. \A u \in Timers : /\ u # t => stopped[u] = timer[u] /\ timer'[u] = timer[u]
                        /\ timer'[u].expires = stopped[u].expires
  BY <1>1, <1>4
<1> HIDE DEF stopped
<1>8. Ordered(b, stopped)
  BY <1>6, <1>7 DEF Ordered, BaseRecord
<1>9. /\ base' \in BaseRecord
      /\ base'.head = b.head \cup {t}
      /\ Ordered(base', stopped)
      /\ base'.next \in {b.next, t} /\ base'.next # NoTimer
  BY <1>3, <1>5, <1>6, <1>8, AddTimer
<1>10. base'.head = base.head \cup {t}
  BY <1>6, <1>9
<1>11. Ordered(base', timer')
  BY <1>7, <1>9 DEF Ordered, BaseRecord
<1>12. PICK e : e = after_del_timer(b, t)
  OBVIOUS
<1>13. /\ e \in CERecord
       /\ e.pending = ce.pending
       /\ ce.armed => e.armed
       /\ SetFor(ce, base, timer) /\ b.next # NoTimer => SetFor(e, b, timer)
  BY <1>12, AfterDelTimer
<1>14. CASE base'.next = t
  <2>1. ce' = clockevent_set_event_next(e, clock, expires)
    BY <1>3, <1>5, <1>12, <1>14
  <2>2. /\ ce' \in CERecord
        /\ ce'.pending = e.pending
        /\ e.armed => ce'.armed
        /\ expires >= clock => ce'.armed /\ ce'.at <= clock + (expires - clock) + MinDelta
    BY <1>1, <1>13, <2>1, SetEvent
  <2>3. timer'[base'.next].expires = expires
    BY <1>1, <1>4, <1>14
  <2>4. clock <= expires => SetFor(ce', base', timer')
    <3> HIDE DEF expires
    <3> QED
      BY <1>1, <2>2, <2>3, TimerAssumption DEF SetFor, Slack, CERecord
  <2> QED
    BY <1>4, <1>9, <1>10, <1>11, <1>13, <2>2, <2>4
<1>15. CASE base'.next # t
  <2>1. ce' = e /\ base'.next = b.next /\ b.next # NoTimer /\ b.next \in Timers
    BY <1>3, <1>9, <1>12, <1>15 DEF BaseRecord
  <2>2. SetFor(e, b, timer) => SetFor(ce', base', timer')
    BY <1>7, <1>15, <2>1 DEF SetFor
  <2> QED
    BY <1>4, <1>9, <1>10, <1>11, <1>13, <2>1, <2>2
<1> QED
  BY <1>14, <1>15

-----------------------------------------------------------------------------
(* Every step keeps the invariant.                                         *)

LEMMA Initially == Init => IInv
<1> SUFFICES ASSUME Init PROVE IInv
  OBVIOUS
<1> DEFINE e == [armed |-> FALSE, at |-> 0, pending |-> FALSE]
<1>1. /\ e \in CERecord /\ clock = 0 /\ clock \in Nat /\ KeeperInterval \in Nat
      /\ KeeperInterval >= 0 /\ MinDelta \in Nat /\ MaxLag \in Nat
  BY TimerAssumption DEF Init, CERecord
<1>2. /\ ce = clockevent_set_event_next(e, 0, KeeperInterval)
      /\ timer = [t \in Timers |->
                    [state |-> IF t = Keeper THEN ENQUEUED ELSE INACTIVE,
                     expires |-> IF t = Keeper THEN KeeperInterval ELSE 0]]
      /\ base = [head |-> {Keeper}, next |-> Keeper]
      /\ calls = {}
      /\ handler = [active |-> FALSE, now |-> 0, timer |-> NoTimer]
  BY DEF Init
<1> HIDE DEF e
<1>3. ce \in CERecord /\ ce.armed /\ ce.at <= clock + (KeeperInterval - 0) + MinDelta
  BY <1>1, <1>2, SetEvent
<1>4. Keeper \in Timers /\ NoTimer \notin Timers
  BY TimerAssumption
<1>5. TypeOK
  BY <1>1, <1>2, <1>3, <1>4 DEF TypeOK, CERecord, States
<1>6. QueueOK
  <2>1. \A t \in Timers : timer[t].state = IF t = Keeper THEN ENQUEUED ELSE INACTIVE
    BY <1>2
  <2>2. base.head = {Keeper} /\ base.next = Keeper
    BY <1>2
  <2>3. base.head = {t \in Timers : timer[t].state = ENQUEUED}
    BY <1>4, <2>1, <2>2 DEF ENQUEUED, INACTIVE
  <2>4. timer[Keeper].expires = KeeperInterval
    BY <1>2, <1>4
  <2>5. Ordered(base, timer)
    BY <1>1, <1>4, <2>2, <2>4 DEF Ordered
  <2>6. \A t \in Timers : timer[t].state # CALLBACK /\ t # handler.timer
    BY <1>2, <1>4, <2>1 DEF ENQUEUED, INACTIVE, CALLBACK
  <2> QED
    BY <2>3, <2>5, <2>6 DEF QueueOK
<1>7. LagInv /\ KeeperInv /\ NeverStops
  BY <1>2, <1>3 DEF LagInv, KeeperInv, NeverStops
<1>8. ArmedInTime
  <2>1. timer[base.next].expires = KeeperInterval
    BY <1>2, <1>4
  <2>2. ce.at \in Nat
    BY <1>3 DEF CERecord
  <2> QED
    BY <1>1, <1>3, <2>1, <2>2 DEF ArmedInTime, Slack
<1> QED
  BY <1>5, <1>6, <1>7, <1>8 DEF IInv

\* timer_start() keeps what concerns the timers, wherever it is called from.
LEMMA StartKeeps ==
    ASSUME IInv, NEW t \in Timers, t # handler.timer, NEW now \in Nat,
           NEW interval \in Nat, timer_start(t, now, interval),
           UNCHANGED <<clock, handler>>, calls' \subseteq calls,
           handler.active \/ (Prompt => clock <= now + interval)
    PROVE  IInv'
<1>1. /\ timer' = [timer EXCEPT ![t] = [state |-> ENQUEUED, expires |-> now + interval]]
      /\ base' \in BaseRecord
      /\ base'.head = base.head \cup {t}
      /\ Ordered(base', timer')
      /\ ce' \in CERecord
      /\ ce'.pending = ce.pending
      /\ ce.armed => ce'.armed
      /\ SetFor(ce, base, timer) /\ clock <= now + interval => SetFor(ce', base', timer')
  BY TimerStart DEF IInv
<1>2. timer \in [Timers -> TimerRecord] /\ now + interval \in Nat
  BY Types DEF IInv
<1>3. timer' \in [Timers -> TimerRecord]
  BY <1>1, <1>2 DEF TimerRecord, States
<1>4. TypeOK'
  BY <1>1, <1>3 DEF IInv, TypeOK, TimerRecord, BaseRecord, CERecord
<1>5. QueueOK'
  <2>1. base'.head = {u \in Timers : timer'[u].state = ENQUEUED}
    BY <1>1, <1>2 DEF IInv, QueueOK
  <2>2. \A u \in Timers : timer'[u].state = CALLBACK <=> u = handler'.timer
    BY <1>1, <1>2 DEF IInv, QueueOK, ENQUEUED, CALLBACK
  <2> QED
    BY <1>1, <2>1, <2>2 DEF QueueOK
<1>6. LagInv' /\ KeeperInv' /\ NeverStops'
  BY <1>1 DEF IInv, LagInv, KeeperInv, NeverStops
<1>7. ArmedInTime'
  BY <1>1 DEF IInv, ArmedInTime, SetFor
<1> QED
  BY <1>4, <1>5, <1>6, <1>7 DEF IInv

LEMMA StartNowKeeps ==
    ASSUME IInv, NEW c \in Callers, NEW t \in Timers \ {Keeper}, NEW i \in Intervals,
           timer_start_now(c, t, i)
    PROVE  IInv'
<1>1. PICK now \in clock .. clock + Ahead :
        /\ calls' = calls \cup {[caller |-> c, timer |-> t, now |-> now, interval |-> i]}
        /\ UNCHANGED <<clock, timer, base, ce, handler>>
  BY DEF timer_start_now
<1>2. clock \in Nat /\ i \in Nat /\ now \in Nat /\ clock <= now
  BY TimerAssumption DEF IInv, TypeOK
<1>3. TypeOK'
  BY <1>1, <1>2 DEF IInv, TypeOK
<1>4. LagInv'
  BY <1>1, <1>2 DEF IInv, LagInv
<1> QED
  BY <1>1, <1>3, <1>4
  DEF IInv, QueueOK, Ordered, KeeperInv, NeverStops, ArmedInTime

LEMMA StartLockedKeeps ==
    ASSUME IInv, NEW call \in calls, timer_start_locked(call)
    PROVE  IInv'
<1>1. /\ ~handler.active
      /\ timer_start(call.timer, call.now, call.interval)
      /\ calls' = calls \ {call}
      /\ UNCHANGED <<clock, handler>>
  BY DEF timer_start_locked
<1>2. call.timer \in Timers /\ call.now \in Nat /\ call.interval \in Nat
  BY Types DEF IInv
<1>3. handler.timer = NoTimer /\ call.timer # handler.timer
  BY <1>1, <1>2, TimerAssumption DEF IInv, LagInv
<1>4. Prompt => clock <= call.now + call.interval
  BY DEF IInv, LagInv
<1> QED
  BY <1>1, <1>2, <1>3, <1>4, StartKeeps

LEMMA CallbackStartKeeps ==
    ASSUME IInv, NEW t \in Timers, NEW i \in Intervals, callback_start(t, i)
    PROVE  IInv'
<1>1. handler.timer # NoTimer /\ t # handler.timer /\ timer_start(t, clock, i)
      /\ UNCHANGED <<clock, calls, handler>>
  BY DEF callback_start
<1>2. handler.active /\ clock \in Nat /\ i \in Nat
  BY <1>1, TimerAssumption DEF IInv, LagInv, TypeOK
<1> QED
  BY <1>1, <1>2, StartKeeps

LEMMA CancelKeeps ==
    ASSUME IInv, NEW t \in Timers \ {Keeper}, timer_cancel(t)
    PROVE  IInv'
<1>1. PICK b \in del_timer(base, timer, t) : base' = b /\ ce' = after_del_timer(b, t)
  BY DEF timer_cancel
<1>2. /\ ~handler.active
      /\ timer' = [timer EXCEPT ![t].state = Unqueued(t)]
      /\ UNCHANGED <<clock, calls, handler>>
  BY DEF timer_cancel
<1>3. timer \in [Timers -> TimerRecord] /\ base \in BaseRecord
  BY Types DEF IInv
<1>4. /\ b \in BaseRecord /\ b.head = base.head \ {t} /\ Ordered(b, timer)
  BY <1>3, DelTimer DEF IInv, QueueOK
<1>5. handler.timer = NoTimer /\ handler.timer \notin Timers
  BY <1>2, TimerAssumption DEF IInv, LagInv
<1>6. /\ timer[t].state # CALLBACK
      /\ Unqueued(t) = INACTIVE
  BY <1>3, <1>5 DEF IInv, QueueOK, Unqueued, TimerRecord, States
<1>7. /\ timer' \in [Timers -> TimerRecord]
      /\ timer'[t].state = INACTIVE
      /\ \A u \in Timers : timer'[u].expires = timer[u].expires
      /\ \A u \in Timers : u # t => timer'[u] = timer[u]
  BY <1>2, <1>3, <1>6 DEF TimerRecord, States
<1>8. b.next # NoTimer /\ b.next \in Timers
  BY <1>4, <1>5, TimerAssumption DEF IInv, KeeperInv, Ordered, BaseRecord
<1>9. /\ ce' \in CERecord
      /\ ce'.pending = ce.pending
      /\ ce.armed => ce'.armed
      /\ SetFor(ce, base, timer) => SetFor(ce', b, timer)
  BY <1>1, <1>8, AfterDelTimer DEF IInv
<1>10. TypeOK'
  BY <1>1, <1>2, <1>4, <1>7, <1>9 DEF IInv, TypeOK, TimerRecord, BaseRecord, CERecord
<1>11. QueueOK'
  <2>1. base'.head = {u \in Timers : timer'[u].state = ENQUEUED}
    BY <1>1, <1>4, <1>7 DEF IInv, QueueOK, INACTIVE, ENQUEUED
  <2>2. Ordered(base', timer')
    BY <1>1, <1>4, <1>7 DEF Ordered, BaseRecord
  <2>3. \A u \in Timers : timer'[u].state = CALLBACK <=> u = handler'.timer
    BY <1>2, <1>5, <1>7 DEF IInv, QueueOK, INACTIVE, CALLBACK
  <2> QED
    BY <2>1, <2>2, <2>3 DEF QueueOK
<1>12. LagInv' /\ KeeperInv' /\ NeverStops'
  BY <1>1, <1>2, <1>4, <1>9 DEF IInv, LagInv, KeeperInv, NeverStops
<1>13. ArmedInTime'
  BY <1>1, <1>2, <1>7, <1>8, <1>9 DEF IInv, ArmedInTime, SetFor
<1> QED
  BY <1>10, <1>11, <1>12, <1>13 DEF IInv

LEMMA InterruptKeeps ==
    ASSUME IInv, interrupt
    PROVE  IInv'
<1>1. /\ ~handler.active
      /\ ce' = [ce EXCEPT !.pending = FALSE]
      /\ handler' = [active |-> TRUE, now |-> clock, timer |-> NoTimer]
      /\ UNCHANGED <<clock, timer, base, calls>>
  BY DEF interrupt
<1>2. handler.timer = NoTimer /\ clock \in Nat /\ MaxLag \in Nat
  BY <1>1, TimerAssumption DEF IInv, LagInv, TypeOK
<1>3. TypeOK'
  BY <1>1, <1>2 DEF IInv, TypeOK
<1>4. QueueOK'
  BY <1>1, <1>2 DEF IInv, QueueOK, Ordered
<1>5. LagInv'
  BY <1>1, <1>2 DEF IInv, LagInv
<1> QED
  BY <1>1, <1>2, <1>3, <1>4, <1>5 DEF IInv, KeeperInv, NeverStops, ArmedInTime

LEMMA EventCallKeeps ==
    ASSUME IInv, timer_event_call
    PROVE  IInv'
<1> DEFINE t == base.next
<1>1. /\ handler.active /\ handler.timer = NoTimer /\ t # NoTimer
      /\ base' \in del_timer(base, timer, t)
      /\ timer' = [timer EXCEPT ![t].state = CALLBACK]
      /\ handler' = [handler EXCEPT !.timer = t]
      /\ UNCHANGED <<clock, ce, calls>>
  BY DEF timer_event_call, Due
<1>2. /\ timer \in [Timers -> TimerRecord] /\ base \in BaseRecord /\ handler \in HandlerRecord
      /\ t \in Timers /\ t \in base.head
  BY <1>1, Types DEF IInv, QueueOK, Ordered, BaseRecord
<1> HIDE DEF t
<1>3. base' \in BaseRecord /\ base'.head = base.head \ {t} /\ Ordered(base', timer)
  BY <1>1, <1>2, DelTimer DEF IInv, QueueOK
<1>4. /\ timer' \in [Timers -> TimerRecord]
      /\ timer'[t].state = CALLBACK
      /\ \A u \in Timers : timer'[u].expires = timer[u].expires
      /\ \A u \in Timers : u # t => timer'[u] = timer[u]
  BY <1>1, <1>2 DEF TimerRecord, States
<1>5. /\ handler' \in HandlerRecord /\ handler'.timer = t
      /\ handler'.active /\ handler'.now = handler.now
  BY <1>1, <1>2 DEF HandlerRecord
<1>6. TypeOK'
  BY <1>1, <1>3, <1>4, <1>5 DEF IInv, TypeOK, TimerRecord, BaseRecord, HandlerRecord
<1>7. QueueOK'
  <2>1. base'.head = {u \in Timers : timer'[u].state = ENQUEUED}
    BY <1>3, <1>4 DEF IInv, QueueOK, CALLBACK, ENQUEUED
  <2>2. Ordered(base', timer')
    BY <1>3, <1>4 DEF Ordered, BaseRecord
  <2>3. \A u \in Timers : timer[u].state # CALLBACK
    BY <1>1, TimerAssumption DEF IInv, QueueOK
  <2>4. \A u \in Timers : timer'[u].state = CALLBACK <=> u = handler'.timer
    BY <1>4, <1>5, <2>3
  <2> QED
    BY <2>1, <2>2, <2>4 DEF QueueOK
<1>8. LagInv' /\ NeverStops' /\ ArmedInTime'
  BY <1>1, <1>5 DEF IInv, LagInv, NeverStops, ArmedInTime
<1>9. KeeperInv'
  BY <1>1, <1>3, <1>5, TimerAssumption DEF IInv, KeeperInv
<1> QED
  BY <1>6, <1>7, <1>8, <1>9 DEF IInv

LEMMA CallbackStopKeeps ==
    ASSUME IInv, callback_stop
    PROVE  IInv'
<1> DEFINE t == handler.timer
<1>1. /\ t \notin {NoTimer, Keeper}
      /\ timer' = [timer EXCEPT ![t].state = INACTIVE]
      /\ handler' = [handler EXCEPT !.timer = NoTimer]
      /\ UNCHANGED <<clock, base, ce, calls>>
  BY DEF callback_stop
<1>2. /\ timer \in [Timers -> TimerRecord] /\ handler \in HandlerRecord
      /\ t \in Timers /\ timer[t].state = CALLBACK /\ base \in BaseRecord
  BY <1>1, Types DEF IInv, QueueOK, HandlerRecord
<1>3. /\ timer' \in [Timers -> TimerRecord]
      /\ timer'[t].state = INACTIVE
      /\ \A u \in Timers : timer'[u].expires = timer[u].expires
      /\ \A u \in Timers : u # t => timer'[u] = timer[u]
  BY <1>1, <1>2 DEF TimerRecord, States
<1>4. /\ handler' \in HandlerRecord /\ handler'.timer = NoTimer
      /\ handler'.active = handler.active /\ handler'.now = handler.now /\ handler.active
  BY <1>1, <1>2 DEF HandlerRecord, IInv, LagInv
<1>5. TypeOK'
  BY <1>1, <1>3, <1>4 DEF IInv, TypeOK, TimerRecord, HandlerRecord
<1>6. QueueOK'
  <2>1. base'.head = {u \in Timers : timer'[u].state = ENQUEUED}
    BY <1>1, <1>2, <1>3 DEF IInv, QueueOK, INACTIVE, CALLBACK, ENQUEUED
  <2>2. Ordered(base', timer')
    BY <1>1, <1>2, <1>3 DEF IInv, QueueOK, Ordered, BaseRecord
  <2>3. \A u \in Timers : timer'[u].state = CALLBACK <=> u = handler'.timer
    BY <1>3, <1>4, TimerAssumption DEF IInv, QueueOK, INACTIVE, CALLBACK
  <2> QED
    BY <2>1, <2>2, <2>3 DEF QueueOK
<1>7. LagInv' /\ KeeperInv' /\ NeverStops' /\ ArmedInTime'
  BY <1>1, <1>4 DEF IInv, LagInv, KeeperInv, NeverStops, ArmedInTime
<1> QED
  BY <1>5, <1>6, <1>7 DEF IInv

LEMMA CallbackRestartKeeps ==
    ASSUME IInv, NEW i \in Nat, callback_restart(i)
    PROVE  IInv'
<1> DEFINE t == handler.timer
           expires == clock + i
           stopped == [timer EXCEPT ![t] = [state |-> INACTIVE, expires |-> expires]]
<1>1. /\ t # NoTimer
      /\ base' = add_timer(base, stopped, t)
      /\ timer' = [timer EXCEPT ![t] = [state |-> ENQUEUED, expires |-> expires]]
      /\ handler' = [handler EXCEPT !.timer = NoTimer]
      /\ UNCHANGED <<clock, ce, calls>>
  BY DEF callback_restart, ktime_add_safe
<1>2. /\ timer \in [Timers -> TimerRecord] /\ handler \in HandlerRecord
      /\ base \in BaseRecord /\ expires \in Nat
      /\ t \in Timers /\ timer[t].state = CALLBACK /\ t \notin base.head
  BY <1>1, Types DEF IInv, QueueOK, HandlerRecord, CALLBACK, ENQUEUED
<1> HIDE DEF expires
<1>3. /\ stopped \in [Timers -> TimerRecord] /\ stopped[t].state = INACTIVE
      /\ timer' \in [Timers -> TimerRecord] /\ timer'[t].state = ENQUEUED
      /\ \A u \in Timers : u # t => timer'[u] = timer[u] /\ stopped[u] = timer[u]
      /\ \A u \in Timers : timer'[u].expires = stopped[u].expires
  BY <1>1, <1>2 DEF TimerRecord, States
<1> HIDE DEF stopped
<1>4. Ordered(base, stopped)
  BY <1>2, <1>3 DEF IInv, QueueOK, Ordered, BaseRecord
<1>5. base' \in BaseRecord /\ base'.head = base.head \cup {t} /\ Ordered(base', stopped)
  BY <1>1, <1>2, <1>3, <1>4, AddTimer
<1>6. /\ handler' \in HandlerRecord /\ handler'.timer = NoTimer
      /\ handler'.active = handler.active /\ handler'.now = handler.now /\ handler.active
  BY <1>1, <1>2 DEF HandlerRecord, IInv, LagInv
<1>7. TypeOK'
  BY <1>1, <1>3, <1>5, <1>6 DEF IInv, TypeOK, TimerRecord, BaseRecord, HandlerRecord
<1>8. QueueOK'
  <2>1. base'.head = {u \in Timers : timer'[u].state = ENQUEUED}
    BY <1>2, <1>3, <1>5 DEF IInv, QueueOK
  <2>2. Ordered(base', timer')
    BY <1>3, <1>5 DEF Ordered, BaseRecord
  <2>3. \A u \in Timers : timer'[u].state = CALLBACK <=> u = handler'.timer
    BY <1>3, <1>6, TimerAssumption DEF IInv, QueueOK, ENQUEUED, CALLBACK
  <2> QED
    BY <2>1, <2>2, <2>3 DEF QueueOK
<1>9. LagInv' /\ KeeperInv' /\ NeverStops' /\ ArmedInTime'
  BY <1>1, <1>5, <1>6 DEF IInv, LagInv, KeeperInv, NeverStops, ArmedInTime
<1> QED
  BY <1>7, <1>8, <1>9 DEF IInv

LEMMA EventDoneKeeps ==
    ASSUME IInv, timer_event_done
    PROVE  IInv'
<1>1. /\ handler.active /\ handler.timer = NoTimer /\ ~Due
      /\ ce' = IF base.next = NoTimer THEN ce
               ELSE clockevent_set_event_next(ce, handler.now, timer[base.next].expires)
      /\ handler' = [handler EXCEPT !.active = FALSE]
      /\ UNCHANGED <<clock, timer, base, calls>>
  BY DEF timer_event_done
<1>2. /\ handler \in HandlerRecord /\ ce \in CERecord /\ clock \in Nat /\ base \in BaseRecord
      /\ handler.now \in Nat /\ \A u \in Timers : timer[u].expires \in Nat
  BY Types DEF IInv, HandlerRecord
<1>3. base.next # NoTimer /\ base.next \in Timers
  BY <1>1, <1>2, TimerAssumption DEF IInv, KeeperInv, QueueOK, Ordered, BaseRecord
<1> DEFINE x == timer[base.next].expires
<1>4. x \in Nat /\ handler.now < x /\ clock <= handler.now + MaxLag
  BY <1>1, <1>2, <1>3 DEF Due, IInv, LagInv
<1> DEFINE n == handler.now
<1>5. ce' = clockevent_set_event_next(ce, n, x) /\ n \in Nat /\ n < x
  BY <1>1, <1>2, <1>3, <1>4
<1> HIDE DEF x, n
<1>6. /\ ce' \in CERecord /\ ce'.armed
      /\ ce'.at <= clock + (x - n) + MinDelta
  <2>1. ce \in CERecord /\ clock \in Nat /\ x \in Nat /\ n \in Nat /\ x >= n
    BY <1>2, <1>4, <1>5
  <2>2. PICK e : e = clockevent_set_event_next(ce, n, x)
    OBVIOUS
  <2>3. /\ e \in CERecord
        /\ x >= n => e.armed /\ e.at <= clock + (x - n) + MinDelta
    BY <2>1, <2>2, SetEvent
  <2> QED
    BY <1>5, <2>1, <2>2, <2>3
<1>7. handler' \in HandlerRecord /\ handler'.timer = NoTimer /\ handler'.active = FALSE
  BY <1>1, <1>2 DEF HandlerRecord
<1>8. TypeOK'
  BY <1>1, <1>6, <1>7 DEF IInv, TypeOK, CERecord, HandlerRecord
<1>9. QueueOK'
  BY <1>1, <1>7 DEF IInv, QueueOK, Ordered
<1>10. LagInv' /\ KeeperInv' /\ NeverStops'
  BY <1>1, <1>6, <1>7 DEF IInv, LagInv, KeeperInv, NeverStops
<1>11. ArmedInTime'
  <2>1. ce'.at <= x + Slack
    BY <1>2, <1>4, <1>5, <1>6, TimerAssumption DEF n, Slack, CERecord
  <2>2. x = timer'[base'.next].expires
    BY <1>1 DEF x
  <2> QED
    BY <1>6, <2>1, <2>2 DEF ArmedInTime
<1> QED
  BY <1>8, <1>9, <1>10, <1>11 DEF IInv

LEMMA ExpireKeeps ==
    ASSUME IInv, expire
    PROVE  IInv'
<1>1. /\ ce' = [ce EXCEPT !.armed = FALSE, !.pending = TRUE]
      /\ UNCHANGED <<clock, timer, base, calls, handler>>
  BY DEF expire
<1>2. ce \in CERecord
  BY Types DEF IInv
<1>3. ce' \in CERecord /\ ce'.pending
  BY <1>1, <1>2 DEF CERecord
<1> QED
  BY <1>1, <1>3
  DEF IInv, TypeOK, CERecord, QueueOK, Ordered, LagInv, KeeperInv, NeverStops, ArmedInTime

LEMMA TickKeeps ==
    ASSUME IInv, Tick
    PROVE  IInv'
<1>1. MayTick /\ clock' = clock + 1 /\ UNCHANGED <<timer, base, ce, calls, handler>>
  BY DEF Tick
<1>2. clock \in Nat /\ MaxLag \in Nat /\ handler.now \in Nat
  BY Types, TimerAssumption DEF IInv, HandlerRecord
<1>3. \A call \in calls : call.now \in Nat /\ call.interval \in Nat
  BY Types DEF IInv
<1>4. LagInv'
  BY <1>1, <1>2, <1>3 DEF MayTick, IInv, LagInv
<1> QED
  BY <1>1, <1>2, <1>4
  DEF IInv, TypeOK, QueueOK, Ordered, KeeperInv, NeverStops, ArmedInTime

LEMMA NextKeeps == IInv /\ [Next]_vars => IInv'
<1> SUFFICES ASSUME IInv, [Next]_vars PROVE IInv'
  OBVIOUS
<1>1. CASE driver_call
  BY <1>1, StartNowKeeps, CancelKeeps, CallbackStartKeeps DEF driver_call
<1>2. CASE \E call \in calls : timer_start_locked(call)
  BY <1>2, StartLockedKeeps
<1>3. CASE interrupt
  BY <1>3, InterruptKeeps
<1>4. CASE timer_event_call
  BY <1>4, EventCallKeeps
<1>5. CASE callback_return
  <2>1. Intervals \subseteq Nat /\ KeeperInterval \in Nat
    BY TimerAssumption
  <2> QED
    BY <1>5, <2>1, CallbackStopKeeps, CallbackRestartKeeps DEF callback_return
<1>6. CASE timer_event_done
  BY <1>6, EventDoneKeeps
<1>7. CASE expire
  BY <1>7, ExpireKeeps
<1>8. CASE Tick
  BY <1>8, TickKeeps
<1>9. CASE UNCHANGED vars
  BY <1>9 DEF vars, IInv, TypeOK, QueueOK, Ordered, LagInv, KeeperInv, NeverStops, ArmedInTime
<1> QED
  BY <1>1, <1>2, <1>3, <1>4, <1>5, <1>6, <1>7, <1>8, <1>9
  DEF Next, Step, timer_event_handler

-----------------------------------------------------------------------------
(* What holds of every behaviour.                                          *)

\* The inductive invariant holds throughout.
THEOREM TimerInvariance == Spec => []IInv
BY Initially, NextKeeps, PTL DEF Spec

\* The variables keep their types.
THEOREM TimerTypes == Spec => []TypeOK
<1>1. IInv => TypeOK
  BY DEF IInv
<1> QED
  BY <1>1, TimerInvariance, PTL

\* The states of the timers, the tree and the cached first timer agree.
THEOREM TreeStaysOrdered == Spec => []QueueOK
<1>1. IInv => QueueOK
  BY DEF IInv
<1> QED
  BY <1>1, TimerInvariance, PTL

\* Outside the handler the counter always runs or its interrupt is pending,
\* whatever the tasks do: the timers cannot stop.
THEOREM TimersNeverStop == Spec => []NeverStops
<1>1. IInv => NeverStops
  BY DEF IInv
<1> QED
  BY <1>1, TimerInvariance, PTL

\* With prompt tasks the counter is set for the first timer, at most Slack late.
THEOREM CounterSetInTime == Spec => []ArmedInTime
<1>1. IInv => ArmedInTime
  BY DEF IInv
<1> QED
  BY <1>1, TimerInvariance, PTL

-----------------------------------------------------------------------------
(* Every step is one of TimerService.                                      *)

LEMMA DeadlineSet ==
    ASSUME TypeOK, NEW t \in Timers, NEW x \in Nat,
           timer' = [timer EXCEPT ![t] = [state |-> ENQUEUED, expires |-> x]]
    PROVE  deadline' = [deadline EXCEPT ![t] = x] /\ deadline'[t] \in Nat
<1>1. timer \in [Timers -> TimerRecord]
  BY Types
<1>2. timer'[t].state = ENQUEUED /\ timer'[t].expires = x
  BY <1>1
<1>3. \A u \in Timers : u # t => timer'[u] = timer[u]
  BY <1>1
<1> DEFINE At(tm, u) == IF tm[u].state = ENQUEUED THEN tm[u].expires ELSE -1
<1>4. deadline = [u \in Timers |-> At(timer, u)] /\ deadline' = [u \in Timers |-> At(timer', u)]
  BY DEF deadline
<1>5. At(timer', t) = x /\ \A u \in Timers : u # t => At(timer', u) = At(timer, u)
  BY <1>2, <1>3
<1> HIDE DEF At
<1> QED
  BY <1>4, <1>5

LEMMA DeadlineCleared ==
    ASSUME TypeOK, NEW t \in Timers, NEW s, s # ENQUEUED,
           timer' = [timer EXCEPT ![t].state = s]
    PROVE  deadline' = [deadline EXCEPT ![t] = -1]
<1>1. timer \in [Timers -> TimerRecord]
  BY Types
<1>2. timer'[t].state = s
  BY <1>1 DEF TimerRecord
<1>3. \A u \in Timers : u # t => timer'[u] = timer[u]
  BY <1>1
<1> DEFINE At(tm, u) == IF tm[u].state = ENQUEUED THEN tm[u].expires ELSE -1
<1>4. deadline = [u \in Timers |-> At(timer, u)] /\ deadline' = [u \in Timers |-> At(timer', u)]
  BY DEF deadline
<1>5. At(timer', t) = -1 /\ \A u \in Timers : u # t => At(timer', u) = At(timer, u)
  BY <1>2, <1>3
<1> HIDE DEF At
<1> QED
  BY <1>4, <1>5

LEMMA StartRefines ==
    ASSUME TypeOK, QueueOK, NEW t \in Timers, t # handler.timer,
           NEW now \in Nat, NEW interval \in Nat, timer_start(t, now, interval),
           UNCHANGED <<clock, handler>>
    PROVE  Service!Start(t)
<1>1. timer' = [timer EXCEPT ![t] = [state |-> ENQUEUED, expires |-> now + interval]]
  BY TimerStart
<1>2. now + interval \in Nat
  OBVIOUS
<1>3. deadline' = [deadline EXCEPT ![t] = now + interval] /\ deadline'[t] \in Nat
  BY <1>1, <1>2, DeadlineSet
<1>4. deadline'[t] = now + interval
  BY <1>3 DEF deadline
<1> QED
  BY <1>3, <1>4 DEF Service!Start

LEMMA DriverCallRefines ==
    ASSUME IInv, driver_call
    PROVE  [Service!Next]_(Service!vars)
<1>1. ASSUME NEW c \in Callers, NEW t \in Timers, NEW i \in Intervals, timer_start_now(c, t, i)
      PROVE  UNCHANGED Service!vars
  BY <1>1 DEF timer_start_now, Service!vars, deadline
<1>2. ASSUME NEW t \in Timers, timer_cancel(t) PROVE Service!Next
  <2>1. ~handler.active /\ timer' = [timer EXCEPT ![t].state = Unqueued(t)]
        /\ UNCHANGED <<clock, handler>>
    BY <1>2 DEF timer_cancel
  <2>2. Unqueued(t) # ENQUEUED
    BY DEF Unqueued, INACTIVE, ENQUEUED
  <2>3. deadline' = [deadline EXCEPT ![t] = -1]
    BY <2>1, <2>2, DeadlineCleared DEF IInv
  <2>4. t # handler.timer
    BY <2>1, TimerAssumption DEF IInv, LagInv
  <2>5. Service!Cancel(t)
    BY <2>1, <2>3, <2>4 DEF Service!Cancel, Service!Never
  <2> QED
    BY <2>5 DEF Service!Next
<1>3. ASSUME NEW t \in Timers, NEW i \in Intervals, callback_start(t, i) PROVE Service!Next
  <2>1. clock \in Nat /\ i \in Nat
    BY TimerAssumption DEF IInv, TypeOK
  <2>2. Service!Start(t)
    BY <1>3, <2>1, StartRefines DEF callback_start, IInv
  <2> QED
    BY <2>2 DEF Service!Next
<1> QED
  BY <1>1, <1>2, <1>3 DEF driver_call

LEMMA StartLockedRefines ==
    ASSUME IInv, NEW call \in calls, timer_start_locked(call)
    PROVE  Service!Next
<1>1. call.timer \in Timers /\ call.now \in Nat /\ call.interval \in Nat
  BY Types DEF IInv
<1>2. call.timer # handler.timer
  BY <1>1, TimerAssumption DEF timer_start_locked, IInv, LagInv
<1>3. Service!Start(call.timer)
  BY <1>1, <1>2, StartRefines DEF timer_start_locked, IInv
<1> QED
  BY <1>1, <1>3 DEF Service!Next

LEMMA EventCallRefines ==
    ASSUME IInv, timer_event_call
    PROVE  Service!Next
<1> DEFINE t == base.next
<1>1. /\ handler.active /\ handler.timer = NoTimer
      /\ t # NoTimer /\ handler.now >= timer[t].expires
      /\ timer' = [timer EXCEPT ![t].state = CALLBACK]
      /\ handler' = [handler EXCEPT !.timer = t]
      /\ UNCHANGED clock
  BY DEF timer_event_call, Due
<1>2. /\ timer \in [Timers -> TimerRecord] /\ handler \in HandlerRecord /\ clock \in Nat
      /\ handler.now <= clock /\ handler.now \in Nat
      /\ t \in Timers /\ t \in base.head /\ timer[t].expires \in Nat
      /\ \A u \in base.head : timer[t].expires <= timer[u].expires
  BY <1>1, Types DEF IInv, LagInv, QueueOK, Ordered, BaseRecord, HandlerRecord
<1> HIDE DEF t
<1>3. handler'.timer = t
  BY <1>1, <1>2 DEF HandlerRecord
<1>4. deadline' = [deadline EXCEPT ![t] = -1]
  BY <1>1, <1>2, DeadlineCleared DEF IInv, CALLBACK, ENQUEUED
<1>5. \A u \in Timers : u \in base.head <=> timer[u].state = ENQUEUED
  BY DEF IInv, QueueOK
<1>6. \A u \in base.head : u \in Timers /\ deadline[u] = timer[u].expires
  BY <1>5, Types DEF deadline, IInv, BaseRecord
<1>7. Service!Set \subseteq base.head
  BY <1>5 DEF Service!Set, Service!Never, deadline
<1>8. t \in Service!Set /\ deadline[t] <= clock
  BY <1>1, <1>2, <1>6 DEF Service!Set, Service!Never
<1>9. \A u \in Service!Set : deadline[t] <= deadline[u]
  BY <1>2, <1>6, <1>7
<1>10. Service!Call(t)
  BY <1>1, <1>3, <1>4, <1>8, <1>9 DEF Service!Call, Service!Never
<1> QED
  BY <1>2, <1>10 DEF Service!Next

LEMMA CallbackReturnRefines ==
    ASSUME IInv, callback_return
    PROVE  Service!Next
<1> DEFINE t == handler.timer
<1>1. /\ t # NoTimer /\ handler' = [handler EXCEPT !.timer = NoTimer] /\ UNCHANGED clock
  BY DEF callback_return, callback_stop, callback_restart
<1>2. /\ timer \in [Timers -> TimerRecord] /\ handler \in HandlerRecord /\ clock \in Nat
      /\ t \in Timers /\ timer[t].state = CALLBACK
  BY <1>1, Types DEF IInv, QueueOK, HandlerRecord
<1>3. handler'.timer = NoTimer
  BY <1>1, <1>2 DEF HandlerRecord
<1>4. CASE callback_stop
  <2>1. timer' = [timer EXCEPT ![t].state = INACTIVE]
    BY <1>4 DEF callback_stop
  <2>2. deadline' = [deadline EXCEPT ![t] = -1]
    BY <1>2, <2>1, DeadlineCleared DEF IInv, INACTIVE, ENQUEUED
  <2>3. deadline[t] = -1
    BY <1>2 DEF deadline, CALLBACK, ENQUEUED
  <2>4. deadline' = deadline
    BY <2>2, <2>3 DEF deadline
  <2>5. Service!Return(t)
    BY <1>1, <1>3, <2>4 DEF Service!Return
  <2> QED
    BY <1>2, <2>5 DEF Service!Next
<1>5. ASSUME NEW i \in Nat, callback_restart(i) PROVE Service!Next
  <2>1. timer' = [timer EXCEPT ![t] = [state |-> ENQUEUED, expires |-> clock + i]]
    BY <1>5 DEF callback_restart, ktime_add_safe
  <2>2. clock + i \in Nat /\ clock + i >= clock
    BY <1>2
  <2>3. deadline' = [deadline EXCEPT ![t] = clock + i]
    BY <1>2, <2>1, <2>2, DeadlineSet DEF IInv
  <2>4. deadline'[t] = clock + i
    BY <1>2, <2>3 DEF deadline
  <2>5. Service!Return(t)
    BY <1>1, <1>3, <2>2, <2>3, <2>4 DEF Service!Return
  <2> QED
    BY <1>2, <2>5 DEF Service!Next
<1> QED
  BY <1>4, <1>5, TimerAssumption DEF callback_return

LEMMA ServiceInit == Init => Service!Init
<1> SUFFICES ASSUME Init PROVE Service!Init
  OBVIOUS
<1>1. TypeOK
  BY Initially DEF IInv
<1>2. deadline \in [Timers -> Nat \cup {-1}]
  BY <1>1, Types DEF deadline
<1> QED
  BY <1>1, <1>2 DEF Init, TypeOK, Service!Init, Service!Never

LEMMA ServiceNext == IInv /\ [Next]_vars => [Service!Next]_(Service!vars)
<1> SUFFICES ASSUME IInv, [Next]_vars PROVE [Service!Next]_(Service!vars)
  OBVIOUS
<1>1. CASE driver_call
  BY <1>1, DriverCallRefines
<1>2. CASE \E call \in calls : timer_start_locked(call)
  BY <1>2, StartLockedRefines
<1>3. CASE timer_event_call
  BY <1>3, EventCallRefines
<1>4. CASE callback_return
  BY <1>4, CallbackReturnRefines
<1>5. CASE interrupt \/ timer_event_done \/ expire
  <2>1. handler'.timer = handler.timer
    <3>1. handler \in HandlerRecord /\ (~handler.active => handler.timer = NoTimer)
      BY Types DEF IInv, LagInv
    <3> QED
      BY <1>5, <3>1 DEF interrupt, timer_event_done, expire, HandlerRecord
  <2>2. UNCHANGED <<clock, timer>>
    BY <1>5 DEF interrupt, timer_event_done, expire
  <2> QED
    BY <2>1, <2>2 DEF Service!vars, deadline
<1>6. CASE Tick
  <2>1. Service!Tick
    BY <1>6 DEF Tick, Service!Tick, deadline
  <2> QED
    BY <2>1 DEF Service!Next
<1>7. CASE UNCHANGED vars
  BY <1>7 DEF vars, Service!vars, deadline
<1> QED
  BY <1>1, <1>2, <1>3, <1>4, <1>5, <1>6, <1>7 DEF Next, Step, timer_event_handler

\* The timers keep the promise of TimerService: a callback for each start, not
\* before its time, the earliest first, none after a cancel.
THEOREM TimersImplementService == Spec => ImplementsTimerService
BY ServiceInit, ServiceNext, TimerInvariance, PTL DEF Spec, ImplementsTimerService, Service!Spec

-----------------------------------------------------------------------------
(* Quotients                                                               *)

\* A quotient, rounded down.
LEMMA Quotient ==
    ASSUME NEW a \in Nat, NEW p \in Nat \ {0}
    PROVE  a \div p \in Nat /\ p * (a \div p) <= a /\ a < p * (a \div p) + p
OBVIOUS

\* What a quotient is.
LEMMA QuotientIs ==
    ASSUME NEW a \in Nat, NEW p \in Nat \ {0}, NEW q \in Nat, p * q <= a, a < p * q + p
    PROVE  a \div p = q
OBVIOUS

\* A larger number has no smaller quotient.
LEMMA QuotientMono ==
    ASSUME NEW a \in Nat, NEW b \in Nat, NEW p \in Nat \ {0}, a <= b
    PROVE  a \div p <= b \div p
OBVIOUS

\* Rounding a sum down loses no more than rounding its parts, which lose one more at most.
LEMMA QuotientSum ==
    ASSUME NEW a \in Nat, NEW b \in Nat, NEW p \in Nat \ {0}
    PROVE  /\ a \div p + b \div p <= (a + b) \div p
           /\ (a + b) \div p <= a \div p + b \div p + 1
OBVIOUS

\* A remainder.
LEMMA Remainder ==
    ASSUME NEW a \in Nat, NEW p \in Nat \ {0}
    PROVE  a % p \in 0..(p - 1) /\ a = p * (a \div p) + (a % p)
OBVIOUS

\* What fits is not changed by % .
LEMMA RemainderOfSmall ==
    ASSUME NEW a \in Nat, NEW p \in Nat \ {0}, a < p
    PROVE  a % p = a
OBVIOUS

\* Products grow with their factors.
LEMMA ProductMono ==
    ASSUME NEW x \in Nat, NEW y \in Nat, NEW z \in Nat, x <= y
    PROVE  x * z <= y * z /\ z * x <= z * y
OBVIOUS

\* A product of numbers is a number.
LEMMA MulNat == ASSUME NEW x \in Nat, NEW y \in Nat PROVE x * y \in Nat
OBVIOUS

\* Products grow with both of their factors.
LEMMA ProductLess ==
    ASSUME NEW a \in Nat, NEW b \in Nat, NEW c \in Nat, NEW d \in Nat, a < b, c < d
    PROVE  a * c < b * d /\ a * c \in Nat /\ b * d \in Nat
<1>1. a * c <= a * d /\ a * d < b * d
  <2>1. a * c <= a * d
    BY ProductMono
  <2>2. (b - a) * d > 0
    OBVIOUS
  <2> QED
    BY <2>1, <2>2
<1> QED
  BY <1>1

\* A product over a power of two, rounded down: what a conversion is.
Floored(k, m, p) == (k * m) \div p

\* What the keeper loses with each run: less than one.
LEMMA FlooredSum ==
    ASSUME NEW a \in Nat, NEW b \in Nat, NEW m \in Nat, NEW p \in Nat \ {0}
    PROVE  /\ Floored(a, m, p) \in Nat
           /\ Floored(a, m, p) + Floored(b, m, p) <= Floored(a + b, m, p)
           /\ Floored(a + b, m, p) <= Floored(a, m, p) + Floored(b, m, p) + 1
<1>1. a * m \in Nat /\ b * m \in Nat /\ (a + b) * m = a * m + b * m
  OBVIOUS
<1> QED
  BY <1>1, Quotient, QuotientSum DEF Floored

\* More counts are no less time.
LEMMA FlooredMono ==
    ASSUME NEW a \in Nat, NEW b \in Nat, NEW m \in Nat, NEW p \in Nat \ {0}, a <= b
    PROVE  Floored(a, m, p) <= Floored(b, m, p)
<1>1. a * m \in Nat /\ b * m \in Nat /\ a * m <= b * m
  BY ProductMono
<1> QED
  BY <1>1, QuotientMono DEF Floored

\* What two readings of the counter are apart, however often it has wrapped.
LEMMA WrappedDelta ==
    ASSUME NEW n \in Nat \ {0}, NEW a \in Nat, NEW c \in Nat, a <= c, c - a < n
    PROVE  (IF (a % n) < (c % n) THEN (c % n) - (a % n) ELSE (n - (a % n) + (c % n)) % n) = c - a
<1> DEFINE qa == a \div n
           ra == a % n
           qc == c \div n
           rc == c % n
<1>1. qa \in Nat /\ qc \in Nat /\ ra \in 0..(n - 1) /\ rc \in 0..(n - 1) /\ a = n * qa + ra /\ c = n * qc + rc
  BY Quotient, Remainder
<1>2. qa <= qc
  BY QuotientMono
<1>3. n * qc - n * qa = n * (qc - qa) /\ qc - qa \in Nat
  BY <1>1, <1>2
<1>4. qc - qa \in {0, 1}
  <2>1. SUFFICES ASSUME qc - qa >= 2 PROVE FALSE
    BY <1>3
  <2>2. n * (qc - qa) >= n * 2
    BY <2>1, <1>3, ProductMono
  <2> QED
    BY <1>1, <1>3, <2>2
<1>5. CASE qc - qa = 0
  <2>1. c - a = rc - ra
    BY <1>1, <1>3, <1>5
  <2>2. CASE ra = rc
    <3>1. (n - ra + rc) % n = 0
      BY <2>2, <1>1
    <3> QED
      BY <2>1, <2>2, <3>1, <1>1
  <2>3. CASE ra < rc
    BY <2>1, <2>3, <1>1
  <2> QED
    BY <2>1, <2>2, <2>3, <1>1
<1>6. CASE qc - qa = 1
  <2>1. c - a = n + rc - ra
    BY <1>1, <1>3, <1>6
  <2>2. ~(ra < rc)
    BY <2>1, <1>1
  <2>3. n - ra + rc \in Nat /\ n - ra + rc < n
    BY <2>1, <2>2, <1>1
  <2>4. (n - ra + rc) % n = n - ra + rc
    BY <2>3, RemainderOfSmall
  <2> QED
    BY <2>1, <2>2, <2>4, <1>1
<1> QED
  BY <1>4, <1>5, <1>6

-----------------------------------------------------------------------------
(* The factors                                                             *)

\* A set of numbers has a least one.
LEMMA LeastElement ==
    ASSUME NEW S \in SUBSET Nat, S # {}
    PROVE  \E n \in S : \A m \in S : n <= m
<1> DEFINE R == OpToRel(<, Nat)
<1>1. IsWellFoundedOn(R, Nat)
  BY NatLessThanWellFounded
<1>2. PICK n \in S : \A m \in S : ~(<<m, n>> \in R)
  BY <1>1, WFMin, Zenon
<1>3. \A m \in S : ~(m < n)
  BY <1>2 DEF OpToRel
<1> QED
  BY <1>3

\* What is used of powers of two.
LEMMA Powers ==
    /\ WordBits \in Nat /\ Bits \in 0..WordBits
    /\ \A j \in 0..2 * WordBits : 2^j \in Nat \ {0}
    /\ \A j \in 0..WordBits : 2^j * 2^(WordBits - j) = 2^WordBits
    /\ \A j \in 0..WordBits : 2^j <= 2^WordBits
    /\ 2^WordBits * 2^WordBits = 2^(2 * WordBits)
<1>1. WordBits \in Nat /\ Bits \in 0..WordBits
  BY ClocksourceAssumption
<1>2. \A j \in 0..2 * WordBits : 2^j \in Nat \ {0}
  BY <1>1, PowersOfTwo
<1>3. ASSUME NEW j \in 0..WordBits
      PROVE  2^j * 2^(WordBits - j) = 2^WordBits /\ 2^j <= 2^WordBits
  <2>1. j \in 0..2 * WordBits /\ WordBits - j \in 0..2 * WordBits - j /\ j + (WordBits - j) = WordBits
    BY <1>1
  <2>2. 2^j * 2^(WordBits - j) = 2^(j + (WordBits - j))
    BY <2>1, PowersOfTwo
  <2>3. 2^j \in Nat \ {0} /\ 2^(WordBits - j) \in Nat \ {0}
    BY <1>1, <1>2
  <2>4. 2^j * 1 <= 2^j * 2^(WordBits - j)
    BY <2>3, ProductMono
  <2> QED
    BY <2>1, <2>2, <2>3, <2>4
<1>4. 2^WordBits * 2^WordBits = 2^(2 * WordBits)
  <2>1. WordBits \in 0..2 * WordBits /\ WordBits \in 0..2 * WordBits - WordBits /\ WordBits + WordBits = 2 * WordBits
    BY <1>1
  <2>2. 2^WordBits * 2^WordBits = 2^(WordBits + WordBits)
    BY <2>1, PowersOfTwo
  <2> QED
    BY <2>1, <2>2
<1> QED
  BY <1>1, <1>2, <1>3, <1>4

\* Overflow() finds the bits it looks for.
LEMMA OverflowFits ==
    ASSUME NEW from \in Hz
    PROVE  Overflow(from) \in 0..WordBits /\ (maxsec * from) \div 2^WordBits < 2^Overflow(from)
<1> DEFINE A == (maxsec * from) \div 2^WordBits
           K == {k \in 0..WordBits : A < 2^k}
<1>1. maxsec * from \in Nat /\ maxsec * from < 2^(2 * WordBits)
  BY ClocksourceAssumption, RatesFit, MulNat
<1>2. 2^WordBits \in Nat \ {0} /\ 2^WordBits * 2^WordBits = 2^(2 * WordBits) /\ WordBits \in Nat
  BY Powers
<1>3. A \in Nat /\ A < 2^WordBits
  <2>1. A \in Nat /\ 2^WordBits * A <= maxsec * from
    BY <1>1, <1>2, Quotient
  <2>2. A >= 2^WordBits => 2^WordBits * 2^WordBits <= 2^WordBits * A
    BY <2>1, <1>2, ProductMono
  <2> QED
    BY <1>1, <1>2, <2>1, <2>2
<1>4. PICK n \in K : \A m \in K : n <= m
  <2>1. WordBits \in K /\ K \in SUBSET Nat
    BY <1>2, <1>3
  <2> QED
    BY <2>1, LeastElement
<1>5. n > 0 => A >= 2^(n - 1)
  <2>1. SUFFICES ASSUME n > 0 PROVE A >= 2^(n - 1)
    OBVIOUS
  <2>2. n - 1 \in 0..WordBits /\ n - 1 \notin K
    BY <1>2, <1>4, <2>1
  <2>3. 2^(n - 1) \in Nat
    BY <2>2, <1>2, Powers
  <2> QED
    BY <2>2, <2>3, <1>3
<1>6. \E k \in 0..WordBits : A < 2^k /\ (k > 0 => A >= 2^(k - 1))
  BY <1>4, <1>5
<1> QED
  BY <1>6 DEF Overflow

\* The factor that is chosen.
LEMMA FactorChosen ==
    ASSUME NEW from \in Hz
    PROVE  LET c == clocksource_calc_mult_shift(from, NSEC_PER_SEC) IN
           /\ c[2] \in 1..WordBits
           /\ c[1] = Rounded(NSEC_PER_SEC, from, c[2])
           /\ c[1] \div 2^(WordBits - Overflow(from)) = 0
<1> DEFINE F == Fitting(from, NSEC_PER_SEC)
           G == {WordBits - f : f \in F}
<1>1. F # {} /\ F \subseteq 1..WordBits /\ WordBits \in Nat
  BY RatesFit, Powers DEF Fitting
<1>2. G \in SUBSET Nat /\ G # {}
  BY <1>1
<1>3. PICK g \in G : \A h \in G : g <= h
  BY <1>2, LeastElement
<1>4. PICK s \in F : g = WordBits - s
  BY <1>3
<1>5. \A u \in F : u <= s
  BY <1>1, <1>3, <1>4
<1>6. PICK t \in F : t = CHOOSE v \in F : \A u \in F : u <= v
  BY <1>5
<1>7. clocksource_calc_mult_shift(from, NSEC_PER_SEC) = <<Rounded(NSEC_PER_SEC, from, t), t>>
  BY <1>1, <1>6 DEF clocksource_calc_mult_shift
<1>8. t \in 1..WordBits /\ Rounded(NSEC_PER_SEC, from, t) \div 2^(WordBits - Overflow(from)) = 0
  BY <1>6 DEF Fitting
<1> QED
  BY <1>7, <1>8

\* What clocksource_calc_mult_shift() gives is right, and nothing overflows.
LEMMA Conversion ==
    ASSUME NEW from \in Hz, NEW m, NEW s,
           m = clocksource_calc_mult_shift(from, NSEC_PER_SEC)[1],
           s = clocksource_calc_mult_shift(from, NSEC_PER_SEC)[2]
    PROVE  /\ m \in 1..(2^WordBits - 1) /\ s \in 0..WordBits /\ 2^s \in Nat \ {0}
           /\ maxsec * from * m < 2^(2 * WordBits)
           /\ 2 * (m * from - NSEC_PER_SEC * 2^s) \in (-from)..from
           /\ mask * m < 2^(2 * WordBits)
           /\ Floored(mask, m, 2^s) \div 2 <= Floored(mask - Late, m, 2^s)
<1> DEFINE R == WordBits - Overflow(from)
           to == NSEC_PER_SEC
<1>1. s \in 1..WordBits /\ m = Rounded(to, from, s) /\ m \div 2^R = 0
  BY FactorChosen
<1>2. /\ WordBits \in Nat /\ Overflow(from) \in 0..WordBits /\ R \in 0..WordBits
      /\ 2^s \in Nat \ {0} /\ 2^R \in Nat \ {0} /\ 2^Overflow(from) \in Nat \ {0}
      /\ 2^WordBits \in Nat \ {0} /\ 2^R <= 2^WordBits
      /\ 2^Overflow(from) * 2^R = 2^WordBits /\ 2^WordBits * 2^WordBits = 2^(2 * WordBits)
  BY <1>1, Powers, OverflowFits
<1>3. from \in Nat \ {0} /\ to \in Nat /\ from <= to /\ maxsec \in Nat /\ Late \in Nat
  BY ClocksourceAssumption
<1>4. m \in Nat /\ from * m <= to * 2^s + from \div 2 /\ to * 2^s + from \div 2 < from * m + from
  <2>1. to * 2^s \in Nat /\ from \div 2 \in Nat
    BY <1>2, <1>3, MulNat, Quotient
  <2>2. to * 2^s + from \div 2 \in Nat
    BY <2>1
  <2> QED
    BY <1>1, <1>3, <2>2, Quotient DEF Rounded
<1>5. m < 2^R
  BY <1>1, <1>2, <1>4, Quotient
<1>6. m >= 1
  <2>1. to * 2^s >= from
    <3>1. to * 1 <= to * 2^s
      BY <1>2, <1>3, ProductMono
    <3> QED
      BY <1>2, <1>3, <3>1, MulNat
  <2>2. from \div 2 \in Nat
    BY <1>3
  <2> QED
    BY <1>2, <1>3, <1>4, <2>1, <2>2, MulNat
<1>7. 2 * (m * from - to * 2^s) \in (-from)..from
  <2>1. 2 * (from \div 2) <= from /\ from < 2 * (from \div 2) + 2 /\ from \div 2 \in Nat
    BY <1>3
  <2>2. m * from = from * m /\ from * m \in Nat /\ to * 2^s \in Nat
    BY <1>2, <1>3, <1>4, MulNat
  <2> QED
    BY <1>3, <1>4, <2>1, <2>2
<1>8. maxsec * from * m < 2^(2 * WordBits)
  <2> DEFINE A == maxsec * from
  <2>1. A \in Nat /\ A \div 2^WordBits \in Nat /\ A < 2^WordBits * (A \div 2^WordBits) + 2^WordBits
    BY <1>2, <1>3, MulNat, Quotient
  <2>2. A \div 2^WordBits + 1 <= 2^Overflow(from)
    BY <1>2, <2>1, OverflowFits
  <2>3. A < 2^WordBits * 2^Overflow(from)
    <3>1. 2^WordBits * (A \div 2^WordBits + 1) <= 2^WordBits * 2^Overflow(from)
      BY <1>2, <2>1, <2>2, ProductMono
    <3>2. 2^WordBits * (A \div 2^WordBits + 1) = 2^WordBits * (A \div 2^WordBits) + 2^WordBits
      BY <1>2, <2>1
    <3> QED
      BY <1>2, <2>1, <3>1, <3>2, MulNat
  <2>4. A * m < (2^WordBits * 2^Overflow(from)) * 2^R
    BY <1>2, <1>4, <1>5, <2>1, <2>3, ProductLess, MulNat
  <2>5. (2^WordBits * 2^Overflow(from)) * 2^R = 2^WordBits * (2^Overflow(from) * 2^R)
    BY <1>2
  <2> QED
    BY <1>2, <2>4, <2>5
<1>9. mask \in Nat /\ mask < 2^WordBits /\ Late < mask
  BY Powers, RatesFit DEF mask
<1>10. mask * m < 2^(2 * WordBits)
  BY <1>2, <1>4, <1>5, <1>9, ProductLess
<1>11. Floored(mask, m, 2^s) \div 2 <= Floored(mask - Late, m, 2^s)
  BY RatesFit DEF Floored
<1> QED
  BY <1>1, <1>2, <1>4, <1>5, <1>6, <1>7, <1>8, <1>10, <1>11

-----------------------------------------------------------------------------
(* What the clock source keeps                                             *)

ReaderRecord ==
    [at : {"idle", "cycle", "offset", "retry", "nsec", "returns"}, seq : Nat, now : 0..mask, offset : Nat,
     value : Nat, since : Nat, torn : BOOLEAN, begun : Nat, runs : Nat]

FactorInv ==
    /\ hz \in Hz
    /\ mult = clocksource_calc_mult_shift(hz, NSEC_PER_SEC)[1]
    /\ shift = clocksource_calc_mult_shift(hz, NSEC_PER_SEC)[2]

ClockTypes ==
    /\ cycle \in 0..MaxCycles /\ latest \in Nat
    /\ keeper \in [last : 0..mask, nsec : Nat, sequence : Nat]
    /\ ran \in [in : Nat, times : Nat]
    /\ reader \in [Readers -> ReaderRecord]

\* The keeper is never so late that the counter has wrapped, and what it has
\* added up lacks less than one for each time it ran.
KeeperRuns ==
    /\ ran.in <= cycle /\ cycle - ran.in <= mask
    /\ cycle - ran.in <= Late + 1 \/ Exact(cycle - ran.in - Late - 1) < keeper_interval
    /\ keeper.last = ran.in % 2^Bits /\ keeper.sequence = 2 * ran.times
    /\ Exact(ran.in) - ran.times <= keeper.nsec /\ keeper.nsec <= Exact(ran.in)
    /\ latest <= keeper.nsec + Exact(cycle - ran.in)

\* A cycle that the reader has seen since it began and the keeper ran last.
Seen(r, c) == reader[r].begun <= c /\ ran.in <= c /\ c <= cycle

\* What a call that has begun knows: the time is still not before the one at
\* which it began, nor before the latest that was returned then.
Begun(r) ==
    /\ reader[r].begun <= cycle /\ reader[r].seq <= keeper.sequence
    /\ \/ ran.in <= reader[r].begun /\ ran.times = reader[r].runs
       \/ keeper.nsec >= Exact(reader[r].begun) - reader[r].runs - 1
    /\ \/ ran.in <= reader[r].begun /\ reader[r].since <= keeper.nsec + Exact(reader[r].begun - ran.in)
       \/ reader[r].since <= keeper.nsec

ReaderKnows(r) ==
    /\ reader[r].at \in {"cycle", "offset", "retry", "nsec"} => Begun(r)
    /\ reader[r].at \in {"cycle", "offset", "retry"} => ~reader[r].torn
    /\ reader[r].at = "offset" /\ reader[r].seq = keeper.sequence =>
         \E c \in Nat : Seen(r, c) /\ reader[r].now = c % 2^Bits
    /\ reader[r].at = "retry" /\ reader[r].seq = keeper.sequence =>
         \E c \in Nat : Seen(r, c) /\ reader[r].offset = Exact(c - ran.in)
    /\ reader[r].at = "nsec" /\ ~reader[r].torn =>
         \E c \in Nat : Seen(r, c) /\ reader[r].offset = Exact(c - ran.in)
    /\ reader[r].at = "nsec" /\ reader[r].torn =>
         /\ keeper.nsec >= Exact(reader[r].begun) - reader[r].runs - 1
         /\ reader[r].offset <= keeper_interval + Exact(Late + 1)

ClockInv == FactorInv /\ ClockTypes /\ KeeperRuns /\ TimePasses /\ \A r \in Readers : ReaderKnows(r)

\* The conversion as the steps use it.
LEMMA Converting ==
    ASSUME FactorInv
    PROVE  /\ \A a \in Nat : Exact(a) \in Nat
           /\ \A a, b \in Nat : Exact(a) + Exact(b) <= Exact(a + b) /\ Exact(a + b) <= Exact(a) + Exact(b) + 1
           /\ \A a, b \in Nat : a <= b => Exact(a) <= Exact(b)
           /\ \A d \in 0..mask : clocksource_delta2ns(d) = Exact(d)
           /\ \A d \in Nat : clocksource_delta2ns(d) \in Nat
           /\ Exact(0) = 0
           /\ keeper_interval \in Nat /\ keeper_interval <= Exact(mask - Late)
           /\ mask \in Nat /\ Late \in Nat /\ Late < mask /\ 2^Bits \in Nat \ {0} /\ mask = 2^Bits - 1
<1>1. /\ mult \in Nat /\ 2^shift \in Nat \ {0} /\ mask * mult < 2^(2 * WordBits)
      /\ Floored(mask, mult, 2^shift) \div 2 <= Floored(mask - Late, mult, 2^shift)
  BY Conversion, Powers DEF FactorInv
<1>2. mask \in Nat /\ Late \in Nat /\ Late < mask /\ 2^Bits \in Nat \ {0} /\ mask = 2^Bits - 1
  BY Powers, RatesFit, ClocksourceAssumption DEF mask
<1>3. \A a \in Nat : Exact(a) = Floored(a, mult, 2^shift)
  BY DEF Exact, Floored
<1>4. ASSUME NEW a \in Nat, NEW b \in Nat
      PROVE  Exact(a) \in Nat /\ Exact(a) + Exact(b) <= Exact(a + b) /\ Exact(a + b) <= Exact(a) + Exact(b) + 1
  <2>1. Exact(a) = Floored(a, mult, 2^shift) /\ Exact(b) = Floored(b, mult, 2^shift) /\ Exact(a + b) = Floored(a + b, mult, 2^shift)
    BY <1>3
  <2>2. /\ Floored(a, mult, 2^shift) \in Nat
        /\ Floored(a, mult, 2^shift) + Floored(b, mult, 2^shift) <= Floored(a + b, mult, 2^shift)
        /\ Floored(a + b, mult, 2^shift) <= Floored(a, mult, 2^shift) + Floored(b, mult, 2^shift) + 1
    BY <1>1, FlooredSum, Zenon
  <2> QED
    BY <2>1, <2>2, Zenon
<1>5. ASSUME NEW a \in Nat, NEW b \in Nat, a <= b PROVE Exact(a) <= Exact(b)
  BY <1>1, <1>3, <1>5, FlooredMono
<1>6. 2^(2 * WordBits) \in Nat \ {0}
  BY Powers
<1>7. ASSUME NEW d \in 0..mask PROVE clocksource_delta2ns(d) = Exact(d)
  <2>1. d * mult \in Nat /\ d * mult <= mask * mult /\ mask * mult \in Nat
    BY <1>1, <1>2, MulNat, ProductMono
  <2>2. (d * mult) % 2^(2 * WordBits) = d * mult
    BY <1>1, <1>6, <2>1, RemainderOfSmall
  <2> QED
    BY <2>2 DEF clocksource_delta2ns, Exact
<1>8. ASSUME NEW d \in Nat PROVE clocksource_delta2ns(d) \in Nat
  <2>1. d * mult \in Nat
    BY <1>1, MulNat
  <2>2. (d * mult) % 2^(2 * WordBits) \in Nat
    <3>1. (d * mult) % 2^(2 * WordBits) \in 0..(2^(2 * WordBits) - 1)
      BY <1>6, <2>1, Remainder
    <3> QED
      BY <1>6, <3>1
  <2> QED
    BY <1>1, <2>2, Quotient DEF clocksource_delta2ns
<1>9. Exact(0) = 0
  <2>1. 0 * mult = 0
    BY <1>1
  <2> QED
    BY <1>1, <2>1, QuotientIs DEF Exact
<1>10. keeper_interval \in Nat /\ keeper_interval <= Exact(mask - Late)
  <2>1. keeper_interval = Exact(mask) \div 2 /\ mask - Late \in Nat
    BY <1>2 DEF keeper_interval, clocksource_deferment, Exact
  <2>2. Exact(mask) \in Nat
    BY <1>2, <1>4
  <2>4. Exact(mask) \div 2 \in Nat
    BY <2>2, Quotient
  <2>3. Exact(mask) = Floored(mask, mult, 2^shift) /\ Exact(mask - Late) = Floored(mask - Late, mult, 2^shift)
    BY DEF Exact, Floored
  <2> QED
    BY <1>1, <2>1, <2>3, <2>4
<1> QED
  BY <1>2, <1>4, <1>5, <1>7, <1>8, <1>9, <1>10

\* A reading that is not older than the keeper's last run gives the counts between.
LEMMA DeltaSince ==
    ASSUME FactorInv, NEW a \in Nat, NEW c \in Nat, a <= c, c - a <= mask
    PROVE  clocksource_delta(a % 2^Bits, c % 2^Bits) = c - a
<1>1. 2^Bits \in Nat \ {0} /\ mask = 2^Bits - 1
  BY Converting
<1> DEFINE ra == a % 2^Bits
           rc == c % 2^Bits
<1>2. c - a < 2^Bits
  BY <1>1
<1>5. ra \in 0..(2^Bits - 1) /\ rc \in 0..(2^Bits - 1)
  BY <1>1, Remainder, Zenon
<1>3. (IF ra < rc THEN rc - ra ELSE (2^Bits - ra + rc) % 2^Bits) = c - a
  BY <1>1, <1>2, WrappedDelta, Zenon
<1>4. mask + 1 - ra + rc = 2^Bits - ra + rc
  BY <1>1, <1>5
<1> QED
  BY <1>3, <1>4 DEF clocksource_delta

\* What the keeper or a reader makes of a reading is a number, whenever it was read.
LEMMA DeltaType ==
    ASSUME FactorInv, NEW a \in 0..mask, NEW c \in 0..mask
    PROVE  clocksource_delta(a, c) \in Nat
<1>1. 2^Bits \in Nat \ {0} /\ mask = 2^Bits - 1
  BY Converting
<1>2. mask + 1 - a + c \in Nat
  BY <1>1
<1>3. (mask + 1 - a + c) % 2^Bits \in 0..(2^Bits - 1)
  BY <1>1, <1>2, Remainder
<1> QED
  BY <1>1, <1>3 DEF clocksource_delta

\* A clock source starts so.
LEMMA ClockStarts == ClockInit => ClockInv
<1> SUFFICES ASSUME ClockInit PROVE ClockInv
  OBVIOUS
<1>1. FactorInv
  BY DEF ClockInit, FactorInv
<1>2. mask \in Nat /\ Exact(0) = 0 /\ Late \in 0..mask - 1 /\ 2^Bits \in Nat \ {0}
  BY <1>1, Converting
<1>3. ClockTypes
  BY <1>2, ClocksourceAssumption DEF ClockInit, ClockTypes, Idle, ReaderRecord
<1>4. KeeperRuns
  <2>1. 0 % 2^Bits = 0
    BY <1>2, RemainderOfSmall
  <2> QED
    BY <1>2, <2>1 DEF ClockInit, KeeperRuns
<1>5. \A r \in Readers : reader[r].at = "idle"
  BY DEF ClockInit, Idle
<1> QED
  BY <1>1, <1>3, <1>4, <1>5 DEF ClockInv, TimePasses, ReaderKnows

\* Every step leaves the factors alone.
LEMMA FactorsStay ==
    ASSUME FactorInv, UNCHANGED <<hz, mult, shift>>
    PROVE  FactorInv' /\ (\A a : Exact(a)' = Exact(a)) /\ keeper_interval' = keeper_interval
BY DEF FactorInv, Exact, keeper_interval, clocksource_deferment

\* The steps of the counter and of other readers leave what a reader knows.
LEMMA KnowsStays ==
    ASSUME ClockInv, ClockTypes', NEW r \in Readers, UNCHANGED <<hz, mult, shift, keeper, ran>>,
           cycle <= cycle', reader'[r] = reader[r]
    PROVE  ReaderKnows(r)'
<1>1. /\ \A a : Exact(a)' = Exact(a)
      /\ keeper_interval' = keeper_interval
  BY FactorsStay DEF ClockInv
<1>2. cycle \in Nat /\ cycle' \in Nat /\ reader[r] \in ReaderRecord /\ ran.in \in Nat
  BY ClocksourceAssumption DEF ClockInv, ClockTypes
<1>3. ReaderKnows(r)
  BY DEF ClockInv
<1>4. \A c \in Nat : Seen(r, c) => Seen(r, c)'
  BY <1>2 DEF Seen, ReaderRecord
<1>5. Begun(r) => Begun(r)'
  BY <1>1, <1>2 DEF Begun, ReaderRecord
<1> QED
  BY <1>1, <1>3, <1>4, <1>5 DEF ReaderKnows

-----------------------------------------------------------------------------
(* Every step keeps the invariant                                          *)

\* TimePasses for one reader.
Timely(r) ==
    reader[r].at = "returns" =>
      /\ reader[r].value >= Exact(reader[r].begun) - reader[r].runs - 1
      /\ reader[r].value <= Exact(cycle) + (IF reader[r].torn THEN keeper_interval + Exact(Late + 1) + 1 ELSE 0)
      /\ ~reader[r].torn => reader[r].value >= reader[r].since

\* TimePasses is that of every reader.
LEMMA TimelyAll == TimePasses <=> \A r \in Readers : Timely(r)
BY DEF TimePasses, Timely

\* The types of what the clock source keeps.
LEMMA ClockNumbers ==
    ASSUME ClockInv
    PROVE  /\ cycle \in Nat /\ latest \in Nat /\ ran.in \in Nat /\ ran.times \in Nat
           /\ keeper.nsec \in Nat /\ keeper.sequence \in Nat /\ keeper.last \in 0..mask
           /\ cycle - ran.in \in Nat /\ cycle - ran.in <= mask
           /\ MaxCycles \in Nat
           /\ \A r \in Readers : /\ reader[r].seq \in Nat /\ reader[r].now \in 0..mask /\ reader[r].offset \in Nat
                                 /\ reader[r].value \in Nat /\ reader[r].since \in Nat /\ reader[r].torn \in BOOLEAN
                                 /\ reader[r].begun \in Nat /\ reader[r].runs \in Nat
<1>1. MaxCycles \in Nat /\ mask \in Nat
  BY Converting, ClocksourceAssumption DEF ClockInv
<1>2. cycle \in Nat /\ ran \in [in : Nat, times : Nat] /\ keeper \in [last : 0..mask, nsec : Nat, sequence : Nat] /\ latest \in Nat
  BY <1>1 DEF ClockInv, ClockTypes
<1>3. \A r \in Readers : reader[r] \in ReaderRecord
  BY DEF ClockInv, ClockTypes
<1>4. cycle - ran.in \in Nat /\ cycle - ran.in <= mask
  BY <1>1, <1>2 DEF ClockInv, KeeperRuns
<1> QED
  BY <1>1, <1>2, <1>3, <1>4 DEF ReaderRecord

\* A count: the keeper is due before the counter wraps.
LEMMA CountKeeps ==
    ASSUME ClockInv, Count
    PROVE  ClockInv'
<1> DEFINE d == cycle - ran.in
<1>1. FactorInv' /\ (\A a : Exact(a)' = Exact(a)) /\ keeper_interval' = keeper_interval
  BY FactorsStay DEF ClockInv, Count
<1>2. /\ \A a, b \in Nat : a <= b => Exact(a) <= Exact(b)
      /\ \A a \in Nat : Exact(a) \in Nat
      /\ \A e \in 0..mask : clocksource_delta2ns(e) = Exact(e)
      /\ keeper_interval \in Nat /\ keeper_interval <= Exact(mask - Late)
      /\ mask \in Nat /\ Late \in Nat /\ Late < mask
  BY Converting DEF ClockInv
<1>3. ClockTypes'
  BY ClocksourceAssumption, ClockNumbers DEF ClockInv, ClockTypes, Count, ReaderRecord, mask
<1>4. d \in Nat /\ d <= mask /\ d \in 0..mask /\ cycle \in Nat /\ ran.in \in Nat /\ cycle' = cycle + 1
  BY ClockNumbers, <1>2 DEF Count
<1>5. d > Late => Exact(d - Late) < keeper_interval
  BY <1>2, <1>4 DEF Count
<1>6. d < mask
  <2>1. d = mask => Exact(mask - Late) < keeper_interval
    BY <1>2, <1>5
  <2>2. mask - Late \in Nat
    BY <1>2
  <2>3. Exact(mask - Late) \in Nat
    BY <1>2, <2>2
  <2> QED
    BY <1>2, <1>4, <2>1, <2>3
<1>7. Exact(d) <= Exact(d + 1) /\ Exact(d) \in Nat /\ Exact(d + 1) \in Nat /\ Exact(cycle) \in Nat
      /\ Exact(cycle + 1) \in Nat /\ Exact(cycle) <= Exact(cycle + 1)
  BY <1>2, <1>4
<1>8. KeeperRuns'
  <2>1. ran' = ran /\ keeper' = keeper /\ latest' = latest /\ cycle' - ran'.in = d + 1 /\ mask' = mask
    BY <1>4 DEF Count, mask
  <2>2. d + 1 <= Late + 1 \/ Exact((d + 1) - Late - 1) < keeper_interval
    <3>1. (d + 1) - Late - 1 = d - Late
      BY <1>2, <1>4
    <3> QED
      BY <1>2, <1>4, <1>5, <3>1
  <2>3. ran.in <= cycle + 1 /\ d + 1 <= mask
    BY <1>2, <1>4, <1>6
  <2>4. latest <= keeper.nsec + Exact(d + 1)
    <3>1. latest <= keeper.nsec + Exact(d) /\ latest \in Nat /\ keeper.nsec \in Nat
      BY ClockNumbers DEF ClockInv, KeeperRuns
    <3> QED
      BY <1>7, <3>1
  <2>5. /\ Exact(cycle - ran.in)' = Exact(d + 1) /\ Exact(ran.in)' = Exact(ran.in)
        /\ Exact(cycle - ran.in - Late - 1)' = Exact((d + 1) - Late - 1)
    <3> DEFINE g(a) == ((a - Late - 1) * mult) \div 2^shift
    <3>1. g(cycle' - ran'.in) = g(d + 1)
      BY <2>1
    <3>2. mult' = mult /\ shift' = shift
      BY DEF Count
    <3>3. Exact(cycle - ran.in - Late - 1)' = g(cycle' - ran'.in)
      BY <3>2, Zenon DEF Exact
    <3>4. Exact((d + 1) - Late - 1) = g(d + 1)
      BY Zenon DEF Exact
    <3> HIDE DEF g, d
    <3> QED
      BY <2>1, <3>1, <3>2, <3>3, <3>4 DEF Exact
  <2> QED
    BY <1>1, <1>4, <2>1, <2>2, <2>3, <2>4, <2>5 DEF KeeperRuns, ClockInv
<1>9. ASSUME NEW r \in Readers PROVE Timely(r)' /\ ReaderKnows(r)'
  <2>1. reader' = reader /\ UNCHANGED <<hz, mult, shift, keeper, ran>> /\ cycle <= cycle'
    BY <1>4 DEF Count
  <2>2. ReaderKnows(r)'
    BY <1>3, <2>1, KnowsStays
  <2>3. Timely(r)
    BY TimelyAll DEF ClockInv
  <2>4. reader[r].value \in Nat
    BY ClockNumbers
  <2> DEFINE x == IF reader[r].torn THEN keeper_interval + Exact(Late + 1) + 1 ELSE 0
  <2>5. Exact(Late + 1) \in Nat /\ x \in Nat
    BY <1>2
  <2>6. reader[r].value <= Exact(cycle) + x => reader[r].value <= Exact(cycle + 1) + x
    BY <1>7, <2>4, <2>5
  <2> QED
    BY <1>1, <1>4, <2>1, <2>2, <2>3, <2>6 DEF Timely
<1> QED
  BY <1>1, <1>3, <1>8, <1>9, TimelyAll DEF ClockInv, TimePasses, Timely

\* A run of the keeper, in the middle of whatever reader.
LEMMA KeeperKeeps ==
    ASSUME ClockInv, clocksource_keeper_timer_function
    PROVE  ClockInv'
<1> DEFINE d == cycle - ran.in
<1>1. FactorInv' /\ (\A a : Exact(a)' = Exact(a)) /\ keeper_interval' = keeper_interval
  BY FactorsStay DEF ClockInv, clocksource_keeper_timer_function
<1>2. /\ \A a, b \in Nat : a <= b => Exact(a) <= Exact(b)
      /\ \A a, b \in Nat : Exact(a) + Exact(b) <= Exact(a + b) /\ Exact(a + b) <= Exact(a) + Exact(b) + 1
      /\ \A a \in Nat : Exact(a) \in Nat
      /\ \A e \in 0..mask : clocksource_delta2ns(e) = Exact(e)
      /\ Exact(0) = 0
  BY Converting DEF ClockInv
<1>0. keeper_interval \in Nat /\ mask \in Nat /\ Late \in Nat /\ Late < mask
  BY Converting DEF ClockInv
<1>3. /\ d \in Nat /\ d <= mask /\ d \in 0..mask /\ cycle \in Nat /\ ran.in \in Nat /\ ran.times \in Nat /\ latest \in Nat
      /\ keeper.nsec \in Nat /\ keeper.sequence \in Nat
  <2>1. d \in Nat /\ d <= mask
    BY ClockNumbers
  <2>2. d \in 0..mask
    BY <1>0, <2>1
  <2> QED
    BY <2>1, <2>2, ClockNumbers
<1>4. /\ Exact(d) \in Nat /\ Exact(cycle) \in Nat /\ Exact(ran.in) \in Nat
      /\ Exact(ran.in) + Exact(d) <= Exact(cycle) /\ Exact(cycle) <= Exact(ran.in) + Exact(d) + 1
  <2>1. ran.in + d = cycle
    BY <1>3
  <2>2. d \in Nat
    BY <1>2, <1>3
  <2>3. Exact(ran.in) + Exact(d) <= Exact(ran.in + d) /\ Exact(ran.in + d) <= Exact(ran.in) + Exact(d) + 1
    BY <1>2, <1>3, <2>2
  <2> QED
    BY <1>2, <1>3, <2>1, <2>2, <2>3
<1>5. keeper' = [last |-> cycle % 2^Bits, nsec |-> keeper.nsec + Exact(d), sequence |-> keeper.sequence + 2]
  <2>1. clocksource_delta(keeper.last, clocksource_cycle) = d
    BY <1>3, DeltaSince DEF ClockInv, KeeperRuns, clocksource_cycle
  <2> QED
    BY <1>2, <1>3, <2>1 DEF clocksource_keeper_timer_function, keeper_function, clocksource_cycle
<1>6. /\ cycle' = cycle /\ latest' = latest /\ ran' = [in |-> cycle, times |-> ran.times + 1] /\ mask' = mask
      /\ reader' = [r \in Readers |-> IF reader[r].at = "nsec" THEN [reader[r] EXCEPT !.torn = TRUE] ELSE reader[r]]
  BY DEF clocksource_keeper_timer_function, mask
<1>7. ClockTypes'
  <2>1. cycle % 2^Bits \in 0..mask
    BY <1>3, Converting, Remainder DEF ClockInv
  <2>2. \A r \in Readers : reader[r] \in ReaderRecord
    BY DEF ClockInv, ClockTypes
  <2>3. \A r \in Readers : [reader[r] EXCEPT !.torn = TRUE] \in ReaderRecord
    BY <2>2 DEF ReaderRecord
  <2>4. reader' \in [Readers -> ReaderRecord] /\ ReaderRecord' = ReaderRecord
    BY <1>6, <2>2, <2>3 DEF ReaderRecord, mask
  <2> QED
    BY <1>3, <1>4, <1>5, <1>6, <2>1, <2>4 DEF ClockInv, ClockTypes
<1>8. KeeperRuns'
  <2>1. /\ keeper'.last = cycle % 2^Bits /\ keeper'.nsec = keeper.nsec + Exact(d) /\ keeper'.sequence = keeper.sequence + 2
        /\ ran'.in = cycle /\ ran'.times = ran.times + 1
    BY <1>5, <1>6
  <2>2. /\ Exact(ran.in) - ran.times <= keeper.nsec /\ keeper.nsec <= Exact(ran.in)
        /\ latest <= keeper.nsec + Exact(d) /\ keeper.sequence = 2 * ran.times
    BY DEF ClockInv, KeeperRuns
  <2>3. /\ Exact(cycle) - (ran.times + 1) <= keeper.nsec + Exact(d) /\ keeper.nsec + Exact(d) <= Exact(cycle)
        /\ latest <= keeper.nsec + Exact(d) + 0 /\ keeper.sequence + 2 = 2 * (ran.times + 1)
    BY <1>3, <1>4, <2>2
  <2>4. /\ cycle - cycle = 0 /\ 0 <= mask /\ 0 <= Late + 1 /\ cycle <= cycle
    BY <1>0, <1>3
  <2>5. Exact(cycle)' = Exact(cycle) /\ Exact(0)' = 0
    BY <1>1, <1>2, <1>6 DEF Exact, clocksource_keeper_timer_function
  <2> QED
    BY <1>6, <2>1, <2>3, <2>4, <2>5 DEF KeeperRuns
<1>9. ASSUME NEW r \in Readers PROVE Timely(r)' /\ ReaderKnows(r)'
  <2>1. /\ reader[r].seq \in Nat /\ reader[r].offset \in Nat /\ reader[r].since \in Nat
        /\ reader[r].begun \in Nat /\ reader[r].runs \in Nat
    BY ClockNumbers
  <2>2. /\ reader'[r].at = reader[r].at /\ reader'[r].seq = reader[r].seq /\ reader'[r].offset = reader[r].offset
        /\ reader'[r].value = reader[r].value /\ reader'[r].since = reader[r].since /\ reader'[r].now = reader[r].now
        /\ reader'[r].begun = reader[r].begun /\ reader'[r].runs = reader[r].runs
        /\ reader'[r].torn = (reader[r].torn \/ reader[r].at = "nsec")
    BY <1>6 DEF ClockInv, ClockTypes, ReaderRecord
  <2>3. Timely(r)'
    <3>1. Timely(r)
      BY TimelyAll DEF ClockInv
    <3>2. reader[r].at = "returns" => (reader'[r].torn <=> reader[r].torn)
      BY <2>2
    <3> QED
      BY <1>1, <1>6, <2>2, <3>1, <3>2 DEF Timely
  <2>4. keeper'.nsec = keeper.nsec + Exact(d) /\ keeper'.sequence = keeper.sequence + 2
    BY <1>5
  <2>5. ASSUME Begun(r)
        PROVE  /\ keeper'.nsec >= Exact(reader[r].begun) - reader[r].runs - 1
               /\ reader[r].since <= keeper'.nsec /\ reader[r].begun <= cycle /\ reader[r].seq < keeper'.sequence
    <3>1. reader[r].begun <= cycle /\ reader[r].seq <= keeper.sequence
      BY <2>5 DEF Begun
    <3>2. Exact(reader[r].begun) <= Exact(cycle) /\ Exact(reader[r].begun) \in Nat
      BY <1>2, <1>3, <2>1, <3>1
    <3>3. Exact(ran.in) - ran.times <= keeper.nsec
      BY DEF ClockInv, KeeperRuns
    <3>4. keeper'.nsec >= Exact(reader[r].begun) - reader[r].runs - 1
      <4>1. CASE ran.times = reader[r].runs
        BY <1>3, <1>4, <2>1, <2>4, <3>2, <3>3, <4>1
      <4>2. CASE keeper.nsec >= Exact(reader[r].begun) - reader[r].runs - 1
        BY <1>3, <1>4, <2>1, <2>4, <3>2, <4>2
      <4> QED
        BY <2>5, <4>1, <4>2 DEF Begun
    <3>5. reader[r].since <= keeper'.nsec
      <4>1. CASE ran.in <= reader[r].begun /\ reader[r].since <= keeper.nsec + Exact(reader[r].begun - ran.in)
        <5>1. reader[r].begun - ran.in \in Nat /\ reader[r].begun - ran.in <= d /\ d \in Nat
          BY <1>3, <2>1, <3>1, <4>1
        <5>2. Exact(reader[r].begun - ran.in) <= Exact(d) /\ Exact(reader[r].begun - ran.in) \in Nat
          BY <1>2, <5>1
        <5> QED
          BY <1>3, <1>4, <2>1, <2>4, <4>1, <5>2
      <4>2. CASE reader[r].since <= keeper.nsec
        BY <1>3, <1>4, <2>1, <2>4, <4>2
      <4> QED
        BY <2>5, <4>1, <4>2 DEF Begun
    <3> QED
      BY <1>3, <2>1, <2>4, <3>1, <3>4, <3>5
  <2>6. Begun(r) => Begun(r)'
    <3>1. SUFFICES ASSUME Begun(r) PROVE Begun(r)'
      OBVIOUS
    <3>2. Exact(reader[r].begun)' = Exact(reader[r].begun)
      BY <1>1, <2>2 DEF Exact, clocksource_keeper_timer_function
    <3>3. reader[r].seq <= keeper'.sequence
      BY <1>3, <2>1, <2>4, <2>5, <3>1
    <3> QED
      BY <1>1, <1>6, <2>2, <2>5, <3>1, <3>2, <3>3 DEF Begun
  <2>7. reader[r].at \in {"offset", "retry"} => reader[r].seq # keeper'.sequence
    BY <1>3, <2>1, <2>4, <2>5 DEF ClockInv, ReaderKnows
  <2>8. ASSUME reader[r].at = "nsec"
        PROVE  reader[r].offset <= keeper_interval + Exact(Late + 1)
    <3>1. CASE reader[r].torn
      BY <2>8, <3>1 DEF ClockInv, ReaderKnows
    <3>2. CASE ~reader[r].torn
      <4>1. PICK c \in Nat : Seen(r, c) /\ reader[r].offset = Exact(c - ran.in)
        BY <2>8, <3>2 DEF ClockInv, ReaderKnows
      <4>2. c - ran.in \in Nat /\ c - ran.in <= d /\ d \in Nat
        BY <1>3, <4>1 DEF Seen
      <4>3. reader[r].offset <= Exact(d)
        BY <1>2, <4>1, <4>2
      <4>7. Late + 1 \in Nat
        BY <1>0
      <4>4. Exact(Late + 1) \in Nat
        BY <1>2, <4>7
      <4>5. CASE d <= Late + 1
        <5>1. Exact(d) <= Exact(Late + 1)
          BY <1>2, <4>2, <4>7, <4>5
        <5> QED
          BY <1>0, <1>4, <2>1, <4>3, <4>4, <5>1
      <4>6. CASE d > Late + 1
        <5>1. d - Late - 1 \in Nat /\ (d - Late - 1) + (Late + 1) = d
          BY <1>0, <4>2, <4>6
        <5>2. Exact(d) <= Exact(d - Late - 1) + Exact(Late + 1) + 1
          BY <1>2, <4>7, <5>1
        <5>3. Exact(d - Late - 1) \in Nat
          BY <1>2, <5>1
        <5>4. Exact(d - Late - 1) < keeper_interval
          <6>1. d <= Late + 1 \/ Exact(d - Late - 1) < keeper_interval
            BY DEF ClockInv, KeeperRuns
          <6>2. ~(d <= Late + 1)
            BY <1>0, <4>2, <4>6
          <6> QED
            BY <6>1, <6>2
        <5> QED
          BY <1>0, <1>4, <2>1, <4>3, <4>4, <5>2, <5>3, <5>4
      <4> QED
        BY <1>0, <4>2, <4>5, <4>6
    <3> QED
      BY <3>1, <3>2
  <2>9. ReaderKnows(r)
    BY DEF ClockInv
  <2>10. reader[r].at \in {"cycle", "offset", "retry"} => ~reader'[r].torn
    BY <2>2, <2>9 DEF ReaderKnows
  <2>11. /\ Exact(reader[r].begun)' = Exact(reader[r].begun)
         /\ Exact(Late + 1)' = Exact(Late + 1)
    BY <1>1, <2>2 DEF Exact, clocksource_keeper_timer_function
  <2>12. reader[r].at = "nsec" => keeper'.nsec >= Exact(reader[r].begun) - reader[r].runs - 1
    BY <2>5, <2>9 DEF ReaderKnows
  <2>13. reader[r].at = "nsec" => reader'[r].torn
    BY <2>2
  <2> QED
    BY <1>1, <2>2, <2>3, <2>6, <2>7, <2>8, <2>9, <2>10, <2>11, <2>12, <2>13 DEF ReaderKnows
<1> QED
  BY <1>1, <1>7, <1>8, <1>9, TimelyAll DEF ClockInv, TimePasses, Timely

\* A step of a reader leaves the keeper, and what the other readers know.
LEMMA ReaderStays ==
    ASSUME ClockInv, NEW r \in Readers, UNCHANGED <<hz, mult, shift, cycle, keeper, ran>>,
           NEW new \in ReaderRecord, reader' = [reader EXCEPT ![r] = new],
           latest' \in Nat, latest' <= keeper.nsec + Exact(cycle - ran.in),
           ClockTypes' => Timely(r)' /\ ReaderKnows(r)'
    PROVE  ClockInv'
<1>1. FactorInv' /\ (\A a : Exact(a)' = Exact(a)) /\ keeper_interval' = keeper_interval
  BY FactorsStay DEF ClockInv
<1>2. /\ reader \in [Readers -> ReaderRecord] /\ ReaderRecord' = ReaderRecord /\ mask' = mask
  BY DEF ClockInv, ClockTypes, ReaderRecord, mask
<1>3. ClockTypes'
  BY <1>2 DEF ClockInv, ClockTypes
<1>4. KeeperRuns'
  <2>1. \A a : Exact(a)' = Exact(a)
    BY <1>1
  <2>2. /\ Exact(cycle - ran.in)' = Exact(cycle - ran.in) /\ Exact(ran.in)' = Exact(ran.in)
        /\ Exact(cycle - ran.in - Late - 1)' = Exact(cycle - ran.in - Late - 1)
    BY DEF Exact
  <2> QED
    BY <1>1, <1>2, <2>2 DEF ClockInv, KeeperRuns
<1>5. ASSUME NEW o \in Readers PROVE Timely(o)' /\ ReaderKnows(o)'
  <2>1. CASE o = r
    BY <1>3, <2>1
  <2>2. CASE o # r
    <3>1. reader'[o] = reader[o]
      BY <1>2, <2>2
    <3>2. ReaderKnows(o)'
      <4>1. cycle \in Nat /\ cycle <= cycle'
        BY ClockNumbers
      <4> QED
        BY <1>3, <3>1, <4>1, KnowsStays
    <3>3. Timely(o)'
      <4>1. Timely(o)
        BY TimelyAll DEF ClockInv
      <4>2. /\ Exact(reader[o].begun)' = Exact(reader[o].begun) /\ Exact(cycle)' = Exact(cycle)
            /\ Exact(Late + 1)' = Exact(Late + 1)
        BY <3>1 DEF Exact
      <4> QED
        BY <1>1, <3>1, <4>1, <4>2 DEF Timely
    <3> QED
      BY <3>2, <3>3
  <2> QED
    BY <2>1, <2>2
<1> QED
  BY <1>1, <1>3, <1>4, <1>5, TimelyAll DEF ClockInv, TimePasses, Timely

\* What a reader's step finds.
LEMMA ReaderFinds ==
    ASSUME ClockInv, NEW r \in Readers
    PROVE  /\ reader[r] \in ReaderRecord /\ ReaderKnows(r)
           /\ latest \in Nat /\ latest <= keeper.nsec + Exact(cycle - ran.in)
           /\ reader \in [Readers -> ReaderRecord]
BY DEF ClockInv, ClockTypes, KeeperRuns

\* The steps of ktime_get(): read_seqbegin().
LEMMA ReadSeqbeginKeeps ==
    ASSUME ClockInv, NEW r \in Readers, read_seqbegin(r)
    PROVE  ClockInv'
<1> DEFINE new == [Idle EXCEPT !.at = "cycle", !.seq = keeper.sequence, !.since = latest, !.begun = cycle, !.runs = ran.times]
<1>1. reader' = [reader EXCEPT ![r] = new] /\ UNCHANGED <<hz, mult, shift, cycle, keeper, ran>> /\ latest' = latest
  BY DEF read_seqbegin, ReaderStep
<1>2. /\ cycle \in Nat /\ latest \in Nat /\ ran.in \in Nat /\ ran.times \in Nat /\ keeper.sequence \in Nat
      /\ keeper.nsec \in Nat
  BY ClockNumbers
<1>3. mask \in Nat
  BY Converting DEF ClockInv
<1>4. /\ new.at = "cycle" /\ new.seq = keeper.sequence /\ new.since = latest /\ new.begun = cycle
      /\ new.runs = ran.times /\ new.torn = FALSE
  BY DEF Idle
<1>5. new \in ReaderRecord
  <2>1. Idle \in ReaderRecord
    BY <1>3 DEF Idle, ReaderRecord
  <2> QED
    BY <1>2, <2>1 DEF ReaderRecord
<1>6. reader'[r] = new
  BY <1>1, ReaderFinds
<1> HIDE DEF new
<1>7. Begun(r)'
  <2>1. ran.in <= cycle /\ latest <= keeper.nsec + Exact(cycle - ran.in)
    BY DEF ClockInv, KeeperRuns
  <2>2. Exact(reader[r].begun - ran.in)' = Exact(cycle - ran.in)
    BY <1>1, <1>4, <1>6 DEF Exact
  <2> QED
    BY <1>1, <1>2, <1>4, <1>6, <2>1, <2>2 DEF Begun
<1>8. Timely(r)' /\ ReaderKnows(r)'
  BY <1>4, <1>6, <1>7 DEF Timely, ReaderKnows
<1> QED
  BY <1>1, <1>5, <1>8, ReaderFinds, ReaderStays

\* Begun is a matter of what no step of the reader itself changes, but for the sequence.
LEMMA BegunStays ==
    ASSUME ClockInv, NEW r \in Readers, UNCHANGED <<hz, mult, shift, cycle, keeper, ran>>, Begun(r),
           reader'[r].begun = reader[r].begun, reader'[r].runs = reader[r].runs, reader'[r].since = reader[r].since,
           reader'[r].seq <= keeper.sequence
    PROVE  Begun(r)'
<1>1. /\ Exact(reader[r].begun)' = Exact(reader[r].begun)
      /\ Exact(reader[r].begun - ran.in)' = Exact(reader[r].begun - ran.in)
  BY DEF Exact
<1> QED
  BY <1>1 DEF Begun

\* The read of the counter.
LEMMA ReadCycleKeeps ==
    ASSUME ClockInv, NEW r \in Readers, read_cycle(r)
    PROVE  ClockInv'
<1> DEFINE new == [reader[r] EXCEPT !.at = "offset", !.now = clocksource_cycle]
<1>1. /\ reader' = [reader EXCEPT ![r] = new] /\ UNCHANGED <<hz, mult, shift, cycle, keeper, ran>> /\ latest' = latest
      /\ reader[r].at = "cycle"
  BY DEF read_cycle, ReaderStep
<1>2. reader[r] \in ReaderRecord
  BY ReaderFinds
<1>3. /\ new.at = "offset" /\ new.now = cycle % 2^Bits
      /\ new.seq = reader[r].seq /\ new.since = reader[r].since /\ new.begun = reader[r].begun
      /\ new.runs = reader[r].runs /\ new.torn = reader[r].torn
  BY <1>2 DEF ReaderRecord, clocksource_cycle
<1>4. cycle \in Nat /\ ran.in \in Nat /\ reader[r].seq \in Nat /\ keeper.sequence \in Nat
  BY ClockNumbers
<1>5. new \in ReaderRecord
  <2>1. clocksource_cycle \in 0..mask
    BY <1>4, Converting, Remainder DEF ClockInv, clocksource_cycle
  <2> QED
    BY <1>2, <2>1 DEF ReaderRecord
<1>6. reader'[r] = new
  BY <1>1, ReaderFinds
<1> HIDE DEF new
<1>7. Begun(r) /\ ~reader[r].torn
  BY <1>1, ReaderFinds DEF ReaderKnows
<1>8. Begun(r)'
  BY <1>1, <1>3, <1>6, <1>7, BegunStays DEF Begun
<1>9. Seen(r, cycle)'
  <2>1. ran.in <= cycle /\ reader[r].begun <= cycle
    BY <1>7 DEF ClockInv, KeeperRuns, Begun
  <2> QED
    BY <1>1, <1>3, <1>4, <1>6, <2>1 DEF Seen
<1>10. \E c \in Nat : Seen(r, c)' /\ reader'[r].now = c % 2^Bits
  <2>1. cycle' = cycle
    BY <1>1
  <2>2. Seen(r, cycle)' <=> (reader'[r].begun <= cycle' /\ ran'.in <= cycle' /\ cycle' <= cycle')
    BY DEF Seen
  <2>3. PICK c \in Nat : c = cycle
    BY <1>4
  <2>4. Seen(r, c)'
    BY <1>9, <2>1, <2>2, <2>3 DEF Seen
  <2> QED
    BY <1>3, <1>6, <2>3, <2>4
<1>11. Timely(r)' /\ ReaderKnows(r)'
  BY <1>3, <1>6, <1>7, <1>8, <1>10 DEF Timely, ReaderKnows
<1> QED
  BY <1>1, <1>5, <1>11, ReaderFinds, ReaderStays

\* The conversion of what has been counted since the keeper's last run.
LEMMA ReadOffsetKeeps ==
    ASSUME ClockInv, NEW r \in Readers, read_offset(r)
    PROVE  ClockInv'
<1> DEFINE offset == clocksource_delta2ns(clocksource_delta(keeper.last, reader[r].now))
           new == [reader[r] EXCEPT !.at = "retry", !.offset = offset]
<1>1. /\ reader' = [reader EXCEPT ![r] = new] /\ UNCHANGED <<hz, mult, shift, cycle, keeper, ran>> /\ latest' = latest
      /\ reader[r].at = "offset"
  BY DEF read_offset, ReaderStep
<1>2. reader[r] \in ReaderRecord
  BY ReaderFinds
<1>3. /\ new.at = "retry" /\ new.offset = offset
      /\ new.seq = reader[r].seq /\ new.since = reader[r].since /\ new.begun = reader[r].begun
      /\ new.runs = reader[r].runs /\ new.torn = reader[r].torn
  BY <1>2 DEF ReaderRecord
<1>4. /\ cycle \in Nat /\ ran.in \in Nat /\ keeper.last \in 0..mask /\ reader[r].now \in 0..mask
      /\ cycle - ran.in <= mask
  BY ClockNumbers
<1>5. new \in ReaderRecord
  <2>1. clocksource_delta(keeper.last, reader[r].now) \in Nat
    BY <1>4, DeltaType DEF ClockInv
  <2>2. offset \in Nat
    BY <2>1, Converting DEF ClockInv
  <2> QED
    BY <1>2, <2>2 DEF ReaderRecord
<1>6. reader'[r] = new
  BY <1>1, ReaderFinds
<1>7. Begun(r) /\ ~reader[r].torn
  BY <1>1, ReaderFinds DEF ReaderKnows
<1>8. ASSUME reader[r].seq = keeper.sequence
      PROVE  \E c \in Nat : Seen(r, c) /\ offset = Exact(c - ran.in)
  <2>1. PICK c \in Nat : Seen(r, c) /\ reader[r].now = c % 2^Bits
    BY <1>1, <1>8, ReaderFinds DEF ReaderKnows
  <2>2. ran.in <= c /\ c <= cycle /\ keeper.last = ran.in % 2^Bits /\ mask \in Nat
    BY <2>1, Converting DEF Seen, ClockInv, KeeperRuns
  <2>3. c - ran.in <= mask /\ c - ran.in \in 0..mask
    BY <1>4, <2>2
  <2>4. clocksource_delta(keeper.last, reader[r].now) = c - ran.in
    BY <1>4, <2>1, <2>2, <2>3, DeltaSince DEF ClockInv
  <2>5. clocksource_delta2ns(c - ran.in) = Exact(c - ran.in)
    BY <2>3, Converting DEF ClockInv
  <2> QED
    BY <2>1, <2>4, <2>5
<1> HIDE DEF new, offset
<1>9. Begun(r)'
  BY <1>1, <1>3, <1>6, <1>7, BegunStays DEF Begun
<1>10. reader'[r].seq = keeper'.sequence => \E c \in Nat : Seen(r, c)' /\ reader'[r].offset = Exact(c - ran.in)'
  <2>1. SUFFICES ASSUME reader'[r].seq = keeper'.sequence
        PROVE \E c \in Nat : Seen(r, c)' /\ reader'[r].offset = Exact(c - ran.in)'
    OBVIOUS
  <2>2. PICK c \in Nat : Seen(r, c) /\ offset = Exact(c - ran.in)
    BY <1>1, <1>3, <1>6, <1>8, <2>1
  <2>3. Exact(c - ran.in)' = Exact(c - ran.in) /\ Seen(r, c)'
    BY <1>1, <1>3, <1>6, <2>2 DEF Exact, Seen
  <2> QED
    BY <1>3, <1>6, <2>2, <2>3
<1>11. Timely(r)' /\ ReaderKnows(r)'
  BY <1>3, <1>6, <1>7, <1>9, <1>10 DEF Timely, ReaderKnows
<1> QED
  BY <1>1, <1>5, <1>11, ReaderFinds, ReaderStays

\* read_seqretry().
LEMMA ReadSeqretryKeeps ==
    ASSUME ClockInv, NEW r \in Readers, read_seqretry(r)
    PROVE  ClockInv'
<1> DEFINE new == IF retried(r) THEN [reader[r] EXCEPT !.at = "cycle", !.seq = keeper.sequence]
                  ELSE [reader[r] EXCEPT !.at = "nsec"]
<1>1. /\ reader' = [reader EXCEPT ![r] = new] /\ UNCHANGED <<hz, mult, shift, cycle, keeper, ran>> /\ latest' = latest
      /\ reader[r].at = "retry"
  BY DEF read_seqretry, ReaderStep
<1>2. reader[r] \in ReaderRecord
  BY ReaderFinds
<1>3. /\ new.offset = reader[r].offset /\ new.since = reader[r].since /\ new.begun = reader[r].begun
      /\ new.runs = reader[r].runs /\ new.torn = reader[r].torn
      /\ new.at = (IF retried(r) THEN "cycle" ELSE "nsec")
      /\ new.seq = (IF retried(r) THEN keeper.sequence ELSE reader[r].seq)
  BY <1>2 DEF ReaderRecord
<1>4. reader[r].seq \in Nat /\ keeper.sequence \in Nat
  BY ClockNumbers
<1>5. new \in ReaderRecord
  BY <1>2, <1>4 DEF ReaderRecord
<1>6. reader'[r] = new
  BY <1>1, ReaderFinds
<1>7. Begun(r) /\ ~reader[r].torn
  BY <1>1, ReaderFinds DEF ReaderKnows
<1> HIDE DEF new
<1>8. Begun(r)'
  <2>1. reader'[r].seq <= keeper.sequence
    BY <1>3, <1>4, <1>6, <1>7 DEF Begun
  <2> QED
    BY <1>1, <1>3, <1>6, <1>7, <2>1, BegunStays
<1>9. ~retried(r) => \E c \in Nat : Seen(r, c)' /\ reader'[r].offset = Exact(c - ran.in)'
  <2>1. SUFFICES ASSUME ~retried(r) PROVE \E c \in Nat : Seen(r, c)' /\ reader'[r].offset = Exact(c - ran.in)'
    OBVIOUS
  <2>2. PICK c \in Nat : Seen(r, c) /\ reader[r].offset = Exact(c - ran.in)
    BY <1>1, <2>1, ReaderFinds DEF ReaderKnows, retried
  <2>3. Exact(c - ran.in)' = Exact(c - ran.in) /\ Seen(r, c)'
    BY <1>1, <1>3, <1>6, <2>2 DEF Exact, Seen
  <2> QED
    BY <1>3, <1>6, <2>2, <2>3
<1>10. Timely(r)' /\ ReaderKnows(r)'
  BY <1>3, <1>6, <1>7, <1>8, <1>9 DEF Timely, ReaderKnows
<1> QED
  BY <1>1, <1>5, <1>10, ReaderFinds, ReaderStays

\* The read of keeper.nsec, when the keeper may have run since.
LEMMA ReadNsecKeeps ==
    ASSUME ClockInv, NEW r \in Readers, read_nsec(r)
    PROVE  ClockInv'
<1> DEFINE value == keeper.nsec + reader[r].offset
           new == [reader[r] EXCEPT !.at = "returns", !.value = value]
<1>1. /\ reader' = [reader EXCEPT ![r] = new] /\ UNCHANGED <<hz, mult, shift, cycle, keeper, ran>>
      /\ reader[r].at = "nsec"
  BY DEF read_nsec, ReaderStep
<1>2. reader[r] \in ReaderRecord /\ reader \in [Readers -> ReaderRecord]
  BY ReaderFinds
<1>3. /\ new.at = "returns" /\ new.value = value /\ new.since = reader[r].since /\ new.begun = reader[r].begun
      /\ new.runs = reader[r].runs /\ new.torn = reader[r].torn
  BY <1>2 DEF ReaderRecord
<1>4. /\ cycle \in Nat /\ ran.in \in Nat /\ ran.times \in Nat /\ keeper.nsec \in Nat /\ latest \in Nat
      /\ reader[r].offset \in Nat /\ reader[r].begun \in Nat /\ reader[r].runs \in Nat /\ reader[r].since \in Nat
  BY ClockNumbers
<1>5. value \in Nat /\ new \in ReaderRecord
  <2>1. value \in Nat
    BY <1>4
  <2> HIDE DEF value
  <2> QED
    BY <1>2, <2>1 DEF ReaderRecord
<1>6. reader'[r] = new
  BY <1>1, <1>2
<1> HIDE DEF new
<1>7. latest' = IF reader[r].torn \/ value < latest THEN latest ELSE value
  BY <1>3, <1>6 DEF read_nsec
<1>8. /\ \A a, b \in Nat : a <= b => Exact(a) <= Exact(b)
      /\ \A a, b \in Nat : Exact(a) + Exact(b) <= Exact(a + b) /\ Exact(a + b) <= Exact(a) + Exact(b) + 1
      /\ \A a \in Nat : Exact(a) \in Nat
  BY Converting DEF ClockInv
<1>9. keeper_interval \in Nat /\ Late + 1 \in Nat
  <2>1. keeper_interval \in Nat /\ Late \in Nat
    BY Converting DEF ClockInv
  <2> QED
    BY <2>1
<1>10. Begun(r)
  BY <1>1, ReaderFinds DEF ReaderKnows
<1>11. /\ Exact(ran.in) - ran.times <= keeper.nsec /\ keeper.nsec <= Exact(ran.in) /\ ran.in <= cycle
       /\ latest <= keeper.nsec + Exact(cycle - ran.in)
  BY DEF ClockInv, KeeperRuns
<1>12. Exact(reader[r].begun) \in Nat /\ Exact(cycle) \in Nat /\ Exact(ran.in) \in Nat /\ Exact(Late + 1) \in Nat
       /\ Exact(ran.in) <= Exact(cycle)
  BY <1>4, <1>8, <1>9, <1>11
\* What the reader knows of the keeper, whatever has run since it began.
<1>13. ASSUME ~reader[r].torn
       PROVE  /\ value >= Exact(reader[r].begun) - reader[r].runs - 1
              /\ value <= Exact(cycle) /\ value >= reader[r].since
              /\ value <= keeper.nsec + Exact(cycle - ran.in)
  <2>1. PICK c \in Nat : Seen(r, c) /\ reader[r].offset = Exact(c - ran.in)
    BY <1>1, <1>13, ReaderFinds DEF ReaderKnows
  <2>2. reader[r].begun <= c /\ ran.in <= c /\ c <= cycle
    BY <2>1 DEF Seen
  <2>3. c - ran.in \in Nat /\ cycle - ran.in \in Nat /\ c - ran.in <= cycle - ran.in /\ ran.in + (c - ran.in) = c
    BY <1>4, <2>2
  <2>4. Exact(c - ran.in) <= Exact(cycle - ran.in) /\ Exact(c - ran.in) \in Nat /\ Exact(cycle - ran.in) \in Nat
    BY <1>8, <2>3
  <2>5. value <= keeper.nsec + Exact(cycle - ran.in)
    BY <1>4, <2>1, <2>4
  <2>6. value <= Exact(cycle)
    <3>1. Exact(ran.in) + Exact(c - ran.in) <= Exact(ran.in + (c - ran.in))
      BY <1>4, <1>8, <2>3
    <3>2. Exact(c) <= Exact(cycle) /\ Exact(c) \in Nat
      BY <1>4, <1>8, <2>2
    <3>3. Exact(ran.in + (c - ran.in)) = Exact(c)
      BY <2>3
    <3> QED
      BY <1>4, <1>11, <1>12, <2>1, <2>4, <3>1, <3>2, <3>3
  <2>7. ASSUME ran.in <= reader[r].begun
        PROVE  /\ Exact(reader[r].begun - ran.in) <= Exact(c - ran.in) /\ Exact(reader[r].begun - ran.in) \in Nat
               /\ Exact(reader[r].begun) <= Exact(ran.in) + Exact(reader[r].begun - ran.in) + 1
    <3>1. /\ reader[r].begun - ran.in \in Nat /\ reader[r].begun - ran.in <= c - ran.in
          /\ ran.in + (reader[r].begun - ran.in) = reader[r].begun
      BY <1>4, <2>2, <2>7
    <3>2. Exact(ran.in + (reader[r].begun - ran.in)) <= Exact(ran.in) + Exact(reader[r].begun - ran.in) + 1
      BY <1>4, <1>8, <3>1
    <3>3. Exact(ran.in + (reader[r].begun - ran.in)) = Exact(reader[r].begun)
      BY <3>1
    <3>4. Exact(reader[r].begun - ran.in) <= Exact(c - ran.in) /\ Exact(reader[r].begun - ran.in) \in Nat
      BY <1>8, <2>3, <3>1
    <3> QED
      BY <3>2, <3>3, <3>4
  <2>8. value >= Exact(reader[r].begun) - reader[r].runs - 1
    <3>1. CASE ran.in <= reader[r].begun /\ ran.times = reader[r].runs
      BY <1>4, <1>11, <1>12, <2>1, <2>4, <2>7, <3>1
    <3>2. CASE keeper.nsec >= Exact(reader[r].begun) - reader[r].runs - 1
      BY <1>4, <1>12, <3>2
    <3> QED
      BY <1>10, <3>1, <3>2 DEF Begun
  <2>9. value >= reader[r].since
    <3>1. CASE ran.in <= reader[r].begun /\ reader[r].since <= keeper.nsec + Exact(reader[r].begun - ran.in)
      BY <1>4, <2>1, <2>4, <2>7, <3>1
    <3>2. CASE reader[r].since <= keeper.nsec
      BY <1>4, <3>2
    <3> QED
      BY <1>10, <3>1, <3>2 DEF Begun
  <2> QED
    BY <2>5, <2>6, <2>8, <2>9
<1>14. ASSUME reader[r].torn
       PROVE  /\ value >= Exact(reader[r].begun) - reader[r].runs - 1
              /\ value <= Exact(cycle) + (keeper_interval + Exact(Late + 1) + 1)
  <2>1. /\ keeper.nsec >= Exact(reader[r].begun) - reader[r].runs - 1
        /\ reader[r].offset <= keeper_interval + Exact(Late + 1)
    BY <1>1, <1>14, ReaderFinds DEF ReaderKnows
  <2> QED
    BY <1>4, <1>9, <1>11, <1>12, <2>1
<1>15. Timely(r)'
  <2>1. /\ Exact(reader[r].begun)' = Exact(reader[r].begun) /\ Exact(cycle)' = Exact(cycle)
        /\ Exact(Late + 1)' = Exact(Late + 1) /\ keeper_interval' = keeper_interval
    BY <1>1, <1>3, <1>6 DEF Exact, keeper_interval, clocksource_deferment
  <2>2. reader[r].torn \in BOOLEAN /\ Exact(cycle) + 0 = Exact(cycle)
    BY <1>12, ClockNumbers
  <2> QED
    BY <1>1, <1>3, <1>6, <1>13, <1>14, <2>1, <2>2 DEF Timely
<1>16. ReaderKnows(r)'
  BY <1>3, <1>6 DEF ReaderKnows
<1>17. latest' \in Nat /\ latest' <= keeper.nsec + Exact(cycle - ran.in)
  BY <1>4, <1>5, <1>7, <1>11, <1>13
<1> QED
  BY <1>1, <1>5, <1>15, <1>16, <1>17, ReaderStays

\* The return.
LEMMA ReturnKeeps ==
    ASSUME ClockInv, NEW r \in Readers, return(r)
    PROVE  ClockInv'
<1>1. /\ reader' = [reader EXCEPT ![r] = Idle] /\ UNCHANGED <<hz, mult, shift, cycle, keeper, ran>> /\ latest' = latest
  BY DEF return, ReaderStep
<1>2. mask \in Nat
  BY Converting DEF ClockInv
<1>3. Idle \in ReaderRecord
  BY <1>2 DEF Idle, ReaderRecord
<1>4. reader'[r] = Idle
  BY <1>1, ReaderFinds
<1>5. Timely(r)' /\ ReaderKnows(r)'
  BY <1>4 DEF Timely, ReaderKnows, Idle
<1> QED
  BY <1>1, <1>3, <1>5, ReaderFinds, ReaderStays

\* Nothing happens.
LEMMA ClockStutters == ASSUME ClockInv, UNCHANGED clockVars PROVE ClockInv'
BY DEF ClockInv, FactorInv, ClockTypes, ReaderRecord, KeeperRuns, TimePasses, ReaderKnows, Begun, Seen, Exact, mask,
       keeper_interval, clocksource_deferment, clockVars

\* The invariant says what ktime_get() promises.
LEMMA ClockIsTrue == ClockInv => TimeTrue
<1> SUFFICES ASSUME ClockInv PROVE TimeTrue
  OBVIOUS
<1>1. /\ mult \in 1..(2^WordBits - 1) /\ shift \in 0..WordBits
      /\ maxsec * hz * mult < 2^(2 * WordBits)
      /\ 2 * (mult * hz - NSEC_PER_SEC * 2^shift) \in (-hz)..hz
  BY Conversion DEF ClockInv, FactorInv
<1>2. ClockTypeOK
  BY <1>1, ClockNumbers DEF ClockTypeOK, ClockInv, FactorInv, ClockTypes
<1> QED
  BY <1>1, <1>2 DEF TimeTrue, Converts, ClockInv

\* What ktime_get() returns is the time between its call and its return, less
\* what has been rounded down; it goes back for nobody, and is ahead by no more
\* than one interval of the keeper, and only for a task that the keeper
\* interrupts between the test of the sequence and the read of keeper.nsec.
\* For every rate, width of the counter and number of tasks for which a
\* keeper that is late still runs before the counter wraps.
THEOREM TimeIsTrue == ClockSpec => []TimeTrue
<1>1. ClockInit => ClockInv
  BY ClockStarts
<1>2. ClockInv /\ [ClockNext]_clockVars => ClockInv'
  <2> SUFFICES ASSUME ClockInv, [ClockNext]_clockVars PROVE ClockInv'
    OBVIOUS
  <2>1. CASE Count
    BY <2>1, CountKeeps
  <2>2. CASE clocksource_keeper_timer_function
    BY <2>2, KeeperKeeps
  <2>3. ASSUME NEW r \in Readers, ktime_get(r) PROVE ClockInv'
    BY <2>3, ReadSeqbeginKeeps, ReadCycleKeeps, ReadOffsetKeeps, ReadSeqretryKeeps, ReadNsecKeeps, ReturnKeeps
       DEF ktime_get
  <2>4. CASE UNCHANGED clockVars
    BY <2>4, ClockStutters
  <2> QED
    BY <2>1, <2>2, <2>3, <2>4 DEF ClockNext
<1>3. ClockInv => TimeTrue
  BY ClockIsTrue
<1> QED
  BY <1>1, <1>2, <1>3, PTL DEF ClockSpec
=============================================================================
