----------------------------- MODULE SchedFair -----------------------------
(***************************************************************************)
(* The CPU among tasks that never sleep: what schedule() does at the end   *)
(* of each interrupt, with and without the run-time accounting of the      *)
(* tick.  There are at least two such tasks, so once one of them runs the  *)
(* queue is never empty again.                                             *)
(***************************************************************************)
EXTENDS RunQueueProofs, Functions

vars == <<current, task_schedule, state, vrun_time>>

ASSUME TwoTasks == IsFiniteSet(Tasks) /\ Cardinality(Tasks) >= 2

\* The tasks have been forked, in some order, and none has run yet.
Init ==
    /\ current = InitTask
    /\ task_schedule \in
        {[task_queue |-> q, running_task_count |-> Cardinality(Tasks) + 1,
          CPU_exec_task_jiffies |-> 4] :
            q \in Bijection(1 .. Cardinality(Tasks), Tasks)}
    /\ state = [t \in AllTasks |-> RUNNING]
    /\ vrun_time = [t \in AllTasks |-> 0]

\* Any interrupt but the tick.
irq ==
    /\ schedule(task_schedule, state, vrun_time)
    /\ UNCHANGED <<state, vrun_time>>

\* The tick of the jz2440.
tick_irq ==
    /\ TickAccounting
    /\ vrun_time' = [vrun_time EXCEPT ![current] = @ + 2]
    /\ schedule(tick_charge(task_schedule), state, vrun_time')
    /\ UNCHANGED state

Next == irq \/ tick_irq

Spec == Init /\ [][Next]_vars

-----------------------------------------------------------------------------

queue == task_schedule.task_queue

TypeOK ==
    /\ current \in AllTasks
    /\ task_schedule \in ScheduleType
    /\ state \in [AllTasks -> TaskStates]
    /\ vrun_time \in [AllTasks -> Nat]

\* Every task but the boot task is either on the CPU or queued, once, and the
\* queue is well formed.
NobodyLost ==
    /\ \A t \in Tasks : t = current <=> t \notin Queued(task_schedule)
    /\ WellFormed(task_schedule, vrun_time, 0)

\* Proportional share: none is lost, and the run times of two tasks that never
\* sleep differ by one tick at most, however interrupts fall.
FairShare ==
    /\ NobodyLost
    /\ \A t, u \in Tasks : vrun_time[t] <= vrun_time[u] + 2

\* Among tasks that have run equally long the queue is a stack: the one at its
\* bottom is never chosen, and with three or more two others share the CPU.
\* Without accounting (x4418) that is always so.
BottomStays == Len(queue) < 2 \/ queue'[Len(queue')] = queue[Len(queue)]
RunEqually == \A t, u \in Tasks : vrun_time[t] = vrun_time[u]
BottomNeverRuns == [][RunEqually /\ UNCHANGED vrun_time => BottomStays]_vars

-----------------------------------------------------------------------------
(* For any number of tasks that never sleep none is lost, and the tick      *)
(* shares the CPU evenly.  FairShare is not inductive: a tick charges the   *)
(* task on the CPU, so that task must be one that has run least, and        *)
(* schedule() finds one only in a queue that is sorted, complete and not    *)
(* empty.                                                                   *)

\* The task on the CPU has run least.
RunsTheLeast ==
    /\ current \in Tasks => \A u \in Tasks : vrun_time[current] <= vrun_time[u]
    /\ current = InitTask => \A u \in Tasks : vrun_time[u] = 0

IInv ==
    /\ TypeOK
    /\ state = [t \in AllTasks |-> RUNNING]
    /\ NobodyLost
    /\ current \notin Queued(task_schedule)
    /\ FairShare
    /\ RunsTheLeast

\* There is always a task besides the one on the CPU.
LEMMA AnotherTask ==
    ASSUME NEW t
    PROVE  \E u \in Tasks : u # t
<1> SUFFICES ASSUME \A u \in Tasks : u = t PROVE FALSE
  OBVIOUS
<1>1. CASE Tasks = {}
  <2>1. Cardinality(Tasks) = 0
    BY <1>1, FS_EmptySet
  <2> QED
    BY <2>1, TwoTasks
<1>2. CASE Tasks = {t}
  <2>1. Cardinality(Tasks) = 1
    BY <1>2, FS_Singleton
  <2> QED
    BY <2>1, TwoTasks
<1> QED
  BY <1>1, <1>2

LEMMA InitIInv == Init => IInv
<1> SUFFICES ASSUME Init PROVE IInv
  OBVIOUS
<1> DEFINE N == Cardinality(Tasks)
<1>1. N \in Nat
  BY TwoTasks, FS_CardinalityType
<1>2. PICK q \in Bijection(1 .. N, Tasks) :
        task_schedule = [task_queue |-> q, running_task_count |-> N + 1,
                         CPU_exec_task_jiffies |-> 4]
  BY DEF Init
<1>3. /\ q \in [1 .. N -> Tasks]
      /\ \A i, j \in 1 .. N : q[i] = q[j] => i = j
      /\ \A t \in Tasks : \E i \in 1 .. N : q[i] = t
  BY DEF Bijection, Injection, Surjection, IsInjective
<1>4. q \in Seq(Tasks) /\ Len(q) = N /\ DOMAIN q = 1 .. N
  BY <1>1, <1>3
<1>5. current = InitTask /\ state = [t \in AllTasks |-> RUNNING]
      /\ vrun_time = [t \in AllTasks |-> 0]
  BY DEF Init
<1>6. TypeOK
  BY <1>1, <1>2, <1>4, <1>5 DEF TypeOK, ScheduleType, AllTasks, TaskStates
<1>7. Queued(task_schedule) = Tasks
  BY <1>2, <1>3, <1>4 DEF Queued
<1>8. WellFormed(task_schedule, vrun_time, 0)
  <2>1. \A i \in 1 .. N : vrun_time[q[i]] = 0
    BY <1>3, <1>5 DEF AllTasks
  <2> QED
    BY <1>1, <1>2, <1>3, <1>4, <2>1 DEF WellFormed
<1>9. NobodyLost /\ current \notin Queued(task_schedule)
  BY <1>5, <1>7, <1>8, InitTaskAssumption DEF NobodyLost
<1>10. FairShare /\ RunsTheLeast
  BY <1>5, <1>9, InitTaskAssumption DEF FairShare, RunsTheLeast, AllTasks
<1> QED
  BY <1>5, <1>6, <1>9, <1>10 DEF IInv

\* What schedule() makes of it, at run times v that keep the queue sorted and
\* are spread by one tick at most.
LEMMA ScheduleIInv ==
    ASSUME IInv, NEW ts \in ScheduleType, NEW v \in RunTimes,
           ts.task_queue = task_schedule.task_queue,
           ts.running_task_count = task_schedule.running_task_count,
           \A t \in AllTasks \ {current} : v[t] = vrun_time[t],
           v[current] >= vrun_time[current],
           \A t, u \in Tasks : v[t] <= v[u] + 2,
           vrun_time' = v, state' = state, schedule(ts, state, v)
    PROVE  IInv'
<1>1. \A t \in AllTasks : v[t] \in Nat
  BY DEF RunTimes
<1>2. current \in AllTasks /\ task_schedule \in ScheduleType
  BY DEF IInv, TypeOK
<1>3. Queued(ts) = Queued(task_schedule)
  BY DEF Queued
<1>4. Queued(ts) \subseteq Tasks
  BY DEF Queued, ScheduleType
<1>5. current \notin Queued(ts)
  BY <1>3 DEF IInv
<1>6. WellFormed(ts, v, 0)
  <2>1. WellFormed(task_schedule, vrun_time, 0)
    BY DEF IInv, NobodyLost
  <2>2. \A u \in Queued(task_schedule) : v[u] = vrun_time[u]
    BY <1>3, <1>4, <1>5 DEF AllTasks
  <2> QED
    BY <2>1, <2>2, WellFormedOnQueued
<1>7. state[current] = RUNNING
  BY <1>2 DEF IInv
<1>8. \A t \in Tasks : t = current \/ t \in Queued(ts)
  BY <1>3 DEF IInv, NobodyLost
<1>9. ts.task_queue # <<>>
  <2>1. PICK u \in Tasks : u # current
    BY AnotherTask
  <2> QED
    BY <1>8, <2>1 DEF Queued
<1>10. /\ current' \in AllTasks
       /\ task_schedule' \in ScheduleType
       /\ WellFormed(task_schedule', v, 0)
       /\ current' \notin Queued(task_schedule')
       /\ Queued(task_schedule') \cup {current', InitTask}
            = Queued(ts) \cup {InitTask} \cup {current}
  <2> HIDE DEF RunTimes
  <2> QED
    BY <1>2, <1>5, <1>6, <1>7, ScheduleKeeps
<1>11. current = InitTask => \A u \in Queued(ts) : v[u] <= v[current]
  BY <1>1, <1>2, <1>4, InitTaskAssumption DEF IInv, RunsTheLeast, AllTasks
<1>12. /\ current' \in Tasks
       /\ \A u \in Queued(ts) \cup ({current} \ {InitTask}) : v[current'] <= v[u]
  BY <1>2, <1>6, <1>7, <1>9, <1>11, ScheduleMinimal
<1>13. TypeOK'
  BY <1>10 DEF IInv, TypeOK, RunTimes
<1>14. \A t \in Tasks : t = current' <=> t \notin Queued(task_schedule')
  BY <1>8, <1>10, InitTaskAssumption
<1>15. NobodyLost' /\ (current \notin Queued(task_schedule))'
  BY <1>10, <1>14 DEF NobodyLost, Queued, WellFormed
<1>16. FairShare'
  BY <1>15 DEF FairShare
<1>17. RunsTheLeast'
  <2>1. \A u \in Tasks : v[current'] <= v[u]
    BY <1>8, <1>12, InitTaskAssumption
  <2> QED
    BY <1>12, <2>1, InitTaskAssumption DEF RunsTheLeast
<1> QED
  BY <1>13, <1>15, <1>16, <1>17 DEF IInv

LEMMA NextIInv == IInv /\ [Next]_vars => IInv'
<1> SUFFICES ASSUME IInv, [Next]_vars PROVE IInv'
  OBVIOUS
<1>1. /\ task_schedule \in ScheduleType
      /\ vrun_time \in RunTimes
      /\ current \in AllTasks
      /\ \A t \in AllTasks : vrun_time[t] \in Nat
  BY DEF IInv, TypeOK, RunTimes
<1>2. CASE irq
  <2>1. \A t, u \in Tasks : vrun_time[t] <= vrun_time[u] + 2
    BY DEF IInv, FairShare
  <2>2. vrun_time' = vrun_time /\ state' = state
        /\ schedule(task_schedule, state, vrun_time)
    BY <1>2 DEF irq
  <2> QED
    BY <1>1, <2>1, <2>2, ScheduleIInv
<1>3. CASE tick_irq
  <2>1. PICK v : v = [vrun_time EXCEPT ![current] = @ + 2]
    OBVIOUS
  <2>2. v \in RunTimes /\ v[current] = vrun_time[current] + 2
        /\ \A t \in AllTasks \ {current} : v[t] = vrun_time[t]
    BY <1>1, <2>1 DEF RunTimes
  <2>3. PICK ts : ts = tick_charge(task_schedule)
    OBVIOUS
  <2>4. /\ ts \in ScheduleType
        /\ ts.task_queue = task_schedule.task_queue
        /\ ts.running_task_count = task_schedule.running_task_count
    BY <1>1, <2>3 DEF tick_charge, ScheduleType
  <2>5. vrun_time' = v /\ state' = state /\ schedule(ts, state, v)
    BY <1>3, <2>1, <2>3 DEF tick_irq
  <2>6. ASSUME NEW t \in Tasks, NEW u \in Tasks PROVE v[t] <= v[u] + 2
    <3>1. vrun_time[t] \in Nat /\ vrun_time[u] \in Nat /\ t \in AllTasks /\ u \in AllTasks
      BY <1>1 DEF AllTasks
    <3>2. vrun_time[t] <= vrun_time[u] + 2
      BY DEF IInv, FairShare
    <3>3. CASE t # current
      BY <2>2, <3>1, <3>2, <3>3
    <3>4. CASE t = current
      <4>1. vrun_time[t] <= vrun_time[u]
        BY <3>4 DEF IInv, RunsTheLeast
      <4> QED
        BY <2>2, <3>1, <3>4, <4>1
    <3> QED
      BY <3>3, <3>4
  <2>7. v[current] >= vrun_time[current]
    BY <1>1, <2>2
  <2> QED
    BY <2>2, <2>4, <2>5, <2>6, <2>7, ScheduleIInv
<1>4. CASE UNCHANGED vars
  BY <1>4 DEF vars, IInv, TypeOK, NobodyLost, FairShare, RunsTheLeast, Queued, WellFormed
<1> QED
  BY <1>2, <1>3, <1>4 DEF Next

\* A task that is put among others that have run as long goes to the front.
LEMMA EqualGoesFirst ==
    ASSUME NEW q \in Seq(Tasks), NEW v \in RunTimes, NEW tsk \in Tasks,
           \A i \in DOMAIN q : v[q[i]] = v[tsk]
    PROVE  InsertPosition(q, v, tsk) = 1
<1> DEFINE i == InsertPosition(q, v, tsk)
<1>1. IsInsertPosition(q, v, tsk, i)
  BY InsertPositionExists
<1> HIDE DEF i
<1>2. i \in 1 .. Len(q) + 1 /\ \A j \in 1 .. i - 1 : v[q[j]] < v[tsk]
  BY <1>1 DEF IsInsertPosition
<1>3. CASE i > 1
  <2>1. 1 \in 1 .. i - 1 /\ 1 \in DOMAIN q /\ v[q[1]] = v[tsk]
    BY <1>2, <1>3
  <2>2. v[tsk] \in Nat
    BY DEF RunTimes, AllTasks
  <2> QED
    BY <1>2, <2>1, <2>2
<1> QED
  BY <1>2, <1>3 DEF i

\* Whatever the number of tasks, none is lost, and the run times of two of them
\* never differ by more than one tick of the timer.
THEOREM SchedulerIsFair == Spec => []FairShare
<1>1. IInv => FairShare
  BY DEF IInv
<1> QED
  BY <1>1, InitIInv, NextIInv, PTL DEF Spec

\* Whatever the number of tasks, schedule() and the tick lose none of them and
\* keep the run queue sorted and counted.
THEOREM SchedulerLosesNobody == Spec => []NobodyLost
<1>1. IInv => NobodyLost
  BY DEF IInv
<1> QED
  BY <1>1, InitIInv, NextIInv, PTL DEF Spec

\* Every variable of the scheduler keeps its type.
THEOREM SchedulerTypes == Spec => []TypeOK
<1>1. IInv => TypeOK
  BY DEF IInv
<1> QED
  BY <1>1, InitIInv, NextIInv, PTL DEF Spec

\* Whatever the number of tasks, the one at the bottom of the queue stays there
\* for as long as all have run equally long, which is for ever where no tick is
\* charged.
THEOREM BottomStarves == Spec => BottomNeverRuns
<1>1. ASSUME IInv, Next, RunEqually, vrun_time' = vrun_time, Len(queue) >= 2
      PROVE  queue'[Len(queue')] = queue[Len(queue)]
  <2>1. queue \in Seq(Tasks) /\ vrun_time \in RunTimes /\ current \in AllTasks
    BY <1>1 DEF IInv, TypeOK, ScheduleType, queue, RunTimes
  <2>2. PICK ts \in ScheduleType :
            ts.task_queue = queue /\ WellFormed(ts, vrun_time, 0) /\ schedule(ts, state, vrun_time)
    <3>1. CASE irq
      BY <1>1, <3>1 DEF irq, queue, IInv, TypeOK, NobodyLost
    <3>2. CASE tick_irq
      <4>1. /\ tick_charge(task_schedule) \in ScheduleType
            /\ tick_charge(task_schedule).task_queue = queue
            /\ WellFormed(tick_charge(task_schedule), vrun_time, 0)
        <5>1. PICK cs : cs = tick_charge(task_schedule)
          OBVIOUS
        <5>2. /\ cs \in ScheduleType
              /\ cs.task_queue = task_schedule.task_queue
              /\ cs.running_task_count = task_schedule.running_task_count
          BY <1>1, <5>1 DEF tick_charge, ScheduleType, IInv, TypeOK
        <5>3. WellFormed(task_schedule, vrun_time, 0)
          BY <1>1 DEF IInv, NobodyLost
        <5>4. WellFormed(cs, vrun_time, 0)
          BY <5>2, <5>3, WellFormedOnQueued
        <5> QED
          BY <5>1, <5>2, <5>4 DEF queue
      <4> QED
        BY <1>1, <3>2, <4>1 DEF tick_irq
    <3> QED
      BY <1>1, <3>1, <3>2 DEF Next
  <2>3. state[current] = RUNNING /\ Len(queue) \in Nat
    BY <1>1, <2>1 DEF IInv
  <2> DEFINE tsk == Head(queue)
             rest == load_slice(get_next_task(ts))
  <2>4. tsk \in Tasks /\ next_task(ts) = tsk
    BY <1>1, <2>1, <2>2 DEF next_task
  <2>5. rest.task_queue = Tail(queue)
    BY <1>1, <2>1, <2>2, <2>3 DEF load_slice, get_next_task, ScheduleType
  <2>6. /\ Tail(queue) \in Seq(Tasks) /\ Len(Tail(queue)) = Len(queue) - 1
        /\ Tail(queue)[Len(queue) - 1] = queue[Len(queue)]
    BY <1>1, <2>1, <2>3
  <2>7. vrun_time[current] >= vrun_time[tsk]
    <3>1. vrun_time[tsk] \in Nat /\ vrun_time[current] \in Nat
      BY <2>1, <2>4 DEF RunTimes, AllTasks
    <3>2. CASE current \in Tasks
      BY <1>1, <2>4, <3>1, <3>2 DEF RunEqually
    <3>3. CASE current = InitTask
      BY <1>1, <2>4, <3>1, <3>3 DEF IInv, RunsTheLeast
    <3> QED
      BY <2>1, <3>2, <3>3 DEF AllTasks
  <2>8. task_schedule' = insert_task_queue(rest, vrun_time, current)
    BY <2>2, <2>3, <2>4, <2>7 DEF schedule
  <2> HIDE DEF rest, tsk
  <2>9. CASE current = InitTask
    BY <1>1, <2>3, <2>5, <2>6, <2>8, <2>9 DEF insert_task_queue, enqueue, count_up, queue
  <2>10. CASE current \in Tasks
    <3>1. \A i \in DOMAIN Tail(queue) : vrun_time[Tail(queue)[i]] = vrun_time[current]
      BY <1>1, <2>6, <2>10 DEF RunEqually
    <3>2. InsertPosition(Tail(queue), vrun_time, current) = 1
      BY <2>1, <2>6, <2>10, <3>1, EqualGoesFirst
    <3>3. rest \in ScheduleType
      BY <2>2, GetNextTask, LoadSlice DEF rest
    <3>4. queue' = InsertAt(Tail(queue), 1, current)
      <4>1. current # InitTask
        BY <2>10, InitTaskAssumption
      <4>2. task_schedule' = count_up(enqueue(rest, vrun_time, current))
        BY <2>8, <4>1 DEF insert_task_queue
      <4>3. enqueue(rest, vrun_time, current)
              = [rest EXCEPT !.task_queue = InsertAt(Tail(queue), 1, current)]
        BY <2>5, <3>2, <3>3 DEF enqueue, ScheduleType
      <4>4. task_schedule'.task_queue = InsertAt(Tail(queue), 1, current)
        BY <3>3, <4>2, <4>3 DEF count_up, ScheduleType
      <4> QED
        BY <4>4 DEF queue
    <3>5. Len(queue') = Len(queue) /\ queue'[Len(queue)] = Tail(queue)[Len(queue) - 1]
      <4>1. PICK q, n : q = Tail(queue) /\ n = Len(queue)
        OBVIOUS
      <4>2. n \in Nat /\ n >= 2 /\ q \in Seq(Tasks) /\ Len(q) + 1 = n /\ 1 \in 1 .. Len(q) + 1
        BY <1>1, <2>3, <2>6, <4>1
      <4>3. /\ Len(InsertAt(q, 1, current)) = Len(q) + 1
            /\ n > 1 => InsertAt(q, 1, current)[n] = q[n - 1]
        BY <2>10, <4>2, InsertAtIsSequence
      <4> QED
        BY <3>4, <4>1, <4>2, <4>3
    <3> QED
      BY <2>6, <3>5
  <2> QED
    BY <2>1, <2>9, <2>10 DEF AllTasks
<1>2. ASSUME IInv, [Next]_vars
      PROVE  [RunEqually /\ UNCHANGED vrun_time => BottomStays]_vars
  <2>1. queue \in Seq(Tasks)
    BY <1>2 DEF IInv, TypeOK, ScheduleType, queue
  <2>2. Len(queue) < 2 \/ Len(queue) >= 2
    BY <2>1
  <2> QED
    BY <1>1, <1>2, <2>2 DEF BottomStays
<1> QED
  BY <1>2, InitIInv, NextIInv, PTL DEF Spec, BottomNeverRuns

=============================================================================
