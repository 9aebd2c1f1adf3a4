----------------------------- MODULE RunQueue -----------------------------
(***************************************************************************)
(* The scheduler's run queue: kernel/schedule.c, and the tick accounting   *)
(* of the jz2440 port (arch/arm32/mach-jz2440/drivers/timer.c).            *)
(*                                                                         *)
(* The machine has one CPU.  schedule() and the tick run with interrupts   *)
(* masked, and so does do_fork(): each is one operator on task_schedule,   *)
(* the C struct of that name.  insert_task_queue() also runs unmasked, at  *)
(* the end of do_exit(): enqueue and count_up are the two accesses it then *)
(* consists of.  SchedFair and Tasks compose these operators into steps.   *)
(*                                                                         *)
(* NEED_SCHEDULE is left out: schedule(), wakeup_process() and the tick    *)
(* write it and nothing reads it.  priority is left out too: every task    *)
(* has priority 2 (INIT_TASK, do_fork), which is the default branch.       *)
(***************************************************************************)
EXTENDS Integers, Sequences

CONSTANTS
    Tasks,          \* the blocks a task_struct can occupy
    InitTask,       \* init_task_union.task, the boot task, never queued
    TickAccounting  \* TRUE: the timer interrupt charges vrun_time (jz2440)

ASSUME InitTaskAssumption == InitTask \notin Tasks
ASSUME TickAccountingAssumption == TickAccounting \in BOOLEAN

AllTasks == Tasks \cup {InitTask}

RUNNING == "TASK_RUNNING"
INTERRUPTIBLE == "TASK_INTERRUPTIBLE"
ZOMBIE == "TASK_ZOMBIE"
TaskStates == {RUNNING, INTERRUPTIBLE, ZOMBIE}

VARIABLES
    current,        \* the task on the CPU
    task_schedule,  \* struct schedule: the queue, its count, the time slice
    state,          \* task_struct.state
    vrun_time       \* task_struct.vrun_time

-----------------------------------------------------------------------------

EmptySchedule ==
    [task_queue |-> <<>>, running_task_count |-> 1, CPU_exec_task_jiffies |-> 4]

Queued(ts) == {ts.task_queue[i] : i \in DOMAIN ts.task_queue}

\* What get_next_task() returns, and what it leaves behind.
next_task(ts) ==
    IF ts.task_queue = <<>> THEN InitTask ELSE Head(ts.task_queue)

\* (mutant: the count is not lowered)
get_next_task_uncounted(ts) ==
    IF ts.task_queue = <<>> THEN ts ELSE [ts EXCEPT !.task_queue = Tail(@)]

get_next_task(ts) ==
    IF ts.task_queue = <<>>
    THEN ts
    ELSE [ts EXCEPT !.task_queue = Tail(@), !.running_task_count = @ - 1]

\* (mutants: a queue in falling order; a new entry behind its equals)
IsInsertPosition_falling(q, v, tsk, i) ==
    /\ i \in 1 .. Len(q) + 1
    /\ \A j \in 1 .. i - 1 : v[q[j]] > v[tsk]
    /\ i <= Len(q) => v[q[i]] <= v[tsk]

IsInsertPosition_behind(q, v, tsk, i) ==
    /\ i \in 1 .. Len(q) + 1
    /\ \A j \in 1 .. i - 1 : v[q[j]] <= v[tsk]
    /\ i <= Len(q) => v[q[i]] > v[tsk]

\* Where insert_task_queue() stops its walk: the first entry that has run at
\* least as long as tsk, or the head of the list, whose vrun_time is the
\* largest there is.
IsInsertPosition(q, v, tsk, i) ==
    /\ i \in 1 .. Len(q) + 1
    /\ \A j \in 1 .. i - 1 : v[q[j]] < v[tsk]
    /\ i <= Len(q) => v[q[i]] >= v[tsk]

InsertAt(q, i, tsk) ==
    [j \in 1 .. Len(q) + 1 |->
        IF j < i THEN q[j] ELSE IF j = i THEN tsk ELSE q[j - 1]]

InsertPosition(q, v, tsk) == CHOOSE i \in 1 .. Len(q) + 1 : IsInsertPosition(q, v, tsk, i)

\* The two accesses of insert_task_queue(): tsk is linked, and then counted.
enqueue(ts, v, tsk) ==
    [ts EXCEPT !.task_queue = InsertAt(@, InsertPosition(@, v, tsk), tsk)]

count_up(ts) == [ts EXCEPT !.running_task_count = @ + 1]

insert_task_queue(ts, v, tsk) ==
    IF tsk = InitTask THEN ts ELSE count_up(enqueue(ts, v, tsk))

\* 4 divided by a long: towards 0, and 0 after the message of __div0().
share_of_4(count) ==
    CASE count > 0 -> 4 \div count
      [] count < 0 -> 0 - (4 \div (0 - count))
      [] OTHER -> 0

\* The refill of the time slice.  It happens only at exactly 0, and the slice
\* it gives is 0 again from 5 tasks on.
load_slice(ts) ==
    IF ts.CPU_exec_task_jiffies = 0
    THEN [ts EXCEPT !.CPU_exec_task_jiffies = share_of_4(ts.running_task_count) * 3]
    ELSE ts

\* (mutant: the preempted task is not queued)
schedule_drops_current(ts, st, v) ==
    /\ current' = next_task(ts)
    /\ task_schedule' = load_slice(get_next_task(ts))

\* schedule(), called with the task_schedule ts, the states st and the run
\* times v that the caller has just written.
schedule(ts, st, v) ==
    LET tsk == next_task(ts)
        rest == load_slice(get_next_task(ts))
    IN  IF v[current] >= v[tsk] \/ st[current] # RUNNING
        THEN /\ current' = tsk
             /\ task_schedule' = IF st[current] = RUNNING
                                 THEN insert_task_queue(rest, v, current)
                                 ELSE rest
        ELSE /\ task_schedule' = insert_task_queue(rest, v, tsk)
             /\ UNCHANGED current

\* wakeup_process() of do_fork(): the caller sets the state of tsk.
wakeup_process(ts, v, tsk) == insert_task_queue(ts, v, tsk)

\* tick_irq_hander(): the running task is charged 2 units.
tick_charge(ts) == [ts EXCEPT !.CPU_exec_task_jiffies = @ - 2]

-----------------------------------------------------------------------------

ScheduleType ==
    [task_queue : Seq(Tasks), running_task_count : Int, CPU_exec_task_jiffies : Int]

\* A queue holds a task once, is sorted by run time, and its count, by which
\* the time slice is divided, is that of the queue and the running task, but
\* for the tasks that are linked and not counted.
WellFormed(ts, v, uncounted) ==
    LET q == ts.task_queue
    IN  /\ \A i, j \in DOMAIN q : i < j => q[i] # q[j] /\ v[q[i]] <= v[q[j]]
        /\ ts.running_task_count + uncounted = Len(q) + 1

=============================================================================
