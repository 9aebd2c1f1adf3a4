------------------------------- MODULE Tasks -------------------------------
(***************************************************************************)
(* The life of a task: fork, exit and wait4 (kernel/task.c, fs/sys.c), the *)
(* wait queue they synchronise with (kernel/waitqueue.c) and preemption at *)
(* the end of an interrupt (mach-x4418/irq.c, arch/arm32/kernel/irq.c).    *)
(*                                                                         *)
(* The CPU has one core, and svc entry masks interrupts: the code between  *)
(* two points where they are enabled is one action.  They are enabled in   *)
(* user code, after the sti() of do_exit(), and in the rest of a system    *)
(* call that has slept, because schedule() ends with sti().  An interrupt  *)
(* taken at one of those points is an action of its own; in do_exit() the  *)
(* points lie between any two accesses that others can tell apart.         *)
(*                                                                         *)
(* A pid is represented by the task_struct block that carries it: pids are *)
(* never reused, blocks are, and a lookup only compares pids of blocks.    *)
(* A call that fails without writing anything (EAGAIN, ECHILD, EINVAL) is  *)
(* a stuttering step.  The memory and files of a task are not part of this *)
(* module.                                                                 *)
(***************************************************************************)
EXTENDS RunQueue, FiniteSets

CONSTANTS
    ExitCodes,          \* the arguments programs give to exit()
    MaxVrun,            \* bound: no tick is taken once the run time reaches it
    MaxOverrun,         \* bound: nor once the time slice is overdrawn by it
    MaxCut,             \* bound: the interrupts between a link and its count
    Discipline,         \* what programs do with their children, see below
    IrqInExit           \* FALSE: no interrupt arrives between the sti() of
                        \* do_exit() and the schedule() that ends it

ASSUME ExitCodesAssumption == ExitCodes \subseteq Nat /\ ExitCodes # {}
ASSUME MaxVrunAssumption == MaxVrun \in Nat
ASSUME MaxOverrunAssumption == MaxOverrun \in Nat
ASSUME MaxCutAssumption == MaxCut \in Nat
ASSUME IrqInExitAssumption == IrqInExit \in BOOLEAN

\* "any":        no restriction;
\* "sequential": a program forks one child at a time, waits for that child
\*               only, and waits before it exits;
\* "nested":     sequential, and it forks only while its parent waits for it.
ASSUME DisciplineAssumption == Discipline \in {"any", "sequential", "nested"}

Sequential == Discipline # "any"
Nested == Discipline = "nested"

VARIABLES
    allocated,       \* the blocks that hold a task_struct, kmalloc to kfree
    parent,          \* task_struct.parent
    next,            \* task_struct.next, the list sys_wait4() searches
    wait_childexit,  \* task_struct.wait_childexit, as the tasks on it
    exit_code,       \* task_struct.exit_code
    pc,              \* where a task is in the kernel
    local,           \* locals of sys_wait4() and wakeup() across a sleep
    status,          \* the last status wait4 stored for a task
    cut              \* history: the tasks that were linked and never counted

schedVars == <<current, task_schedule, state, vrun_time>>
vars == <<current, task_schedule, state, vrun_time, allocated, parent, next,
          wait_childexit, exit_code, pc, local, status, cut>>

\* In do_exit() after its sti(): before exit_notify(), in wakeup_process(), in
\* insert_task_queue() before the link, between link and count, behind both,
\* and with the link half made.
ExitPoints == {"notify", "wake", "link", "count", "schedule", "torn"}
Points == {"user", "copy", "reap"} \cup ExitPoints

\* No status has been stored yet.
NoStatus == -1

\* The locals of a task that is not in the middle of a call.
NoLocal(t) == [child |-> t, tsk |-> t]

Children(t) == {c \in allocated : parent[c] = t}

-----------------------------------------------------------------------------

\* Right after task_init(): the boot task runs cmd_loop() and its one kernel
\* thread, which becomes the first program, is ready.
Init ==
    \E first \in Tasks :
        /\ current = InitTask
        /\ task_schedule = [EmptySchedule EXCEPT !.task_queue = <<first>>,
                                                 !.running_task_count = 2]
        /\ state = [t \in AllTasks |-> RUNNING]
        /\ vrun_time = [t \in AllTasks |-> 0]
        /\ allocated = {first}
        /\ parent = [t \in AllTasks |-> InitTask]
        /\ next = [t \in AllTasks |-> IF t = InitTask THEN first ELSE InitTask]
        /\ wait_childexit = [t \in AllTasks |-> <<>>]
        /\ exit_code = [t \in Tasks |-> 0]
        /\ pc = [t \in Tasks |-> "user"]
        /\ local = [t \in Tasks |-> NoLocal(t)]
        /\ status = [t \in Tasks |-> NoStatus]
        /\ cut = 0

InUser(t) == current = t /\ pc[t] = "user"

\* The task list with tsk, a child of t, pushed on its front.
\* (mutant: its link stays the copy of the link of its parent)
link_task_copied(t, tsk) == [next EXCEPT ![tsk] = next[t], ![InitTask] = tsk]

link_task(t, tsk) == [next EXCEPT ![tsk] = next[InitTask], ![InitTask] = tsk]

\* do_fork(): the new task is a copy of its parent but for the fields below,
\* it goes to the front of the task list and is made runnable.
do_fork(t, tsk) ==
    /\ InUser(t)
    /\ Sequential => Children(t) = {}
    /\ Nested => parent[t] = InitTask \/ state[parent[t]] = INTERRUPTIBLE
    /\ tsk \notin allocated
    /\ allocated' = allocated \cup {tsk}
    /\ parent' = [parent EXCEPT ![tsk] = t]
    /\ next' = link_task(t, tsk)
    /\ wait_childexit' = [wait_childexit EXCEPT ![tsk] = <<>>]
    /\ exit_code' = [exit_code EXCEPT ![tsk] = exit_code[t]]
    /\ vrun_time' = [vrun_time EXCEPT ![tsk] = vrun_time[t]]
    /\ state' = [state EXCEPT ![tsk] = RUNNING]
    /\ pc' = [pc EXCEPT ![tsk] = "user"]
    /\ task_schedule' = wakeup_process(task_schedule, vrun_time', tsk)
    /\ UNCHANGED <<current, local, status, cut>>

\* do_exit() as far as its sti().
do_exit(t, code) ==
    /\ InUser(t)
    /\ Sequential => Children(t) = {}
    /\ state' = [state EXCEPT ![t] = ZOMBIE]
    /\ exit_code' = [exit_code EXCEPT ![t] = code]
    /\ pc' = [pc EXCEPT ![t] = "notify"]
    /\ UNCHANGED <<current, task_schedule, vrun_time, allocated, parent, next,
                   wait_childexit, local, status, cut>>

\* The queue do_exit() wakes a waiter of.  (mutant: its own)
exit_queue_own(t) == wait_childexit[t]

exit_queue(t) == wait_childexit[parent[t]]

\* exit_notify(): wakeup() takes the first waiter off the queue of the parent
\* when that waiter sleeps interruptibly ...
exit_notify(t) ==
    LET waiters == exit_queue(t)
        wakes == waiters # <<>> /\ state[Head(waiters)] = INTERRUPTIBLE
    IN  /\ current = t /\ pc[t] = "notify"
        /\ IF wakes
           THEN /\ wait_childexit' = [wait_childexit EXCEPT ![parent[t]] = Tail(@)]
                /\ local' = [local EXCEPT ![t].tsk = Head(waiters)]
                /\ pc' = [pc EXCEPT ![t] = "wake"]
           ELSE /\ pc' = [pc EXCEPT ![t] = "schedule"]
                /\ UNCHANGED <<wait_childexit, local>>
        /\ UNCHANGED <<schedVars, allocated, parent, next, exit_code, status, cut>>

\* ... then wakeup_process() says that it is runnable ...
exit_wakeup(t) ==
    /\ current = t /\ pc[t] = "wake"
    /\ state' = [state EXCEPT ![local[t].tsk] = RUNNING]
    /\ pc' = [pc EXCEPT ![t] = "link"]
    /\ UNCHANGED <<current, task_schedule, vrun_time, allocated, parent, next,
                   wait_childexit, exit_code, local, status, cut>>

\* ... insert_task_queue() links it ...
exit_link(t) ==
    /\ current = t /\ pc[t] = "link"
    /\ task_schedule' = enqueue(task_schedule, vrun_time, local[t].tsk)
    /\ pc' = [pc EXCEPT ![t] = "count"]
    /\ local' = [local EXCEPT ![t] = NoLocal(t)]
    /\ UNCHANGED <<current, state, vrun_time, allocated, parent, next,
                   wait_childexit, exit_code, status, cut>>

\* ... and counts it.
exit_count(t) ==
    /\ current = t /\ pc[t] = "count"
    /\ task_schedule' = count_up(task_schedule)
    /\ pc' = [pc EXCEPT ![t] = "schedule"]
    /\ UNCHANGED <<current, state, vrun_time, allocated, parent, next,
                   wait_childexit, exit_code, local, status, cut>>

\* The schedule() that ends do_exit().
exit_schedule(t) ==
    /\ current = t /\ pc[t] = "schedule"
    /\ schedule(task_schedule, state, vrun_time)
    /\ UNCHANGED <<state, vrun_time, allocated, parent, next, wait_childexit,
                   exit_code, pc, local, status, cut>>

-----------------------------------------------------------------------------

\* The n-th task of the list, from the boot task on.
walk[n \in 0 .. Cardinality(Tasks)] ==
    IF n = 0 THEN InitTask ELSE next[walk[n - 1]]

\* The search of sys_wait4() stops at the predecessor tsk of child.
Precedes(tsk, child) ==
    /\ next[tsk] = child
    /\ \E n \in DOMAIN walk :
        /\ walk[n] = tsk
        /\ \A m \in 1 .. n : walk[m] \notin {InitTask, child}

\* What decides whether sys_wait4() reaps at once.  (mutants: always, never)
Exited_always(child) == TRUE
Exited_never(child) == FALSE

Exited(child) == state[child] = ZOMBIE

\* kfree() of a task_struct.  (mutant: forgotten)
kfree_task_leaks(child) == allocated

kfree_task(child) == allocated \ {child}

\* sys_wait4() of a task that has exited.
wait4_zombie(t, child, tsk) ==
    /\ Exited(child)
    /\ status' = [status EXCEPT ![t] = exit_code[child]]
    /\ next' = [next EXCEPT ![tsk] = next[child]]
    /\ allocated' = kfree_task(child)
    /\ UNCHANGED <<schedVars, parent, wait_childexit, exit_code, pc, local, cut>>

\* sys_wait4() of a task that has not: interruptible_sleep_on().
wait4_sleep(t, child, tsk) ==
    /\ ~Exited(child)
    /\ state' = [state EXCEPT ![t] = INTERRUPTIBLE]
    /\ wait_childexit' = [wait_childexit EXCEPT ![t] = Append(@, t)]
    /\ local' = [local EXCEPT ![t] = [child |-> child, tsk |-> tsk]]
    /\ pc' = [pc EXCEPT ![t] = "copy"]
    /\ schedule(task_schedule, state', vrun_time)
    /\ UNCHANGED <<vrun_time, allocated, parent, next, exit_code, status, cut>>

sys_wait4(t, child) ==
    /\ InUser(t)
    /\ Sequential => child \in Children(t)
    /\ \E tsk \in AllTasks :
        /\ Precedes(tsk, child)
        /\ wait4_zombie(t, child, tsk) \/ wait4_sleep(t, child, tsk)

\* After the sleep the state of the child is not looked at again: its exit
\* code is copied and it is unlinked from the predecessor found before ...
wait4_copy(t) ==
    /\ current = t /\ pc[t] = "copy"
    /\ status' = [status EXCEPT ![t] = exit_code[local[t].child]]
    /\ next' = [next EXCEPT ![local[t].tsk] = next[local[t].child]]
    /\ pc' = [pc EXCEPT ![t] = "reap"]
    /\ UNCHANGED <<schedVars, allocated, parent, wait_childexit, exit_code, local,
                   cut>>

\* ... and its memory is freed.
wait4_reap(t) ==
    /\ current = t /\ pc[t] = "reap"
    /\ allocated' = kfree_task(local[t].child)
    /\ pc' = [pc EXCEPT ![t] = "user"]
    /\ local' = [local EXCEPT ![t] = NoLocal(t)]
    /\ UNCHANGED <<schedVars, parent, next, wait_childexit, exit_code, status, cut>>

-----------------------------------------------------------------------------

\* Interrupts are enabled wherever a task can be seen; no spin lock is held
\* there, so preempt_count() is 0 and the handler calls schedule().
IrqEnabled ==
    current # InitTask /\ ~IrqInExit => pc[current] \notin ExitPoints

\* The CPU is in insert_task_queue(), between the link and the count.
Uncounted == IF current # InitTask /\ pc[current] = "count" THEN 1 ELSE 0

\* schedule() does not queue a zombie again: what it had still to do is never
\* done, the count of the task it has just linked included.
interrupt == IrqEnabled /\ cut' = cut + Uncounted /\ cut' <= MaxCut

\* An interrupt of a device, or of a timer that charges no run time.
irq ==
    /\ interrupt
    /\ schedule(task_schedule, state, vrun_time)
    /\ UNCHANGED <<state, vrun_time, allocated, parent, next, wait_childexit,
                   exit_code, pc, local, status>>

\* The periodic interrupt of the jz2440.
tick_irq ==
    /\ TickAccounting /\ interrupt
    /\ vrun_time[current] < MaxVrun
    /\ task_schedule.CPU_exec_task_jiffies > -MaxOverrun
    /\ vrun_time' = [vrun_time EXCEPT ![current] = @ + 2]
    /\ schedule(tick_charge(task_schedule), state, vrun_time')
    /\ UNCHANGED <<state, allocated, parent, next, wait_childexit, exit_code,
                   pc, local, status>>

\* An interrupt between the four pointers of list_add_tail(): the ring of the
\* queue is broken for good.  The next take-off from it follows a pointer that
\* list_del() has cleared; the model goes no further than to this point.
irq_tears_link(t) ==
    /\ current = t /\ pc[t] = "link" /\ IrqEnabled
    /\ pc' = [pc EXCEPT ![t] = "torn"]
    /\ UNCHANGED <<schedVars, allocated, parent, next, wait_childexit, exit_code,
                   local, status, cut>>

Whole == \A t \in allocated : pc[t] # "torn"

Next ==
    /\ Whole
    /\ \/ \E t \in Tasks :
            \/ \E tsk \in Tasks : do_fork(t, tsk)
            \/ \E code \in ExitCodes : do_exit(t, code)
            \/ exit_notify(t)
            \/ exit_wakeup(t)
            \/ exit_link(t)
            \/ exit_count(t)
            \/ exit_schedule(t)
            \/ irq_tears_link(t)
            \/ \E child \in Tasks : sys_wait4(t, child)
            \/ wait4_copy(t)
            \/ wait4_reap(t)
       \/ irq
       \/ tick_irq

Spec == Init /\ [][Next]_vars

----------------------------------------------------------------------------
(* What fork, exit, wait4 and preemption must guarantee together.          *)

\* Every variable holds a value of its C type.
TypeOK ==
    /\ current \in AllTasks
    /\ task_schedule \in ScheduleType
    /\ state \in [AllTasks -> TaskStates]
    /\ vrun_time \in [AllTasks -> Nat]
    /\ allocated \subseteq Tasks
    /\ parent \in [AllTasks -> AllTasks]
    /\ next \in [AllTasks -> AllTasks]
    /\ wait_childexit \in [AllTasks -> Seq(Tasks)]
    /\ exit_code \in [Tasks -> Nat]
    /\ pc \in [Tasks -> Points]
    /\ local \in [Tasks -> [child : Tasks, tsk : AllTasks]]
    /\ status \in [Tasks -> Int]
    /\ cut \in Nat

\* The run queue is sorted by run time and holds each runnable task at most
\* once, never the one on the CPU and none that sleeps, has exited or is gone.
\* running_task_count, by which the time slice is divided, counts the queue and
\* the running task, less one for each exit that an interrupt ended between the
\* two lines of insert_task_queue() that link its parent and count it.
RunQueueOK ==
    /\ WellFormed(task_schedule, vrun_time, cut + Uncounted)
    /\ \A t \in Queued(task_schedule) :
        t # current /\ t \in allocated /\ state[t] = RUNNING

\* In insert_task_queue() before the link is whole.
Linking == {"link", "torn"}

\* The tasks that an exit has called runnable and has not put into the queue.
Unlinked == {local[z].tsk : z \in {u \in allocated : pc[u] \in Linking}}

\* Whatever is runnable is in exactly one place, in every interleaving of
\* wakeup(), schedule() and preemption: on the CPU, in the run queue, or with
\* the exit that is waking it.  A task is lost in no other way than with such
\* an exit that an interrupt takes the CPU from there: for ever, as that is
\* never resumed.
NoRunnableLost ==
    /\ \A t \in allocated : state[t] = RUNNING =>
        t = current \/ t \in Queued(task_schedule) \/ t \in Unlinked
    /\ \A t \in Unlinked : t \notin Queued(task_schedule) \cup {current}

\* No task_struct is used after its kfree(): not by the CPU, nor by a child
\* that will notify its parent, nor by a parent that will reap a child.
NoUseAfterFree ==
    /\ current \in allocated \cup {InitTask}
    /\ \A t \in allocated : /\ parent[t] \in allocated \cup {InitTask}
                            /\ pc[t] \in {"copy", "reap"} => local[t].child \in allocated

\* The task list, from the boot task back to it, is exactly the set of tasks
\* that exist, less one that is being reaped; and when the child of a sleeping
\* wait4 has exited, the predecessor found before the sleep precedes it again,
\* whatever has been pushed in between and taken off since.
TaskListOK ==
    /\ \E n \in DOMAIN walk : next[walk[n]] = InitTask
    /\ {t \in Tasks : \E n \in DOMAIN walk : /\ walk[n] = t
                                             /\ \A m \in 1 .. n : walk[m] # InitTask}
         = allocated \ {local[t].child : t \in {u \in allocated : pc[u] = "reap"}}
    /\ \A t \in allocated :
        pc[t] = "copy" /\ state[local[t].child] = ZOMBIE
            => next[local[t].tsk] = local[t].child

\* A wake-up is lost in one way only: a parent is still asleep while the child
\* it waits for has exited only if that child has not got through
\* exit_notify() yet.  (It never will once an interrupt takes the CPU from it
\* there: schedule() does not queue a zombie again.)
SleepsOnlyUntilNotified ==
    \A t \in allocated :
        state[t] = INTERRUPTIBLE /\ state[local[t].child] = ZOMBIE
            => pc[local[t].child] \in {"notify", "wake"}

\* A task_struct is freed only by its parent, and only after its task has
\* exited: wait4 reaps nothing that still runs.
ReapsOnlyZombies ==
    [][\A c \in allocated \ allocated' : state[c] = ZOMBIE /\ parent[c] = current]_vars

\* sys/wait.h: without WNOHANG a wait hangs while there is no status.  So a
\* child whose status it returns has exited.
WaitHangsUntilStatus ==
    [][\A t \in Tasks :
        pc[t] = "copy" /\ pc'[t] = "reap" /\ parent[local[t].child] = t
            => state[local[t].child] = ZOMBIE]_vars

\* errno.h: wait4 fails with ECHILD when there is no child process.  A block
\* that has been freed is the process of nobody, so no search may find it.
FindsOnlyProcesses ==
    \A child \in Tasks :
        (\E tsk \in AllTasks : Precedes(tsk, child)) => child \in allocated

-----------------------------------------------------------------------------
(* The refinement of Lifecycle.                                            *)

phase ==
    [t \in Tasks |->
        CASE t \notin allocated -> "absent"
          [] t \in allocated /\ state[t] = ZOMBIE -> "exited"
          [] t \in allocated /\ state[t] = INTERRUPTIBLE -> "waiting"
          [] t \in allocated /\ state[t] = RUNNING /\ pc[t] \in {"copy", "reap"} -> "woken"
          [] OTHER -> "ready"]

L == INSTANCE Lifecycle WITH running <- current

\* fork, exit and wait4 implement what Lifecycle promises.
ImplementsLifecycle == L!Spec

-----------------------------------------------------------------------------
(* Liveness, without interrupts in the exit path.                          *)

\* A task that gets the CPU again and again goes on with its system call: the
\* CPU executes instructions between two interrupts.  And interrupts keep
\* coming: the keeper timer and the tick re-arm themselves for ever.
Fairness ==
    /\ \A t \in Tasks : SF_vars(exit_notify(t) \/ exit_wakeup(t) \/ exit_link(t)
                                \/ exit_count(t) \/ exit_schedule(t)
                                \/ wait4_copy(t) \/ wait4_reap(t))
    /\ WF_vars(irq)

\* A parent that waits for a child gets it once the child has exited: the exit
\* wakes it, and it comes to run and reaps.
ExitedChildIsReaped ==
    \A t \in Tasks :
        (t \in allocated /\ pc[t] = "copy" /\ state[local[t].child] = ZOMBIE) ~> pc[t] = "user"
=============================================================================
