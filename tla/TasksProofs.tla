---------------------------- MODULE TasksProofs ----------------------------
(***************************************************************************)
(* For any number of blocks, exit codes and run times: what Tasks keeps    *)
(* true of programs that fork one child at a time and wait for it before   *)
(* they exit.  Under that discipline a sleeping parent has one child, the  *)
(* one it waits for, so no other exit can wake it.                         *)
(***************************************************************************)
EXTENDS Tasks, RunQueueProofs, SequenceTheorems

-----------------------------------------------------------------------------
(* The inductive invariant.                                                *)

\* The scheduler knows every runnable task; the boot task always is one, and
\* the task on the CPU has not gone to sleep.
SchedInv ==
    /\ RunQueueOK
    /\ NoRunnableLost
    /\ current \in allocated \cup {InitTask}
    /\ state[InitTask] = RUNNING
    /\ state[current] # INTERRUPTIBLE

\* A task has one child at most, and none once it has exited.
FamilyInv ==
    /\ \A c \in allocated :
        /\ parent[c] \in allocated \cup {InitTask}
        /\ parent[c] # c
        /\ state[parent[c]] # ZOMBIE
    /\ \A c, d \in allocated : parent[c] = parent[d] /\ parent[c] # InitTask => c = d

\* Where a task is in the kernel says what state it is in; one that waits does
\* so for its own child, which has exited by the time it runs again.
PhaseInv ==
    \A t \in allocated :
        /\ state[t] = ZOMBIE <=> pc[t] \in ExitPoints
        /\ state[t] = INTERRUPTIBLE => pc[t] = "copy"
        /\ pc[t] \in {"copy", "reap"} => local[t].child \in allocated /\ parent[local[t].child] = t
        /\ pc[t] \in {"copy", "reap"} /\ state[t] # INTERRUPTIBLE => state[local[t].child] = ZOMBIE

\* The points of do_exit() behind the state write of wakeup_process().
Told == Linking \cup {"count", "schedule"}

\* A task is on its own wait queue, alone, while it sleeps; its child takes it
\* off there just before it makes it runnable.
WaitInv ==
    /\ wait_childexit[InitTask] = <<>>
    /\ \A t \in allocated :
        wait_childexit[t] # <<>> => wait_childexit[t] = <<t>> /\ state[t] = INTERRUPTIBLE
    /\ \A t \in allocated :
        state[t] = INTERRUPTIBLE /\ wait_childexit[t] = <<>> => pc[local[t].child] = "wake"
    /\ \A z \in allocated :
        pc[z] = "wake" => /\ local[z].tsk = parent[z]
                          /\ state[parent[z]] = INTERRUPTIBLE
                          /\ wait_childexit[parent[z]] = <<>>
    /\ \A z \in allocated : pc[z] \in Told => state[parent[z]] # INTERRUPTIBLE

\* An exit that has called its parent runnable and not linked it yet: the
\* parent is behind its sleep, with no way to the CPU but this exit.
HandInv ==
    \A z \in allocated :
        pc[z] \in Linking => /\ local[z].tsk = parent[z]
                             /\ parent[z] \in allocated
                             /\ state[parent[z]] = RUNNING
                             /\ pc[parent[z]] = "copy"

IInv == TypeOK /\ SchedInv /\ FamilyInv /\ PhaseInv /\ WaitInv /\ HandInv

-----------------------------------------------------------------------------
(* What a step of the scheduler keeps.                                     *)

\* schedule(), called when the queue holds the runnable tasks but the caller,
\* leaves it so, gives the CPU to one that is runnable and loses none.
LEMMA Dispatched ==
    ASSUME NEW ts \in ScheduleType, NEW v \in [AllTasks -> Nat],
           NEW st \in [AllTasks -> TaskStates], NEW blocks \in SUBSET Tasks,
           NEW n \in Int, WellFormed(ts, v, n),
           current \in blocks \cup {InitTask}, current \notin Queued(ts),
           st[InitTask] = RUNNING,
           \A t \in Queued(ts) : t \in blocks /\ st[t] = RUNNING,
           schedule(ts, st, v)
    PROVE  /\ current' \in blocks \cup {InitTask}
           /\ task_schedule' \in ScheduleType
           /\ WellFormed(task_schedule', v, n)
           /\ \A t \in Queued(task_schedule') : t # current' /\ t \in blocks /\ st[t] = RUNNING
           /\ \A t \in Tasks : st[t] = RUNNING /\ t \in Queued(ts) \cup {current} =>
                t \in Queued(task_schedule') \cup {current'}
           /\ \A t \in Tasks : t \in Queued(task_schedule') \cup {current'} =>
                t \in Queued(ts) \cup {current}
           /\ st[current'] = RUNNING
<1>1. current \in AllTasks /\ v \in RunTimes
  BY DEF AllTasks, RunTimes
<1>2. /\ task_schedule' \in ScheduleType
      /\ WellFormed(task_schedule', v, n)
      /\ current' \notin Queued(task_schedule')
      /\ current' \in Queued(ts) \cup {InitTask}
           \/ (current' = current /\ st[current] = RUNNING)
      /\ Queued(task_schedule') \cup {current', InitTask}
           = Queued(ts) \cup {InitTask}
               \cup (IF st[current] = RUNNING THEN {current} ELSE {})
  BY <1>1, ScheduleKeeps
<1>3. current' \in blocks \cup {InitTask} /\ st[current'] = RUNNING
  BY <1>2
<1>4. \A t \in Queued(task_schedule') : t \in Tasks
  BY <1>2 DEF Queued, ScheduleType
<1>5. ASSUME NEW t \in Queued(task_schedule')
      PROVE  t # current' /\ t \in blocks /\ st[t] = RUNNING
  <2>1. t # InitTask
    BY <1>4, InitTaskAssumption
  <2>2. t \in Queued(ts) \/ (t = current /\ st[current] = RUNNING)
    BY <1>2, <2>1
  <2> QED
    BY <1>2, <2>1, <2>2
<1>6. ASSUME NEW t \in Tasks, st[t] = RUNNING, t \in Queued(ts) \cup {current}
      PROVE  t \in Queued(task_schedule') \cup {current'}
  <2>1. t # InitTask
    BY InitTaskAssumption
  <2>2. t \in Queued(ts) \cup (IF st[current] = RUNNING THEN {current} ELSE {})
    BY <1>6
  <2> QED
    BY <1>2, <2>1, <2>2
<1>7. ASSUME NEW t \in Tasks, t \in Queued(task_schedule') \cup {current'}
      PROVE  t \in Queued(ts) \cup {current}
  <2>1. t # InitTask
    BY InitTaskAssumption
  <2> QED
    BY <1>2, <1>7, <2>1
<1> QED
  BY <1>2, <1>3, <1>5, <1>6, <1>7


\* Making a task runnable that is not in the queue.
LEMMA Enqueued ==
    ASSUME NEW tsk \in Tasks, NEW v \in [AllTasks -> Nat], task_schedule \in ScheduleType,
           NEW n \in Int, WellFormed(task_schedule, v, n), tsk \notin Queued(task_schedule),
           task_schedule' = wakeup_process(task_schedule, v, tsk)
    PROVE  /\ task_schedule' \in ScheduleType
           /\ WellFormed(task_schedule', v, n)
           /\ Queued(task_schedule') = Queued(task_schedule) \cup {tsk}
<1>1. tsk \in AllTasks /\ tsk # InitTask /\ v \in RunTimes
  BY InitTaskAssumption DEF AllTasks, RunTimes
<1>2. task_schedule' = insert_task_queue(task_schedule, v, tsk)
  BY DEF wakeup_process
<1>3. /\ task_schedule' \in ScheduleType
      /\ WellFormed(task_schedule', v, n)
      /\ Queued(task_schedule') = Queued(task_schedule) \cup ({tsk} \ {InitTask})
  BY <1>1, <1>2, InsertTaskQueue
<1> QED
  BY <1>1, <1>3

\* Facts about the state before a step that every case needs.
LEMMA Basics ==
    ASSUME IInv
    PROVE  /\ current \in AllTasks /\ InitTask \in AllTasks /\ InitTask \notin Tasks
           /\ Tasks \subseteq AllTasks /\ allocated \subseteq Tasks
           /\ task_schedule \in ScheduleType
           /\ WellFormed(task_schedule, vrun_time, cut + Uncounted)
           /\ cut + Uncounted \in Int
           /\ \A t \in Queued(task_schedule) :
                t # current /\ t \in allocated /\ state[t] = RUNNING
           /\ \A t \in allocated : state[t] = RUNNING =>
                t = current \/ t \in Queued(task_schedule) \/ t \in Unlinked
           /\ \A t \in Unlinked : t # current /\ t \notin Queued(task_schedule)
           /\ current # InitTask => current \in allocated
<1>1. cut + Uncounted \in Int
  BY DEF IInv, TypeOK, Uncounted
<1> QED
  BY <1>1, InitTaskAssumption
     DEF IInv, TypeOK, AllTasks, SchedInv, RunQueueOK, NoRunnableLost

LEMMA UnlinkedAllocated ==
    ASSUME IInv
    PROVE  Unlinked \subseteq allocated
<1> SUFFICES ASSUME NEW z \in allocated, pc[z] \in Linking
             PROVE  local[z].tsk \in allocated
  BY DEF Unlinked
<1> QED
  BY DEF IInv, HandInv

\* A parent that an exit has not linked yet is neither queued nor on the CPU.
LEMMA UnlinkedParent ==
    ASSUME IInv, NEW z \in allocated, pc[z] \in Linking
    PROVE  /\ parent[z] \in Unlinked /\ parent[z] \in allocated /\ parent[z] # current
           /\ parent[z] \notin Queued(task_schedule)
<1>1. local[z].tsk = parent[z] /\ parent[z] \in allocated
  BY DEF IInv, HandInv
<1>2. parent[z] \in Unlinked
  BY <1>1 DEF Unlinked
<1> QED
  BY <1>1, <1>2, Basics

\* A step that leaves those exits, and the tasks behind a sleep that are not on
\* the CPU, where they are.
LEMMA HandStays ==
    ASSUME IInv,
           \A z \in allocated' : pc'[z] \in Linking =>
                /\ z \in allocated /\ pc[z] \in Linking
                /\ local'[z].tsk = local[z].tsk /\ parent'[z] = parent[z],
           \A z \in allocated : pc[z] \in Linking => z \in allocated' /\ pc'[z] \in Linking,
           \A u \in allocated : state[u] = RUNNING /\ pc[u] = "copy" /\ u # current =>
                u \in allocated' /\ state'[u] = RUNNING /\ pc'[u] = "copy"
    PROVE  HandInv' /\ Unlinked' = Unlinked
<1>1. Unlinked' = Unlinked
  BY DEF Unlinked
<1>2. ASSUME NEW z \in allocated', pc'[z] \in Linking
      PROVE  /\ local'[z].tsk = parent'[z]
             /\ parent'[z] \in allocated'
             /\ state'[parent'[z]] = RUNNING
             /\ pc'[parent'[z]] = "copy"
  <2>1. /\ z \in allocated /\ pc[z] \in Linking
        /\ local'[z].tsk = local[z].tsk /\ parent'[z] = parent[z]
    BY <1>2
  <2>2. /\ local[z].tsk = parent[z] /\ parent[z] \in allocated
        /\ state[parent[z]] = RUNNING /\ pc[parent[z]] = "copy"
    BY <2>1 DEF IInv, HandInv
  <2>3. parent[z] # current
    BY <2>1, UnlinkedParent
  <2> QED
    BY <2>1, <2>2, <2>3
<1>3. HandInv'
  BY <1>2 DEF HandInv, Linking
<1> QED
  BY <1>1, <1>3

\* A step that leaves the CPU where it is, neither before a count nor behind it.
LEMMA CountStays ==
    ASSUME IInv, current' = current, cut' = cut,
           current # InitTask => (pc'[current] = "count" <=> pc[current] = "count")
    PROVE  cut' + Uncounted' = cut + Uncounted
  BY DEF Uncounted

\* An interrupt, and the schedule() that ends do_exit(), only move the CPU.
LEMMA DispatchIInv ==
    ASSUME IInv, NEW ts \in ScheduleType, NEW v \in [AllTasks -> Nat],
           ts.task_queue = task_schedule.task_queue,
           ts.running_task_count = task_schedule.running_task_count,
           \A t \in AllTasks \ {current} : v[t] = vrun_time[t],
           schedule(ts, state, v), vrun_time' = v, cut' = cut + Uncounted,
           UNCHANGED <<state, allocated, parent, next, wait_childexit, exit_code,
                       pc, local, status>>
    PROVE  IInv' /\ state[current'] = RUNNING
<1>1. PICK n \in Int : n = cut + Uncounted
  BY Basics
<1>2. WellFormed(ts, v, n) /\ Queued(ts) = Queued(task_schedule)
  <2>1. \A u \in Queued(task_schedule) : v[u] = vrun_time[u]
    BY Basics
  <2> QED
    BY <1>1, <2>1, Basics, WellFormedOnQueued
<1>3. state \in [AllTasks -> TaskStates] /\ state[InitTask] = RUNNING
  BY DEF IInv, TypeOK, SchedInv
<1>4. PICK lost \in SUBSET Tasks : lost = Unlinked
  <2>1. Unlinked \subseteq Tasks
    BY UnlinkedAllocated, Basics
  <2> QED
    BY <2>1
<1>d. /\ current' \in allocated \cup {InitTask}
      /\ task_schedule' \in ScheduleType
      /\ WellFormed(task_schedule', v, n)
      /\ \A t \in Queued(task_schedule') : t # current' /\ t \in allocated /\ state[t] = RUNNING
      /\ \A t \in Tasks : state[t] = RUNNING /\ t \in Queued(ts) \cup {current} =>
            t \in Queued(task_schedule') \cup {current'}
      /\ \A t \in Tasks : t \in Queued(task_schedule') \cup {current'} =>
            t \in Queued(ts) \cup {current}
      /\ state[current'] = RUNNING
  <2>1. allocated \in SUBSET Tasks /\ current \in allocated \cup {InitTask}
    BY Basics
  <2>2. \A t \in Queued(ts) : t # current /\ t \in allocated /\ state[t] = RUNNING
    BY <1>2, Basics
  <2> QED
    BY <1>2, <1>3, <2>1, <2>2, Dispatched
<1>5. /\ current' \in allocated \cup {InitTask}
      /\ task_schedule' \in ScheduleType
      /\ WellFormed(task_schedule', v, n)
      /\ \A t \in Queued(task_schedule') : t # current' /\ t \in allocated /\ state[t] = RUNNING
      /\ \A t \in allocated :
            state[t] = RUNNING => t = current' \/ t \in Queued(task_schedule') \/ t \in lost
      /\ \A t \in lost : t # current' /\ t \notin Queued(task_schedule')
      /\ state[current'] = RUNNING
  BY <1>2, <1>4, <1>d, Basics
<1>6. HandInv' /\ Unlinked' = lost
  <2>1. /\ allocated' = allocated /\ pc' = pc /\ local' = local
        /\ parent' = parent /\ state' = state
    OBVIOUS
  <2>2. HandInv' /\ Unlinked' = Unlinked
    BY <2>1 DEF IInv, HandInv, Unlinked
  <2> QED
    BY <1>4, <2>2
<1>7. cut' + Uncounted' = n /\ cut' \in Nat
  <2>1. current' # InitTask => pc[current'] # "count"
    BY <1>5 DEF IInv, PhaseInv, ExitPoints, RUNNING, ZOMBIE
  <2>2. Uncounted' = 0
    BY <2>1 DEF Uncounted
  <2>3. Uncounted \in Nat /\ cut \in Nat
    BY DEF Uncounted, IInv, TypeOK
  <2> QED
    BY <1>1, <2>2, <2>3
<1>8. TypeOK'
  BY <1>5, <1>7, Basics DEF IInv, TypeOK
<1>9. SchedInv'
  <2>1. RunQueueOK'
    BY <1>5, <1>7 DEF RunQueueOK, WellFormed, Queued
  <2>2. NoRunnableLost'
    BY <1>5, <1>6 DEF NoRunnableLost, Queued
  <2> QED
    BY <1>3, <1>5, <2>1, <2>2 DEF SchedInv, RUNNING, INTERRUPTIBLE
<1>10. FamilyInv' /\ PhaseInv' /\ WaitInv'
  BY DEF IInv, FamilyInv, PhaseInv, WaitInv, Told, Linking
<1> QED
  BY <1>5, <1>6, <1>8, <1>9, <1>10 DEF IInv

\* A task that is on the CPU outside the kernel is runnable.
LEMMA UserIsRunning ==
    ASSUME IInv, NEW t \in Tasks, current = t, pc[t] = "user"
    PROVE  t \in allocated /\ state[t] = RUNNING
<1>1. t \in allocated
  BY Basics
<1>2. state[t] \in {RUNNING, INTERRUPTIBLE, ZOMBIE}
  BY Basics DEF IInv, TypeOK, TaskStates
<1>3. state[t] # ZOMBIE
  BY <1>1 DEF IInv, PhaseInv, ExitPoints
<1>4. state[t] # INTERRUPTIBLE
  BY DEF IInv, SchedInv
<1> QED
  BY <1>1, <1>2, <1>3, <1>4

-----------------------------------------------------------------------------
(* One lemma for each of the other actions.                                *)

LEMMA ForkIInv ==
    ASSUME IInv, Sequential, NEW t \in Tasks, NEW tsk \in Tasks, do_fork(t, tsk)
    PROVE  IInv'
<1>1. /\ current = t /\ pc[t] = "user" /\ t \in allocated /\ tsk \notin allocated
      /\ \A c \in allocated : parent[c] # t
  BY Basics DEF do_fork, InUser, Children
<1>2. state[t] = RUNNING
  BY <1>1, UserIsRunning
<1>3. /\ allocated' = allocated \cup {tsk}
      /\ parent' = [parent EXCEPT ![tsk] = t]
      /\ next' = [next EXCEPT ![tsk] = next[InitTask], ![InitTask] = tsk]
      /\ wait_childexit' = [wait_childexit EXCEPT ![tsk] = <<>>]
      /\ exit_code' = [exit_code EXCEPT ![tsk] = exit_code[t]]
      /\ vrun_time' = [vrun_time EXCEPT ![tsk] = vrun_time[t]]
      /\ state' = [state EXCEPT ![tsk] = RUNNING]
      /\ pc' = [pc EXCEPT ![tsk] = "user"]
      /\ task_schedule' = wakeup_process(task_schedule, vrun_time', tsk)
      /\ UNCHANGED <<current, local, status, cut>>
  BY DEF do_fork, link_task
<1>n. PICK n \in Int : n = cut + Uncounted
  BY Basics
<1>4. /\ task_schedule' \in ScheduleType
      /\ WellFormed(task_schedule', vrun_time', n)
      /\ Queued(task_schedule') = Queued(task_schedule) \cup {tsk}
  <2>1. PICK v : v = vrun_time'
    OBVIOUS
  <2>2. v \in [AllTasks -> Nat] /\ \A u \in AllTasks \ {tsk} : v[u] = vrun_time[u]
    BY <1>3, <2>1, Basics DEF IInv, TypeOK
  <2>3. tsk \notin Queued(task_schedule) /\ Queued(task_schedule) \subseteq AllTasks \ {tsk}
    BY <1>1, Basics
  <2>4. WellFormed(task_schedule, v, n)
    BY <1>n, <2>2, <2>3, Basics, WellFormedOnQueued
  <2>5. task_schedule' = wakeup_process(task_schedule, v, tsk)
    BY <1>3, <2>1
  <2> QED
    BY <2>1, <2>2, <2>3, <2>4, <2>5, Basics, Enqueued
<1>5. TypeOK'
  <2>1. current' \in AllTasks /\ task_schedule' \in ScheduleType
    BY <1>3, <1>4, Basics
  <2>2. state' \in [AllTasks -> TaskStates] /\ vrun_time' \in [AllTasks -> Nat]
    BY <1>3, Basics DEF IInv, TypeOK, TaskStates
  <2>3. parent' \in [AllTasks -> AllTasks] /\ next' \in [AllTasks -> AllTasks]
    BY <1>3, Basics DEF IInv, TypeOK
  <2>4. wait_childexit' \in [AllTasks -> Seq(Tasks)]
    <3>1. wait_childexit \in [AllTasks -> Seq(Tasks)] /\ <<>> \in Seq(Tasks)
      BY DEF IInv, TypeOK
    <3> QED
      BY <1>3, <3>1, Zenon
  <2>5. /\ allocated' \subseteq Tasks /\ exit_code' \in [Tasks -> Nat]
        /\ pc' \in [Tasks -> Points] /\ local' \in [Tasks -> [child : Tasks, tsk : AllTasks]]
        /\ status' \in [Tasks -> Int] /\ cut' \in Nat
    BY <1>3, Basics DEF IInv, TypeOK, Points
  <2> QED
    BY <2>1, <2>2, <2>3, <2>4, <2>5 DEF TypeOK
<1>6. \A u \in AllTasks \ {tsk} : /\ state'[u] = state[u] /\ parent'[u] = parent[u]
                                  /\ wait_childexit'[u] = wait_childexit[u]
  BY <1>3, Basics DEF IInv, TypeOK
<1>7. \A u \in Tasks \ {tsk} : pc'[u] = pc[u]
  BY <1>3 DEF IInv, TypeOK
<1>8. /\ state'[tsk] = RUNNING /\ parent'[tsk] = t
      /\ wait_childexit'[tsk] = <<>> /\ pc'[tsk] = "user"
  BY <1>3, Basics DEF IInv, TypeOK
<1>9. \A c \in allocated : c # tsk /\ parent[c] # tsk
                            /\ parent[c] \in allocated \cup {InitTask} /\ parent[c] \in AllTasks
  BY <1>1, Basics DEF IInv, FamilyInv
<1>h. HandInv' /\ Unlinked' = Unlinked
  <2>1. \A z \in allocated' : pc'[z] \in Linking => z # tsk
    BY <1>8 DEF Linking
  <2>2. \A z \in allocated : pc'[z] = pc[z] /\ parent'[z] = parent[z]
    BY <1>6, <1>7, <1>9, Basics
  <2> QED
    BY <1>3, <1>6, <1>9, <2>1, <2>2, Basics, HandStays
<1>10. SchedInv'
  <2>1. \A u \in Queued(task_schedule') : u # current' /\ u \in allocated' /\ state'[u] = RUNNING
    BY <1>1, <1>3, <1>4, <1>6, <1>8, Basics
  <2>2. \A u \in allocated' : state'[u] = RUNNING => 
        u = current' \/ u \in Queued(task_schedule') \/ u \in Unlinked
    BY <1>1, <1>3, <1>4, <1>6, <1>8, Basics
  <2>3. state'[InitTask] = RUNNING /\ state'[current'] = RUNNING
    BY <1>1, <1>2, <1>3, <1>6, Basics DEF IInv, SchedInv
  <2>4. \A u \in Unlinked : u # current' /\ u \notin Queued(task_schedule')
    BY <1>1, <1>3, <1>4, UnlinkedAllocated, Basics
  <2>5. cut' + Uncounted' = n
    BY <1>1, <1>3, <1>n, <1>7, CountStays
  <2> QED
    BY <1>1, <1>3, <1>4, <1>h, <2>1, <2>2, <2>3, <2>4, <2>5
       DEF SchedInv, RunQueueOK, NoRunnableLost, WellFormed, Queued, RUNNING, INTERRUPTIBLE
<1>11. FamilyInv'
  <2>1. \A c \in allocated' : /\ parent'[c] \in allocated' \cup {InitTask}
                              /\ parent'[c] # c
                              /\ state'[parent'[c]] # ZOMBIE
    BY <1>1, <1>2, <1>3, <1>6, <1>8, <1>9, Basics DEF IInv, FamilyInv, RUNNING, ZOMBIE
  <2>2. \A c, d \in allocated' : parent'[c] = parent'[d] /\ parent'[c] # InitTask => c = d
    BY <1>1, <1>3, <1>6, <1>8, <1>9, Basics DEF IInv, FamilyInv
  <2> QED
    BY <2>1, <2>2 DEF FamilyInv
<1>12. PhaseInv'
  <2>1. ASSUME NEW u \in allocated
        PROVE  local[u].child \in allocated => /\ local[u].child # tsk
                                               /\ local[u].child \in AllTasks
    BY <1>1, Basics
  <2> QED
    BY <1>1, <1>3, <1>6, <1>7, <1>8, <2>1, Basics
       DEF IInv, PhaseInv, ExitPoints, RUNNING, ZOMBIE, INTERRUPTIBLE
<1>13. WaitInv'
  <2>1. wait_childexit'[InitTask] = <<>>
    BY <1>6, Basics DEF IInv, WaitInv
  <2>2. \A u \in allocated' : wait_childexit'[u] # <<>> =>
            wait_childexit'[u] = <<u>> /\ state'[u] = INTERRUPTIBLE
    BY <1>1, <1>3, <1>6, <1>8, Basics DEF IInv, WaitInv
  <2>3. ASSUME NEW u \in allocated', state'[u] = INTERRUPTIBLE, wait_childexit'[u] = <<>>
        PROVE  pc'[local'[u].child] = "wake"
    <3>1. u \in allocated /\ state[u] = INTERRUPTIBLE /\ wait_childexit[u] = <<>>
      BY <1>1, <1>3, <1>6, <1>8, <2>3, Basics DEF RUNNING, INTERRUPTIBLE
    <3>2. pc[local[u].child] = "wake" /\ local[u].child \in allocated
      BY <3>1 DEF IInv, WaitInv, PhaseInv
    <3> QED
      BY <1>1, <1>3, <1>7, <3>2, Basics
  <2>4. \A z \in allocated' : pc'[z] = "wake" => /\ local'[z].tsk = parent'[z]
                                                 /\ state'[parent'[z]] = INTERRUPTIBLE
                                                 /\ wait_childexit'[parent'[z]] = <<>>
    BY <1>1, <1>3, <1>6, <1>7, <1>8, <1>9, Basics DEF IInv, WaitInv
  <2>5. \A z \in allocated' : pc'[z] \in Told => state'[parent'[z]] # INTERRUPTIBLE
    BY <1>1, <1>3, <1>6, <1>7, <1>8, <1>9, Basics DEF IInv, WaitInv, Told, Linking
  <2> QED
    BY <2>1, <2>2, <2>3, <2>4, <2>5 DEF WaitInv
<1> QED
  BY <1>5, <1>h, <1>10, <1>11, <1>12, <1>13 DEF IInv

LEMMA ExitIInv ==
    ASSUME IInv, Sequential, NEW t \in Tasks, NEW code \in ExitCodes, do_exit(t, code)
    PROVE  IInv'
<1>1. /\ current = t /\ pc[t] = "user" /\ t \in allocated
      /\ \A c \in allocated : parent[c] # t
  BY Basics DEF do_exit, InUser, Children
<1>2. /\ state' = [state EXCEPT ![t] = ZOMBIE]
      /\ exit_code' = [exit_code EXCEPT ![t] = code]
      /\ pc' = [pc EXCEPT ![t] = "notify"]
      /\ UNCHANGED <<current, task_schedule, vrun_time, allocated, parent, next,
                     wait_childexit, local, status, cut>>
  BY DEF do_exit
<1>3. state[t] = RUNNING
  BY <1>1, UserIsRunning
<1>4. TypeOK'
  BY <1>2, ExitCodesAssumption DEF IInv, TypeOK, Points, ExitPoints, Linking, TaskStates
<1>5. \A u \in AllTasks \ {t} : state'[u] = state[u]
  BY <1>2 DEF IInv, TypeOK
<1>6. \A u \in Tasks \ {t} : pc'[u] = pc[u]
  BY <1>2 DEF IInv, TypeOK
<1>7. state'[t] = ZOMBIE /\ pc'[t] = "notify"
  BY <1>2, Basics DEF IInv, TypeOK
<1>8. \A c \in allocated : parent[c] \in AllTasks \ {t}
  BY <1>1, Basics DEF IInv, FamilyInv
<1>h. HandInv' /\ Unlinked' = Unlinked
  <2>1. \A z \in allocated : pc'[z] \in Linking <=> pc[z] \in Linking
    BY <1>1, <1>6, <1>7, Basics DEF Linking
  <2> QED
    BY <1>1, <1>2, <1>5, <1>6, <2>1, Basics, HandStays
<1>9. SchedInv'
  <2>1. \A u \in Queued(task_schedule) : u # current /\ u \in allocated /\ state'[u] = RUNNING
    BY <1>1, <1>5, Basics
  <2>2. \A u \in allocated : state'[u] = RUNNING => 
        u = current \/ u \in Queued(task_schedule) \/ u \in Unlinked
    BY <1>1, <1>5, Basics
  <2>3. state'[InitTask] = RUNNING /\ state'[current] # INTERRUPTIBLE
    BY <1>1, <1>5, <1>7, Basics DEF IInv, SchedInv, ZOMBIE, INTERRUPTIBLE
  <2>4. PICK n \in Int : n = cut + Uncounted /\ WellFormed(task_schedule, vrun_time, n)
    BY Basics
  <2>5. cut' + Uncounted' = n
    BY <1>1, <1>2, <1>7, <2>4, CountStays
  <2>6. \A u \in Unlinked : u # current /\ u \notin Queued(task_schedule)
    BY Basics
  <2> QED
    BY <1>1, <1>2, <1>h, <2>1, <2>2, <2>3, <2>4, <2>5, <2>6
       DEF SchedInv, RunQueueOK, NoRunnableLost, WellFormed, Queued
<1>10. FamilyInv'
  BY <1>1, <1>2, <1>5, <1>8, Basics DEF IInv, FamilyInv
<1>11. PhaseInv'
  BY <1>1, <1>2, <1>5, <1>6, <1>7, Basics
     DEF IInv, PhaseInv, ExitPoints, ZOMBIE, INTERRUPTIBLE
<1>12. WaitInv'
  <2>1. \A u \in allocated : wait_childexit[u] # <<>> =>
            wait_childexit[u] = <<u>> /\ state'[u] = INTERRUPTIBLE
    BY <1>1, <1>3, <1>5, Basics DEF IInv, WaitInv, RUNNING, INTERRUPTIBLE
  <2>2. ASSUME NEW u \in allocated, state'[u] = INTERRUPTIBLE, wait_childexit[u] = <<>>
        PROVE  pc'[local[u].child] = "wake"
    <3>1. u # t /\ state[u] = INTERRUPTIBLE
      BY <1>5, <1>7, <2>2, Basics DEF ZOMBIE, INTERRUPTIBLE
    <3>2. pc[local[u].child] = "wake" /\ local[u].child \in allocated
      BY <2>2, <3>1 DEF IInv, WaitInv, PhaseInv
    <3> QED
      BY <1>1, <1>6, <3>2, Basics
  <2> QED
    BY <1>1, <1>2, <1>5, <1>6, <1>7, <1>8, <2>1, <2>2, Basics DEF IInv, WaitInv, Told, Linking
<1> QED
  BY <1>4, <1>h, <1>9, <1>10, <1>11, <1>12 DEF IInv

\* A task whose parent sleeps is the one the parent waits for.
LEMMA ChildOfSleeper ==
    ASSUME IInv, NEW z \in allocated, state[parent[z]] = INTERRUPTIBLE
    PROVE  /\ parent[z] \in allocated
           /\ pc[parent[z]] = "copy"
           /\ local[parent[z]].child = z
<1>1. parent[z] \in allocated /\ parent[z] # InitTask
  BY Basics DEF IInv, FamilyInv, SchedInv, RUNNING, INTERRUPTIBLE
<1>2. pc[parent[z]] = "copy"
  BY <1>1 DEF IInv, PhaseInv
<1>3. /\ local[parent[z]].child \in allocated
      /\ parent[local[parent[z]].child] = parent[z]
  BY <1>1, <1>2 DEF IInv, PhaseInv
<1>4. local[parent[z]].child = z
  BY <1>1, <1>3 DEF IInv, FamilyInv
<1> QED
  BY <1>1, <1>2, <1>4

LEMMA NotifyIInv ==
    ASSUME IInv, NEW t \in Tasks, exit_notify(t)
    PROVE  IInv'
<1> DEFINE p == parent[t]
<1> DEFINE wakes == wait_childexit[p] # <<>> /\ state[Head(wait_childexit[p])] = INTERRUPTIBLE
<1>1. /\ current = t /\ pc[t] = "notify" /\ t \in allocated
      /\ p \in allocated \cup {InitTask} /\ p \in AllTasks
  BY Basics DEF exit_notify, IInv, FamilyInv
<1>2. /\ UNCHANGED <<current, task_schedule, state, vrun_time>>
      /\ UNCHANGED <<allocated, parent, next, exit_code, status, cut>>
  BY DEF exit_notify, schedVars
<1>3. state[t] = ZOMBIE
  BY <1>1 DEF IInv, PhaseInv, ExitPoints
<1>p. pc' \in [Tasks -> Points] /\ pc'[t] \in {"wake", "schedule"}
      /\ \A u \in Tasks \ {t} : pc'[u] = pc[u] /\ local'[u] = local[u]
  BY DEF exit_notify, IInv, TypeOK, Points, ExitPoints
<1>h. HandInv' /\ Unlinked' = Unlinked
  <2>1. \A z \in allocated : pc'[z] \in Linking <=> z # t /\ pc[z] \in Linking
    BY <1>1, <1>p, Basics DEF Linking
  <2>2. \A z \in allocated : pc[z] \in Linking => local'[z] = local[z]
    BY <1>1, <1>p, Basics DEF Linking
  <2>3. \A z \in allocated : pc[z] \in Linking => z # t
    BY <1>1 DEF Linking
  <2>4. \A u \in allocated : u # current => pc'[u] = pc[u]
    BY <1>1, <1>p, Basics
  <2> QED
    BY <1>2, <2>1, <2>2, <2>3, <2>4, HandStays
<1>4. SchedInv' /\ FamilyInv'
  <2>1. SchedInv /\ FamilyInv
    BY DEF IInv
  <2>2. PICK n \in Int : n = cut + Uncounted
    BY Basics
  <2>3. cut' + Uncounted' = n
    BY <1>1, <1>2, <1>p, <2>2, CountStays
  <2> QED
    BY <1>2, <1>h, <2>1, <2>2, <2>3
       DEF SchedInv, FamilyInv, RunQueueOK, NoRunnableLost, WellFormed, Queued
<1>5. CASE wakes
  <2>1. /\ wait_childexit' = [wait_childexit EXCEPT ![p] = Tail(wait_childexit[p])]
        /\ local' = [local EXCEPT ![t].tsk = Head(wait_childexit[p])]
        /\ pc' = [pc EXCEPT ![t] = "wake"]
    BY <1>5 DEF exit_notify, exit_queue
  <2>2. /\ p \in allocated /\ p # InitTask
        /\ wait_childexit[p] = <<p>> /\ state[p] = INTERRUPTIBLE
    BY <1>1, <1>5 DEF IInv, WaitInv
  <2>3. Tail(wait_childexit[p]) = <<>> /\ Head(wait_childexit[p]) = p
    BY <2>2
  <2>4. p # t /\ p \in Tasks
    BY <1>3, <2>2, Basics DEF ZOMBIE, INTERRUPTIBLE
  <2>5. wait_childexit' \in [AllTasks -> Seq(Tasks)]
    <3>1. wait_childexit \in [AllTasks -> Seq(Tasks)] /\ <<>> \in Seq(Tasks)
      BY DEF IInv, TypeOK
    <3> QED
      BY <2>1, <2>3, <3>1, Zenon
  <2>6. local' \in [Tasks -> [child : Tasks, tsk : AllTasks]]
    <3>1. local[t] \in [child : Tasks, tsk : AllTasks]
      BY DEF IInv, TypeOK
    <3>2. [local[t] EXCEPT !.tsk = p] \in [child : Tasks, tsk : AllTasks]
      BY <1>1, <3>1
    <3>3. local' = [local EXCEPT ![t] = [local[t] EXCEPT !.tsk = p]]
      BY <2>1, <2>3
    <3> QED
      BY <3>2, <3>3 DEF IInv, TypeOK
  <2>7. pc' \in [Tasks -> Points]
    BY <2>1 DEF IInv, TypeOK, Points, ExitPoints
  <2>8. TypeOK'
    BY <1>2, <2>5, <2>6, <2>7 DEF IInv, TypeOK
  <2>9. /\ \A u \in AllTasks \ {p} : wait_childexit'[u] = wait_childexit[u]
        /\ wait_childexit'[p] = <<>>
    BY <1>1, <2>1, <2>3 DEF IInv, TypeOK
  <2>10. /\ \A u \in Tasks \ {t} : local'[u] = local[u] /\ pc'[u] = pc[u]
         /\ local'[t].tsk = p /\ local'[t].child = local[t].child
         /\ pc'[t] = "wake"
    BY <2>1, <2>3 DEF IInv, TypeOK
  <2>11. PhaseInv'
    BY <1>1, <1>2, <2>10, Basics DEF IInv, PhaseInv, ExitPoints
  <2>12. WaitInv'
    <3>1. wait_childexit'[InitTask] = <<>>
      BY <2>2, <2>9, Basics DEF IInv, WaitInv
    <3>2. \A u \in allocated : wait_childexit'[u] # <<>> =>
              wait_childexit'[u] = <<u>> /\ state[u] = INTERRUPTIBLE
      BY <2>9, Basics DEF IInv, WaitInv
    <3>3. ASSUME NEW u \in allocated, state[u] = INTERRUPTIBLE, wait_childexit'[u] = <<>>
          PROVE  pc'[local'[u].child] = "wake"
      <4>1. CASE u = p
        <5>1. local[p].child = t
          BY <1>1, <2>2, ChildOfSleeper
        <5> QED
          BY <2>4, <2>10, <4>1, <5>1
      <4>2. CASE u # p
        <5>1. u # t
          BY <1>3, <3>3 DEF ZOMBIE, INTERRUPTIBLE
        <5>2. pc[local[u].child] = "wake" /\ local[u].child \in allocated
          BY <2>9, <3>3, <4>2, Basics DEF IInv, WaitInv, PhaseInv
        <5> QED
          BY <1>1, <2>10, <5>1, <5>2, Basics
      <4> QED
        BY <4>1, <4>2
    <3>4. ASSUME NEW z \in allocated, pc'[z] = "wake"
          PROVE  /\ local'[z].tsk = parent[z]
                 /\ state[parent[z]] = INTERRUPTIBLE
                 /\ wait_childexit'[parent[z]] = <<>>
      <4>1. CASE z = t
        BY <2>2, <2>9, <2>10, <4>1
      <4>2. CASE z # t
        <5>1. pc[z] = "wake" /\ local'[z] = local[z]
          BY <2>10, <3>4, <4>2, Basics
        <5>2. parent[z] \in AllTasks
          BY Basics DEF IInv, FamilyInv
        <5> QED
          BY <2>9, <5>1, <5>2 DEF IInv, WaitInv
      <4> QED
        BY <4>1, <4>2
    <3>5. \A z \in allocated : pc'[z] \in Told => state[parent[z]] # INTERRUPTIBLE
      BY <2>10, Basics DEF IInv, WaitInv, Told, Linking
    <3> QED
      BY <1>2, <3>1, <3>2, <3>3, <3>4, <3>5 DEF WaitInv
  <2> QED
    BY <1>4, <1>h, <2>8, <2>11, <2>12 DEF IInv
<1>6. CASE ~wakes
  <2>1. pc' = [pc EXCEPT ![t] = "schedule"] /\ UNCHANGED <<wait_childexit, local>>
    BY <1>6 DEF exit_notify, exit_queue
  <2>2. /\ \A u \in Tasks \ {t} : pc'[u] = pc[u]
        /\ pc'[t] = "schedule"
    BY <2>1 DEF IInv, TypeOK
  <2>3. TypeOK'
    BY <1>2, <2>1 DEF IInv, TypeOK, Points, ExitPoints
  <2>4. PhaseInv'
    BY <1>1, <1>2, <2>1, <2>2, Basics DEF IInv, PhaseInv, ExitPoints
  <2>5. state[p] # INTERRUPTIBLE
    <3>1. SUFFICES ASSUME state[p] = INTERRUPTIBLE PROVE FALSE
      OBVIOUS
    <3>2. p \in allocated /\ local[p].child = t
      BY <1>1, <3>1, ChildOfSleeper
    <3>3. wait_childexit[p] # <<>>
      BY <1>1, <3>1, <3>2 DEF IInv, WaitInv
    <3>4. wait_childexit[p] = <<p>>
      BY <3>2, <3>3 DEF IInv, WaitInv
    <3>5. Head(wait_childexit[p]) = p
      BY <3>4
    <3> QED
      BY <1>6, <3>1, <3>3, <3>5
  <2>6. WaitInv'
    <3>1. ASSUME NEW u \in allocated, state[u] = INTERRUPTIBLE, wait_childexit[u] = <<>>
          PROVE  pc'[local[u].child] = "wake"
      <4>1. pc[local[u].child] = "wake" /\ local[u].child \in allocated
        BY <3>1 DEF IInv, WaitInv, PhaseInv
      <4> QED
        BY <1>1, <2>2, <4>1, Basics
    <3>2. \A z \in allocated : pc'[z] \in Told => state[parent[z]] # INTERRUPTIBLE
      BY <2>2, <2>5, Basics DEF IInv, WaitInv, Told, Linking
    <3>3. \A z \in allocated : pc'[z] = "wake" => pc[z] = "wake"
      BY <2>2, Basics
    <3> QED
      BY <1>2, <2>1, <3>1, <3>2, <3>3 DEF IInv, WaitInv
  <2> QED
    BY <1>4, <1>h, <2>3, <2>4, <2>6 DEF IInv
<1> QED
  BY <1>5, <1>6

LEMMA WakeupIInv ==
    ASSUME IInv, NEW t \in Tasks, exit_wakeup(t)
    PROVE  IInv'
<1> DEFINE p == parent[t]
<1>1. current = t /\ pc[t] = "wake" /\ t \in allocated /\ local[t].tsk = p
      /\ state[p] = INTERRUPTIBLE /\ wait_childexit[p] = <<>> /\ state[t] = ZOMBIE
  <2>1. current = t /\ pc[t] = "wake" /\ t \in allocated
    BY Basics DEF exit_wakeup
  <2> QED
    BY <2>1 DEF IInv, WaitInv, PhaseInv, ExitPoints
<1>2. p \in allocated /\ pc[p] = "copy" /\ local[p].child = t
  BY <1>1, ChildOfSleeper
<1>3. p \in Tasks /\ p \in AllTasks /\ p # InitTask /\ p # t
  BY <1>1, <1>2, Basics DEF ZOMBIE, INTERRUPTIBLE
<1>4. /\ state' = [state EXCEPT ![p] = RUNNING]
      /\ pc' = [pc EXCEPT ![t] = "link"]
      /\ UNCHANGED <<current, task_schedule, vrun_time, allocated, parent, next,
                     wait_childexit, exit_code, local, status, cut>>
  BY <1>1 DEF exit_wakeup
<1>5. p \notin Queued(task_schedule)
  BY <1>1, Basics DEF RUNNING, INTERRUPTIBLE
<1>6. TypeOK'
  <2>1. state' \in [AllTasks -> TaskStates] /\ pc' \in [Tasks -> Points]
    BY <1>4 DEF IInv, TypeOK, TaskStates, Points, ExitPoints
  <2> QED
    BY <1>4, <2>1 DEF IInv, TypeOK
<1>7. /\ \A u \in AllTasks \ {p} : state'[u] = state[u]
      /\ state'[p] = RUNNING
      /\ \A u \in Tasks \ {t} : pc'[u] = pc[u]
      /\ pc'[t] = "link"
  BY <1>3, <1>4 DEF IInv, TypeOK
<1>u. Unlinked' = Unlinked \cup {p}
  <2>1. {u \in allocated : pc'[u] \in Linking} = {u \in allocated : pc[u] \in Linking} \cup {t}
    BY <1>1, <1>7, Basics DEF Linking
  <2> QED
    BY <1>1, <1>4, <2>1 DEF Unlinked
<1>h. HandInv'
  <2>1. ASSUME NEW z \in allocated, pc'[z] \in Linking
        PROVE  /\ local[z].tsk = parent[z] /\ parent[z] \in allocated
               /\ state'[parent[z]] = RUNNING /\ pc'[parent[z]] = "copy"
    <3>1. CASE z = t
      BY <1>1, <1>2, <1>3, <1>7, <3>1
    <3>2. CASE z # t
      <4>1. pc[z] \in Linking
        BY <1>7, <2>1, <3>2, Basics
      <4>2. /\ local[z].tsk = parent[z] /\ parent[z] \in allocated
            /\ state[parent[z]] = RUNNING /\ pc[parent[z]] = "copy"
        BY <4>1 DEF IInv, HandInv
      <4>3. parent[z] # t /\ parent[z] \in AllTasks
        BY <1>1, <4>2, Basics
      <4> QED
        BY <1>7, <4>2, <4>3, Basics
    <3> QED
      BY <3>1, <3>2
  <2> QED
    BY <1>4, <2>1 DEF HandInv, Linking
<1>8. SchedInv'
  <2>1. \A u \in Queued(task_schedule) : u # current /\ u \in allocated /\ state'[u] = RUNNING
    BY <1>5, <1>7, Basics
  <2>2. \A u \in allocated : state'[u] = RUNNING =>
            u = current \/ u \in Queued(task_schedule) \/ u \in Unlinked'
    BY <1>7, <1>u, Basics
  <2>3. \A u \in Unlinked' : u # current /\ u \notin Queued(task_schedule)
    BY <1>1, <1>3, <1>5, <1>u, Basics
  <2>4. state'[InitTask] = RUNNING /\ state'[current] # INTERRUPTIBLE
    BY <1>1, <1>3, <1>7, Basics DEF IInv, SchedInv
  <2>5. current \in allocated \cup {InitTask}
    BY DEF IInv, SchedInv
  <2>6. PICK n \in Int : n = cut + Uncounted /\ WellFormed(task_schedule, vrun_time, n)
    BY Basics
  <2>7. cut' + Uncounted' = n
    BY <1>1, <1>4, <1>7, <2>6, CountStays
  <2> QED
    BY <1>4, <2>1, <2>2, <2>3, <2>4, <2>5, <2>6, <2>7
       DEF SchedInv, RunQueueOK, NoRunnableLost, WellFormed, Queued
<1>9. FamilyInv'
  <2>1. \A c \in allocated : parent[c] \in AllTasks
    BY Basics DEF IInv, FamilyInv
  <2> QED
    BY <1>4, <1>7, <2>1 DEF IInv, FamilyInv, RUNNING, ZOMBIE
<1>10. PhaseInv'
  <2>1. ASSUME NEW u \in allocated
        PROVE  /\ state'[u] = ZOMBIE <=> pc'[u] \in ExitPoints
               /\ state'[u] = INTERRUPTIBLE => pc'[u] = "copy"
               /\ pc'[u] \in {"copy", "reap"} =>
                    local[u].child \in allocated /\ parent[local[u].child] = u
               /\ pc'[u] \in {"copy", "reap"} /\ state'[u] # INTERRUPTIBLE =>
                    state'[local[u].child] = ZOMBIE
    <3>1. CASE u = p
      <4>1. /\ state'[u] = RUNNING /\ pc'[u] = "copy" /\ local[u].child = t
            /\ state'[t] = ZOMBIE /\ parent[t] = u
        BY <1>1, <1>2, <1>3, <1>7, <3>1, Basics
      <4> QED
        BY <1>1, <4>1 DEF RUNNING, ZOMBIE, INTERRUPTIBLE, ExitPoints
    <3>2. CASE u = t
      <4>1. state'[u] = ZOMBIE /\ pc'[u] = "link"
        BY <1>1, <1>3, <1>7, <3>2, Basics
      <4> QED
        BY <4>1 DEF ZOMBIE, INTERRUPTIBLE, ExitPoints
    <3>3. CASE u # p /\ u # t
      <4>1. state'[u] = state[u] /\ pc'[u] = pc[u]
        BY <1>7, <3>3, Basics
      <4>2. ASSUME pc[u] \in {"copy", "reap"}
            PROVE  /\ local[u].child \in allocated
                   /\ parent[local[u].child] = u
                   /\ state[u] # INTERRUPTIBLE => state'[local[u].child] = ZOMBIE
        <5>1. local[u].child \in allocated /\ parent[local[u].child] = u
              /\ (state[u] # INTERRUPTIBLE => state[local[u].child] = ZOMBIE)
          BY <4>2 DEF IInv, PhaseInv
        <5>2. local[u].child \in AllTasks
          BY <5>1, Basics
        <5> QED
          BY <1>1, <1>7, <5>1, <5>2 DEF ZOMBIE, INTERRUPTIBLE
      <4> QED
        BY <4>1, <4>2 DEF IInv, PhaseInv
    <3> QED
      BY <3>1, <3>2, <3>3
  <2> QED
    BY <1>4, <2>1 DEF PhaseInv
<1>11. WaitInv'
  <2>1. \A u \in allocated : wait_childexit[u] # <<>> =>
            wait_childexit[u] = <<u>> /\ state'[u] = INTERRUPTIBLE
    BY <1>1, <1>7, Basics DEF IInv, WaitInv
  <2>2. ASSUME NEW u \in allocated, state'[u] = INTERRUPTIBLE, wait_childexit[u] = <<>>
        PROVE  pc'[local[u].child] = "wake"
    <3>1. u # p /\ u # t /\ state[u] = INTERRUPTIBLE
      BY <1>1, <1>3, <1>7, <2>2, Basics DEF RUNNING, INTERRUPTIBLE, ZOMBIE
    <3>2. /\ pc[local[u].child] = "wake"
          /\ local[u].child \in allocated /\ parent[local[u].child] = u
      BY <2>2, <3>1 DEF IInv, WaitInv, PhaseInv
    <3> QED
      BY <1>7, <3>1, <3>2, Basics
  <2>3. ASSUME NEW z \in allocated, pc'[z] = "wake"
        PROVE  /\ local[z].tsk = parent[z]
               /\ state'[parent[z]] = INTERRUPTIBLE
               /\ wait_childexit[parent[z]] = <<>>
    <3>1. z # t /\ pc[z] = "wake"
      BY <1>7, <2>3, Basics
    <3>2. local[z].tsk = parent[z] /\ state[parent[z]] = INTERRUPTIBLE
          /\ wait_childexit[parent[z]] = <<>>
      BY <3>1 DEF IInv, WaitInv
    <3>3. parent[z] # p /\ parent[z] \in AllTasks
      BY <1>1, <1>3, <3>1, Basics DEF IInv, FamilyInv
    <3> QED
      BY <1>7, <3>1, <3>2, <3>3
  <2>4. ASSUME NEW z \in allocated, pc'[z] \in Told
        PROVE  state'[parent[z]] # INTERRUPTIBLE
    <3>1. CASE z = t
      BY <1>7, <3>1 DEF RUNNING, INTERRUPTIBLE
    <3>2. CASE z # t
      <4>1. state[parent[z]] # INTERRUPTIBLE /\ parent[z] \in AllTasks
        BY <1>7, <2>4, <3>2, Basics DEF IInv, WaitInv, FamilyInv
      <4> QED
        BY <1>7, <4>1 DEF RUNNING, INTERRUPTIBLE
    <3> QED
      BY <3>1, <3>2
  <2>5. wait_childexit[InitTask] = <<>>
    BY DEF IInv, WaitInv
  <2> QED
    BY <1>4, <2>1, <2>2, <2>3, <2>4, <2>5 DEF WaitInv, Told, Linking
<1> QED
  BY <1>6, <1>h, <1>8, <1>9, <1>10, <1>11 DEF IInv

\* A step of an exit behind the state write, which moves no other task.
LEMMA ToldStep ==
    ASSUME IInv, NEW t \in Tasks, current = t, pc[t] \in Told, NEW point \in Told,
           pc' = [pc EXCEPT ![t] = point],
           local' \in [Tasks -> [child : Tasks, tsk : AllTasks]],
           \A u \in Tasks \ {t} : local'[u] = local[u],
           UNCHANGED <<current, state, vrun_time, allocated, parent, next,
                       wait_childexit, exit_code, status, cut>>
    PROVE  /\ t \in allocated /\ pc' \in [Tasks -> Points] /\ pc'[t] = point
           /\ \A u \in Tasks \ {t} : pc'[u] = pc[u]
           /\ FamilyInv' /\ PhaseInv' /\ WaitInv'
<1>1. t \in allocated
  BY Basics
<1>2. /\ pc' \in [Tasks -> Points] /\ pc'[t] = point
      /\ \A u \in Tasks \ {t} : pc'[u] = pc[u]
  BY DEF IInv, TypeOK, Points, ExitPoints, Told, Linking
<1>3. FamilyInv'
  BY DEF IInv, FamilyInv
<1>4. PhaseInv'
  <2>1. ASSUME NEW u \in allocated
        PROVE  /\ state[u] = ZOMBIE <=> pc'[u] \in ExitPoints
               /\ state[u] = INTERRUPTIBLE => pc'[u] = "copy"
               /\ pc'[u] \in {"copy", "reap"} =>
                    local'[u].child \in allocated /\ parent[local'[u].child] = u
               /\ pc'[u] \in {"copy", "reap"} /\ state[u] # INTERRUPTIBLE =>
                    state[local'[u].child] = ZOMBIE
    <3>1. CASE u = t
      <4>1. state[u] = ZOMBIE
        BY <1>1, <3>1 DEF IInv, PhaseInv, ExitPoints, Told, Linking
      <4> QED
        BY <1>2, <3>1, <4>1 DEF ZOMBIE, INTERRUPTIBLE, ExitPoints, Told, Linking
    <3>2. CASE u # t
      BY <1>2, <3>2, Basics DEF IInv, PhaseInv
    <3> QED
      BY <3>1, <3>2
  <2> QED
    BY <2>1 DEF PhaseInv
<1>5. WaitInv'
  <2>1. ASSUME NEW u \in allocated, state[u] = INTERRUPTIBLE, wait_childexit[u] = <<>>
        PROVE  pc'[local'[u].child] = "wake"
    <3>1. pc[local[u].child] = "wake" /\ local[u].child \in allocated /\ pc[u] = "copy"
      BY <2>1 DEF IInv, WaitInv, PhaseInv
    <3>2. u # t /\ local[u].child # t
      BY <3>1 DEF Told, Linking
    <3> QED
      BY <1>2, <3>1, <3>2, Basics
  <2>2. \A z \in allocated : pc'[z] = "wake" =>
            pc[z] = "wake" /\ local'[z] = local[z]
    BY <1>2, Basics DEF Told, Linking
  <2>3. \A z \in allocated : pc'[z] \in Told => pc[z] \in Told
    BY <1>2, Basics
  <2>4. \A z \in allocated : pc'[z] \in Told => state[parent[z]] # INTERRUPTIBLE
    BY <2>3 DEF IInv, WaitInv
  <2>5. \A z \in allocated : pc'[z] = "wake" =>
            /\ local'[z].tsk = parent[z]
            /\ state[parent[z]] = INTERRUPTIBLE /\ wait_childexit[parent[z]] = <<>>
    BY <2>2 DEF IInv, WaitInv
  <2>6. /\ wait_childexit[InitTask] = <<>>
        /\ \A u \in allocated :
              wait_childexit[u] # <<>> => wait_childexit[u] = <<u>> /\ state[u] = INTERRUPTIBLE
    BY DEF IInv, WaitInv
  <2> QED
    BY <2>1, <2>4, <2>5, <2>6 DEF WaitInv, Told, Linking
<1> QED
  BY <1>1, <1>2, <1>3, <1>4, <1>5

LEMMA LinkIInv ==
    ASSUME IInv, NEW t \in Tasks, exit_link(t)
    PROVE  IInv'
<1> DEFINE p == parent[t]
<1>1. /\ current = t /\ pc[t] = "link" /\ t \in allocated
      /\ task_schedule' = enqueue(task_schedule, vrun_time, local[t].tsk)
      /\ pc' = [pc EXCEPT ![t] = "count"]
      /\ local' = [local EXCEPT ![t] = NoLocal(t)]
      /\ UNCHANGED <<current, state, vrun_time, allocated, parent, next,
                     wait_childexit, exit_code, status, cut>>
  BY Basics DEF exit_link
<1>2. pc[t] \in Linking /\ pc[t] \in Told /\ "count" \in Told
  BY <1>1 DEF Told, Linking
<1>3. /\ local[t].tsk = p /\ p \in allocated /\ p \in Tasks /\ p # InitTask
      /\ state[p] = RUNNING /\ p # current /\ p \notin Queued(task_schedule)
  <2>1. local[t].tsk = p /\ p \in allocated /\ state[p] = RUNNING
    BY <1>1, <1>2 DEF IInv, HandInv
  <2>2. p # current /\ p \notin Queued(task_schedule)
    BY <1>1, <1>2, UnlinkedParent
  <2> QED
    BY <2>1, <2>2, Basics
<1>4. /\ local' \in [Tasks -> [child : Tasks, tsk : AllTasks]]
      /\ \A u \in Tasks \ {t} : local'[u] = local[u]
  <2>1. NoLocal(t) \in [child : Tasks, tsk : AllTasks]
    BY Basics DEF NoLocal
  <2> QED
    BY <1>1, <2>1 DEF IInv, TypeOK
<1>5. /\ pc' \in [Tasks -> Points] /\ pc'[t] = "count"
      /\ \A u \in Tasks \ {t} : pc'[u] = pc[u]
      /\ FamilyInv' /\ PhaseInv' /\ WaitInv'
  <2>1. PICK point \in Told : point = "count"
    BY <1>2
  <2>2. pc' = [pc EXCEPT ![t] = point]
    BY <1>1, <2>1
  <2> QED
    BY <1>1, <1>2, <1>4, <2>1, <2>2, ToldStep
<1>6. PICK n \in Int : n = cut + Uncounted
  BY Basics
<1>7. /\ task_schedule' \in ScheduleType
      /\ WellFormed(task_schedule', vrun_time, n + 1)
      /\ Queued(task_schedule') = Queued(task_schedule) \cup {p}
  <2>1. vrun_time \in RunTimes
    BY DEF IInv, TypeOK, RunTimes, AllTasks
  <2>2. task_schedule' = enqueue(task_schedule, vrun_time, p)
    BY <1>1, <1>3
  <2> QED
    BY <1>3, <1>6, <2>1, <2>2, Basics, Enqueue
<1>8. cut' + Uncounted' = n + 1
  <2>1. Uncounted = 0 /\ Uncounted' = 1
    BY <1>1, <1>5, Basics DEF Uncounted
  <2> QED
    BY <1>1, <1>6, <2>1 DEF IInv, TypeOK
<1>9. \A z \in allocated : pc'[z] \in Linking <=> pc[z] \in Linking /\ z # t
  BY <1>1, <1>5, Basics DEF Linking
<1>10. Unlinked' = Unlinked \ {p}
  <2>1. \A z \in allocated : pc[z] \in Linking => local[z].tsk = parent[z]
    BY DEF IInv, HandInv
  <2>2. \A z \in allocated : z # t => local'[z] = local[z]
    BY <1>4, Basics
  <2>3. \A z \in allocated : parent[z] = p => z = t
    BY <1>1, <1>3 DEF IInv, FamilyInv
  <2> QED
    BY <1>1, <1>3, <1>9, <2>1, <2>2, <2>3 DEF Unlinked
<1>11. HandInv'
  <2>1. ASSUME NEW z \in allocated, pc'[z] \in Linking
        PROVE  /\ local'[z].tsk = parent[z] /\ parent[z] \in allocated
               /\ state[parent[z]] = RUNNING /\ pc'[parent[z]] = "copy"
    <3>1. z # t /\ pc[z] \in Linking /\ local'[z] = local[z]
      BY <1>4, <1>9, <2>1, Basics
    <3>2. /\ local[z].tsk = parent[z] /\ parent[z] \in allocated
          /\ state[parent[z]] = RUNNING /\ pc[parent[z]] = "copy"
      BY <3>1 DEF IInv, HandInv
    <3>3. parent[z] # t
      BY <1>1, <3>2
    <3> QED
      BY <1>5, <3>1, <3>2, <3>3, Basics
  <2> QED
    BY <1>1, <2>1 DEF HandInv, Linking
<1>12. TypeOK'
  BY <1>1, <1>4, <1>5, <1>7 DEF IInv, TypeOK
<1>13. SchedInv'
  <2>1. \A u \in Queued(task_schedule') : u # current /\ u \in allocated /\ state[u] = RUNNING
    BY <1>3, <1>7, Basics
  <2>2. \A u \in allocated : state[u] = RUNNING =>
            u = current \/ u \in Queued(task_schedule') \/ u \in Unlinked'
    BY <1>7, <1>10, Basics
  <2>3. \A u \in Unlinked' : u # current /\ u \notin Queued(task_schedule')
    BY <1>7, <1>10, Basics
  <2>4. /\ current \in allocated \cup {InitTask}
        /\ state[InitTask] = RUNNING /\ state[current] # INTERRUPTIBLE
    BY DEF IInv, SchedInv
  <2> QED
    BY <1>1, <1>7, <1>8, <2>1, <2>2, <2>3, <2>4
       DEF SchedInv, RunQueueOK, NoRunnableLost, WellFormed, Queued
<1> QED
  BY <1>5, <1>11, <1>12, <1>13 DEF IInv

\* The steps that hold no task between its state and the queue.
LEMMA HandKept ==
    ASSUME IInv, NEW t \in Tasks, current = t, pc[t] \in ExitPoints,
           \A u \in Tasks \ {t} : pc'[u] = pc[u],
           pc'[t] \in Linking <=> pc[t] \in Linking,
           UNCHANGED <<state, allocated, parent, local>>
    PROVE  HandInv' /\ Unlinked' = Unlinked
<1>1. \A z \in allocated : pc'[z] \in Linking <=> pc[z] \in Linking
  BY Basics
<1>2. \A u \in allocated : u # current => pc'[u] = pc[u]
  BY Basics
<1> QED
  BY <1>1, <1>2, HandStays

LEMMA CountIInv ==
    ASSUME IInv, NEW t \in Tasks, exit_count(t)
    PROVE  IInv'
<1>1. /\ current = t /\ pc[t] = "count" /\ t \in allocated
      /\ task_schedule' = count_up(task_schedule)
      /\ pc' = [pc EXCEPT ![t] = "schedule"]
      /\ UNCHANGED <<current, state, vrun_time, allocated, parent, next,
                     wait_childexit, exit_code, local, status, cut>>
  BY Basics DEF exit_count
<1>2. pc[t] \in Told /\ "schedule" \in Told /\ pc[t] \in ExitPoints
  BY <1>1 DEF Told, Linking, ExitPoints
<1>3. /\ pc' \in [Tasks -> Points] /\ pc'[t] = "schedule"
      /\ \A u \in Tasks \ {t} : pc'[u] = pc[u]
      /\ FamilyInv' /\ PhaseInv' /\ WaitInv'
  <2>1. PICK point \in Told : point = "schedule"
    BY <1>2
  <2>2. pc' = [pc EXCEPT ![t] = point]
    BY <1>1, <2>1
  <2>3. /\ local' \in [Tasks -> [child : Tasks, tsk : AllTasks]]
        /\ \A u \in Tasks \ {t} : local'[u] = local[u]
    BY <1>1 DEF IInv, TypeOK
  <2> QED
    BY <1>1, <1>2, <2>1, <2>2, <2>3, ToldStep
<1>4. HandInv' /\ Unlinked' = Unlinked
  <2>1. pc'[t] \notin Linking /\ pc[t] \notin Linking
    BY <1>1, <1>3 DEF Linking
  <2> QED
    BY <1>1, <1>2, <1>3, <2>1, HandKept
<1>5. PICK n \in Int : n = cut
  BY DEF IInv, TypeOK
<1>6. cut + Uncounted = n + 1 /\ cut' + Uncounted' = n
  <2>1. Uncounted = 1 /\ Uncounted' = 0
    BY <1>1, <1>3, Basics DEF Uncounted
  <2> QED
    BY <1>1, <1>5, <2>1
<1>7. /\ task_schedule' \in ScheduleType
      /\ WellFormed(task_schedule', vrun_time, n)
      /\ Queued(task_schedule') = Queued(task_schedule)
  BY <1>1, <1>6, Basics, CountUp
<1>8. TypeOK'
  BY <1>1, <1>3, <1>7 DEF IInv, TypeOK
<1>9. SchedInv'
  <2>1. /\ current \in allocated \cup {InitTask}
        /\ state[InitTask] = RUNNING /\ state[current] # INTERRUPTIBLE
    BY DEF IInv, SchedInv
  <2>2. /\ \A u \in Queued(task_schedule') : u # current /\ u \in allocated /\ state[u] = RUNNING
        /\ \A u \in allocated : state[u] = RUNNING =>
              u = current \/ u \in Queued(task_schedule') \/ u \in Unlinked
        /\ \A u \in Unlinked : u # current /\ u \notin Queued(task_schedule')
    BY <1>7, Basics
  <2> QED
    BY <1>1, <1>4, <1>6, <1>7, <2>1, <2>2
       DEF SchedInv, RunQueueOK, NoRunnableLost, WellFormed, Queued
<1> QED
  BY <1>3, <1>4, <1>8, <1>9 DEF IInv

LEMMA TearIInv ==
    ASSUME IInv, NEW t \in Tasks, irq_tears_link(t)
    PROVE  IInv'
<1>1. /\ current = t /\ pc[t] = "link" /\ t \in allocated
      /\ pc' = [pc EXCEPT ![t] = "torn"]
      /\ UNCHANGED <<current, task_schedule, state, vrun_time, allocated, parent, next,
                     wait_childexit, exit_code, local, status, cut>>
  BY Basics DEF irq_tears_link, schedVars
<1>2. pc[t] \in Told /\ "torn" \in Told /\ pc[t] \in ExitPoints
  BY <1>1 DEF Told, Linking, ExitPoints
<1>3. /\ pc' \in [Tasks -> Points] /\ pc'[t] = "torn"
      /\ \A u \in Tasks \ {t} : pc'[u] = pc[u]
      /\ FamilyInv' /\ PhaseInv' /\ WaitInv'
  <2>1. PICK point \in Told : point = "torn"
    BY <1>2
  <2>2. pc' = [pc EXCEPT ![t] = point]
    BY <1>1, <2>1
  <2>3. /\ local' \in [Tasks -> [child : Tasks, tsk : AllTasks]]
        /\ \A u \in Tasks \ {t} : local'[u] = local[u]
    BY <1>1 DEF IInv, TypeOK
  <2> QED
    BY <1>1, <1>2, <2>1, <2>2, <2>3, ToldStep
<1>4. HandInv' /\ Unlinked' = Unlinked
  <2>1. pc'[t] \in Linking /\ pc[t] \in Linking
    BY <1>1, <1>3 DEF Linking
  <2> QED
    BY <1>1, <1>2, <1>3, <2>1, HandKept
<1>5. TypeOK'
  BY <1>1, <1>3 DEF IInv, TypeOK
<1>6. SchedInv'
  <2>1. SchedInv
    BY DEF IInv
  <2>2. PICK n \in Int : n = cut + Uncounted
    BY Basics
  <2>3. cut' + Uncounted' = n
    BY <1>1, <1>3, <2>2, CountStays
  <2> QED
    BY <1>1, <1>4, <2>1, <2>2, <2>3
       DEF SchedInv, RunQueueOK, NoRunnableLost, WellFormed, Queued
<1> QED
  BY <1>3, <1>4, <1>5, <1>6 DEF IInv

\* The parent frees a child that has exited, at once or after a sleep.
LEMMA FreeIInv ==
    ASSUME IInv, NEW t \in Tasks, NEW child \in allocated,
           current = t, pc[t] \notin ExitPoints,
           parent[child] = t, state[child] = ZOMBIE,
           allocated' = allocated \ {child},
           pc' = [pc EXCEPT ![t] = "user"],
           local' \in [Tasks -> [child : Tasks, tsk : AllTasks]],
           \A u \in Tasks \ {t} : local'[u] = local[u],
           next' \in [AllTasks -> AllTasks], status' \in [Tasks -> Int],
           UNCHANGED <<schedVars, parent, wait_childexit, exit_code, cut>>
    PROVE  IInv'
<1>1. /\ t \in allocated /\ child # t
      /\ state[t] # ZOMBIE /\ state[t] # INTERRUPTIBLE
  <2>1. t \in allocated
    BY Basics
  <2>2. child # t /\ state[t] # ZOMBIE
    BY <2>1 DEF IInv, FamilyInv, PhaseInv
  <2> QED
    BY <2>1, <2>2 DEF IInv, SchedInv
<1>2. UNCHANGED <<current, task_schedule, state, vrun_time, parent, wait_childexit, exit_code,
                cut>>
  BY DEF schedVars
<1>3. /\ \A u \in Tasks \ {t} : pc'[u] = pc[u]
      /\ pc'[t] = "user"
  BY DEF IInv, TypeOK
<1>4. \A c \in allocated : parent[c] # child
  BY DEF IInv, FamilyInv
<1>5. TypeOK'
  <2>1. pc' \in [Tasks -> Points]
    BY DEF IInv, TypeOK, Points
  <2> QED
    BY <1>2, <2>1 DEF IInv, TypeOK
<1>h. HandInv' /\ Unlinked' = Unlinked
  <2>1. pc[child] \notin Linking
    BY UnlinkedParent
  <2>2. \A z \in allocated' : pc'[z] \in Linking => z # t /\ pc'[z] = pc[z] /\ local'[z] = local[z]
    BY <1>3, Basics DEF Linking
  <2>3. \A z \in allocated : pc[z] \in Linking => z # t /\ z # child /\ pc'[z] = pc[z]
    BY <1>3, <2>1, Basics DEF Linking, ExitPoints
  <2>4. \A u \in allocated : state[u] = RUNNING /\ u # current => u \in allocated' /\ pc'[u] = pc[u]
    BY <1>3, Basics DEF RUNNING, ZOMBIE
  <2> QED
    BY <1>2, <2>2, <2>3, <2>4, HandStays
<1>6. SchedInv'
  <2>1. child \notin Queued(task_schedule)
    BY Basics DEF RUNNING, ZOMBIE
  <2>n. PICK n \in Int : n = cut + Uncounted /\ WellFormed(task_schedule, vrun_time, n)
    BY Basics
  <2>w. cut' + Uncounted' = n
    BY <1>2, <1>3, <2>n, CountStays DEF ExitPoints
  <2>2. /\ \A u \in Queued(task_schedule) : u # current /\ u \in allocated' /\ state[u] = RUNNING
        /\ \A u \in allocated' : state[u] = RUNNING =>
              u = current \/ u \in Queued(task_schedule) \/ u \in Unlinked
        /\ \A u \in Unlinked : u # current /\ u \notin Queued(task_schedule)
    BY <2>1, Basics
  <2>3. current \in allocated' \cup {InitTask} /\ state[InitTask] = RUNNING
        /\ state[current] # INTERRUPTIBLE
    BY <1>1 DEF IInv, SchedInv
  <2> QED
    BY <1>2, <1>h, <2>n, <2>w, <2>2, <2>3
       DEF SchedInv, RunQueueOK, NoRunnableLost, WellFormed, Queued
<1>7. FamilyInv'
  BY <1>2, <1>4 DEF IInv, FamilyInv
<1>8. \A u \in allocated' : u # t /\ pc[u] \in {"copy", "reap"} =>
            local[u].child \in allocated' /\ parent[local[u].child] = u
  BY DEF IInv, PhaseInv
<1>9. PhaseInv'
  <2>1. ASSUME NEW u \in allocated'
        PROVE  /\ state[u] = ZOMBIE <=> pc'[u] \in ExitPoints
               /\ state[u] = INTERRUPTIBLE => pc'[u] = "copy"
               /\ pc'[u] \in {"copy", "reap"} =>
                    local'[u].child \in allocated' /\ parent[local'[u].child] = u
               /\ pc'[u] \in {"copy", "reap"} /\ state[u] # INTERRUPTIBLE =>
                    state[local'[u].child] = ZOMBIE
    <3>1. CASE u = t
      BY <1>1, <1>3, <3>1 DEF ExitPoints
    <3>2. CASE u # t
      BY <1>3, <1>8, <3>2, Basics DEF IInv, PhaseInv
    <3> QED
      BY <3>1, <3>2
  <2> QED
    BY <1>2, <2>1 DEF PhaseInv
<1>10. WaitInv'
  <2>1. ASSUME NEW u \in allocated', state[u] = INTERRUPTIBLE, wait_childexit[u] = <<>>
        PROVE  pc'[local'[u].child] = "wake"
    <3>1. u # t /\ u \in allocated
      BY <1>1, <2>1
    <3>2. pc[local[u].child] = "wake"
      BY <2>1, <3>1 DEF IInv, WaitInv
    <3>3. pc[u] = "copy"
      BY <2>1, <3>1 DEF IInv, PhaseInv
    <3>4. local[u].child \in allocated
      BY <3>1, <3>3 DEF IInv, PhaseInv
    <3>5. local[u].child # t
      BY <3>2 DEF ExitPoints
    <3> QED
      BY <1>3, <3>1, <3>2, <3>4, <3>5, Basics
  <2>2. \A z \in allocated' : pc'[z] \in Told \cup {"wake"} =>
            z # t /\ pc'[z] = pc[z] /\ local'[z] = local[z]
    BY <1>3, Basics DEF Told, Linking
  <2>3. wait_childexit[InitTask] = <<>>
    BY DEF IInv, WaitInv
  <2>4. \A u \in allocated' : wait_childexit[u] # <<>> =>
            wait_childexit[u] = <<u>> /\ state[u] = INTERRUPTIBLE
    BY DEF IInv, WaitInv
  <2>5. \A z \in allocated' : pc'[z] = "wake" => /\ local'[z].tsk = parent[z]
                                                 /\ state[parent[z]] = INTERRUPTIBLE
                                                 /\ wait_childexit[parent[z]] = <<>>
    BY <2>2 DEF IInv, WaitInv
  <2>6. \A z \in allocated' : pc'[z] \in Told => state[parent[z]] # INTERRUPTIBLE
    BY <2>2 DEF IInv, WaitInv
  <2> QED
    BY <1>2, <2>1, <2>3, <2>4, <2>5, <2>6 DEF WaitInv, Told, Linking
<1> QED
  BY <1>5, <1>h, <1>6, <1>7, <1>9, <1>10 DEF IInv

LEMMA SleepIInv ==
    ASSUME IInv, NEW t \in Tasks, NEW child \in allocated, NEW tsk \in AllTasks,
           current = t, pc[t] = "user", parent[child] = t, wait4_sleep(t, child, tsk)
    PROVE  IInv' /\ state'[current'] = RUNNING
<1>1. t \in allocated /\ state[t] = RUNNING /\ child # t
  BY UserIsRunning DEF IInv, FamilyInv
<1>2. wait_childexit[t] = <<>>
  BY <1>1 DEF IInv, WaitInv, RUNNING, INTERRUPTIBLE
<1>3. /\ state[child] # ZOMBIE
      /\ state' = [state EXCEPT ![t] = INTERRUPTIBLE]
      /\ wait_childexit' = [wait_childexit EXCEPT ![t] = <<t>>]
      /\ local' = [local EXCEPT ![t] = [child |-> child, tsk |-> tsk]]
      /\ pc' = [pc EXCEPT ![t] = "copy"]
      /\ schedule(task_schedule, state', vrun_time)
      /\ UNCHANGED <<vrun_time, allocated, parent, next, exit_code, status, cut>>
  <2>1. Append(wait_childexit[t], t) = <<t>>
    BY <1>2
  <2> QED
    BY <2>1 DEF wait4_sleep, Exited
<1>4. /\ \A u \in AllTasks \ {t} : /\ state'[u] = state[u]
                                   /\ wait_childexit'[u] = wait_childexit[u]
      /\ state'[t] = INTERRUPTIBLE /\ wait_childexit'[t] = <<t>>
      /\ \A u \in Tasks \ {t} : pc'[u] = pc[u] /\ local'[u] = local[u]
      /\ pc'[t] = "copy" /\ local'[t].child = child
  BY <1>3, Basics DEF IInv, TypeOK
<1>n. PICK n \in Int : n = cut + Uncounted /\ WellFormed(task_schedule, vrun_time, n)
  BY Basics
<1>l. PICK lost \in SUBSET Tasks : lost = Unlinked
  <2>1. Unlinked \subseteq Tasks
    BY UnlinkedAllocated, Basics
  <2> QED
    BY <2>1
<1>5. /\ current' \in allocated \cup {InitTask}
      /\ task_schedule' \in ScheduleType
      /\ WellFormed(task_schedule', vrun_time, n)
      /\ \A u \in Queued(task_schedule') : u # current' /\ u \in allocated /\ state'[u] = RUNNING
      /\ \A u \in allocated : state'[u] = RUNNING =>
            u = current' \/ u \in Queued(task_schedule') \/ u \in lost
      /\ \A u \in lost : u # current' /\ u \notin Queued(task_schedule')
      /\ state'[current'] = RUNNING
  <2>1. PICK st : st = state'
    OBVIOUS
  <2>2. st \in [AllTasks -> TaskStates] /\ vrun_time \in [AllTasks -> Nat]
    BY <1>3, <2>1 DEF IInv, TypeOK, TaskStates
  <2>3. st[InitTask] = RUNNING
    BY <1>4, <2>1, Basics DEF IInv, SchedInv
  <2>4. \A u \in Queued(task_schedule) : u \in allocated /\ st[u] = RUNNING
    BY <1>4, <2>1, Basics
  <2>5. \A u \in allocated : st[u] = RUNNING =>
            u = current \/ u \in Queued(task_schedule) \/ u \in lost
    BY <1>4, <1>l, <2>1, Basics
  <2>6. current \in allocated \cup {InitTask} /\ current \notin Queued(task_schedule)
    BY <1>1, Basics
  <2>9. \A u \in lost : u # current /\ u \notin Queued(task_schedule)
    BY <1>l, Basics
  <2>7. schedule(task_schedule, st, vrun_time)
    BY <1>3, <2>1
  <2>8. /\ task_schedule \in ScheduleType
        /\ WellFormed(task_schedule, vrun_time, n)
        /\ allocated \in SUBSET Tasks
    BY <1>n, Basics
  <2>10. /\ task_schedule' \in ScheduleType
         /\ WellFormed(task_schedule', vrun_time, n)
         /\ current' \in allocated \cup {InitTask}
         /\ \A u \in Queued(task_schedule') : u # current' /\ u \in allocated /\ st[u] = RUNNING
         /\ \A u \in Tasks : st[u] = RUNNING /\ u \in Queued(task_schedule) \cup {current} =>
               u \in Queued(task_schedule') \cup {current'}
         /\ \A u \in Tasks : u \in Queued(task_schedule') \cup {current'} =>
               u \in Queued(task_schedule) \cup {current}
         /\ st[current'] = RUNNING
    BY <2>2, <2>3, <2>4, <2>6, <2>7, <2>8, Dispatched
  <2> QED
    BY <2>1, <2>5, <2>8, <2>9, <2>10
<1>6. TypeOK'
  <2>1. wait_childexit' \in [AllTasks -> Seq(Tasks)]
    <3>1. wait_childexit \in [AllTasks -> Seq(Tasks)] /\ <<t>> \in Seq(Tasks)
      BY DEF IInv, TypeOK
    <3> QED
      BY <1>3, <3>1, Zenon
  <2>2. local' \in [Tasks -> [child : Tasks, tsk : AllTasks]]
    <3>1. [child |-> child, tsk |-> tsk] \in [child : Tasks, tsk : AllTasks]
      BY Basics
    <3> QED
      BY <1>3, <3>1 DEF IInv, TypeOK
  <2>3. state' \in [AllTasks -> TaskStates] /\ pc' \in [Tasks -> Points]
    BY <1>3 DEF IInv, TypeOK, TaskStates, Points
  <2>4. current' \in AllTasks
    BY <1>5, Basics
  <2> QED
    BY <1>3, <1>5, <2>1, <2>2, <2>3, <2>4 DEF IInv, TypeOK
<1>h. HandInv' /\ Unlinked' = Unlinked
  <2>1. \A z \in allocated : pc'[z] \in Linking <=> pc[z] \in Linking
    BY <1>4, Basics DEF Linking
  <2>2. \A z \in allocated : pc[z] \in Linking => z # t
    BY DEF Linking
  <2>3. \A u \in allocated : u # t => /\ pc'[u] = pc[u] /\ local'[u] = local[u]
                                      /\ state'[u] = state[u]
    BY <1>4, Basics
  <2> QED
    BY <1>3, <2>1, <2>2, <2>3, HandStays
<1>c. cut' + Uncounted' = n
  <2>1. Uncounted = 0
    BY DEF Uncounted
  <2>2. current' # InitTask => current' \in Tasks /\ pc'[current'] # "count"
    <3>1. SUFFICES ASSUME current' # InitTask
                   PROVE  current' \in allocated /\ pc'[current'] # "count"
      BY Basics
    <3>2. current' \in allocated /\ state'[current'] = RUNNING
      BY <1>5, <3>1
    <3>3. current' # t
      BY <1>4, <3>2 DEF RUNNING, INTERRUPTIBLE
    <3>4. state[current'] = RUNNING /\ pc'[current'] = pc[current']
      BY <1>4, <3>2, <3>3, Basics
    <3> QED
      BY <3>2, <3>4 DEF IInv, PhaseInv, ExitPoints, RUNNING, ZOMBIE
  <2>3. Uncounted' = 0
    BY <2>2 DEF Uncounted
  <2> QED
    BY <1>3, <1>n, <2>1, <2>3
<1>7. SchedInv'
  <2>1. state'[InitTask] = RUNNING
    BY <1>4, Basics DEF IInv, SchedInv
  <2>2. RunQueueOK' /\ NoRunnableLost'
    BY <1>3, <1>5, <1>c, <1>h, <1>l DEF RunQueueOK, NoRunnableLost, WellFormed, Queued
  <2> QED
    BY <1>3, <1>5, <2>1, <2>2 DEF SchedInv, RUNNING, INTERRUPTIBLE
<1>8. FamilyInv'
  <2>1. \A c \in allocated : parent[c] \in AllTasks
    BY Basics DEF IInv, FamilyInv
  <2> QED
    BY <1>3, <1>4, <2>1 DEF IInv, FamilyInv, INTERRUPTIBLE, ZOMBIE
<1>9. PhaseInv'
  <2>1. ASSUME NEW u \in allocated
        PROVE  /\ state'[u] = ZOMBIE <=> pc'[u] \in ExitPoints
               /\ state'[u] = INTERRUPTIBLE => pc'[u] = "copy"
               /\ pc'[u] \in {"copy", "reap"} =>
                    local'[u].child \in allocated /\ parent[local'[u].child] = u
               /\ pc'[u] \in {"copy", "reap"} /\ state'[u] # INTERRUPTIBLE =>
                    state'[local'[u].child] = ZOMBIE
    <3>1. CASE u = t
      BY <1>4, <3>1 DEF ZOMBIE, INTERRUPTIBLE, ExitPoints
    <3>2. CASE u # t
      <4>1. state'[u] = state[u] /\ pc'[u] = pc[u] /\ local'[u] = local[u]
        BY <1>4, <3>2, Basics
      <4>2. ASSUME pc[u] \in {"copy", "reap"}, state[u] # INTERRUPTIBLE
            PROVE  state'[local[u].child] = ZOMBIE
        <5>1. local[u].child \in allocated /\ state[local[u].child] = ZOMBIE
          BY <4>2 DEF IInv, PhaseInv
        <5>2. local[u].child # t
          BY <1>1, <5>1 DEF RUNNING, ZOMBIE
        <5> QED
          BY <1>4, <5>1, <5>2, Basics
      <4> QED
        BY <4>1, <4>2 DEF IInv, PhaseInv
    <3> QED
      BY <3>1, <3>2
  <2> QED
    BY <1>3, <2>1 DEF PhaseInv
<1>10. \A z \in allocated : pc[z] \in Told \cup {"wake"} =>
            z # t /\ parent[z] # t /\ parent[z] \in AllTasks
  <2>1. SUFFICES ASSUME NEW z \in allocated, pc[z] \in Told \cup {"wake"}
                 PROVE  z # t /\ parent[z] # t /\ parent[z] \in AllTasks
    OBVIOUS
  <2>2. state[z] = ZOMBIE
    BY <2>1 DEF IInv, PhaseInv, ExitPoints, Told, Linking
  <2>3. parent[z] # t
    BY <1>3, <2>2, Basics, InitTaskAssumption DEF IInv, FamilyInv
  <2> QED
    BY <2>1, <2>3, Basics DEF IInv, FamilyInv, Told, Linking
<1>11. WaitInv'
  <2>1. wait_childexit'[InitTask] = <<>>
    BY <1>4, Basics DEF IInv, WaitInv
  <2>2. \A u \in allocated : wait_childexit'[u] # <<>> =>
            wait_childexit'[u] = <<u>> /\ state'[u] = INTERRUPTIBLE
    BY <1>4, Basics DEF IInv, WaitInv
  <2>3. ASSUME NEW u \in allocated, state'[u] = INTERRUPTIBLE, wait_childexit'[u] = <<>>
        PROVE  pc'[local'[u].child] = "wake"
    <3>1. u # t /\ state[u] = INTERRUPTIBLE /\ wait_childexit[u] = <<>>
      <4>1. u # t
        BY <1>4, <2>3
      <4> QED
        BY <1>4, <2>3, <4>1, Basics
    <3>2. pc[local[u].child] = "wake" /\ local[u].child \in allocated
      BY <3>1 DEF IInv, WaitInv, PhaseInv
    <3> QED
      BY <1>4, <1>10, <3>1, <3>2, Basics
  <2>4. \A z \in allocated : pc'[z] = "wake" => /\ local'[z].tsk = parent[z]
                                                /\ state'[parent[z]] = INTERRUPTIBLE
                                                /\ wait_childexit'[parent[z]] = <<>>
    BY <1>4, <1>10, Basics DEF IInv, WaitInv
  <2>5. \A z \in allocated : pc'[z] \in Told => state'[parent[z]] # INTERRUPTIBLE
    BY <1>4, <1>10, Basics DEF IInv, WaitInv, Told, Linking
  <2> QED
    BY <1>3, <2>1, <2>2, <2>3, <2>4, <2>5 DEF WaitInv, Told, Linking
<1> QED
  BY <1>5, <1>6, <1>h, <1>7, <1>8, <1>9, <1>11 DEF IInv

\* Copying the exit code and unlinking the child.
LEMMA CopyTypes ==
    ASSUME IInv, NEW t \in Tasks, NEW child \in Tasks, NEW tsk \in AllTasks,
           status' = [status EXCEPT ![t] = exit_code[child]],
           next' = [next EXCEPT ![tsk] = next[child]]
    PROVE  next' \in [AllTasks -> AllTasks] /\ status' \in [Tasks -> Int]
<1>1. next \in [AllTasks -> AllTasks] /\ next[child] \in AllTasks
  BY Basics DEF IInv, TypeOK
<1>2. status \in [Tasks -> Int] /\ exit_code[child] \in Int
  BY DEF IInv, TypeOK
<1>3. next' \in [AllTasks -> AllTasks]
  BY <1>1
<1>4. status' \in [Tasks -> Int]
  BY <1>2
<1> QED
  BY <1>3, <1>4

LEMMA Wait4IInv ==
    ASSUME IInv, Sequential, NEW t \in Tasks, NEW child \in Tasks, sys_wait4(t, child)
    PROVE  IInv'
<1>1. /\ current = t /\ pc[t] = "user"
      /\ child \in allocated /\ parent[child] = t
  BY DEF sys_wait4, InUser, Children
<1>2. PICK tsk \in AllTasks : wait4_zombie(t, child, tsk) \/ wait4_sleep(t, child, tsk)
  BY DEF sys_wait4
<1>3. CASE wait4_sleep(t, child, tsk)
  BY <1>1, <1>3, SleepIInv
<1>4. CASE wait4_zombie(t, child, tsk)
  <2>1. /\ state[child] = ZOMBIE
        /\ status' = [status EXCEPT ![t] = exit_code[child]]
        /\ next' = [next EXCEPT ![tsk] = next[child]]
        /\ allocated' = allocated \ {child}
        /\ UNCHANGED <<schedVars, parent, wait_childexit, exit_code, pc, local, cut>>
    BY <1>4 DEF wait4_zombie, Exited, kfree_task
  <2>2. pc' = [pc EXCEPT ![t] = "user"]
    BY <1>1, <2>1 DEF IInv, TypeOK
  <2>3. next' \in [AllTasks -> AllTasks] /\ status' \in [Tasks -> Int]
    BY <2>1, CopyTypes
  <2>4. local' \in [Tasks -> [child : Tasks, tsk : AllTasks]]
        /\ \A u \in Tasks \ {t} : local'[u] = local[u]
    BY <2>1 DEF IInv, TypeOK
  <2>5. pc[t] \notin ExitPoints
    BY <1>1 DEF ExitPoints
  <2> QED
    BY <1>1, <2>1, <2>2, <2>3, <2>4, <2>5, FreeIInv
<1> QED
  BY <1>2, <1>3, <1>4

LEMMA CopyIInv ==
    ASSUME IInv, NEW t \in Tasks, wait4_copy(t)
    PROVE  IInv'
<1>1. /\ current = t /\ pc[t] = "copy" /\ t \in allocated /\ state[t] # INTERRUPTIBLE
      /\ local[t].child \in Tasks /\ local[t].tsk \in AllTasks
  BY Basics DEF wait4_copy, IInv, SchedInv, TypeOK
<1>2. /\ status' = [status EXCEPT ![t] = exit_code[local[t].child]]
      /\ next' = [next EXCEPT ![local[t].tsk] = next[local[t].child]]
      /\ pc' = [pc EXCEPT ![t] = "reap"]
      /\ UNCHANGED <<current, task_schedule, state, vrun_time>>
      /\ UNCHANGED <<allocated, parent, wait_childexit, exit_code, local, cut>>
  BY DEF wait4_copy, schedVars
<1>3. /\ \A u \in Tasks \ {t} : pc'[u] = pc[u]
      /\ pc'[t] = "reap"
  BY <1>2 DEF IInv, TypeOK
<1>4. TypeOK'
  <2>1. next' \in [AllTasks -> AllTasks] /\ status' \in [Tasks -> Int]
    BY <1>1, <1>2, CopyTypes
  <2>2. pc' \in [Tasks -> Points]
    BY <1>2 DEF IInv, TypeOK, Points
  <2> QED
    BY <1>2, <2>1, <2>2 DEF IInv, TypeOK
<1>h. HandInv' /\ Unlinked' = Unlinked
  <2>1. \A z \in allocated : pc'[z] \in Linking <=> pc[z] \in Linking
    BY <1>1, <1>3, Basics DEF Linking
  <2>2. \A u \in allocated : u # current => pc'[u] = pc[u]
    BY <1>1, <1>3, Basics
  <2> QED
    BY <1>2, <2>1, <2>2, HandStays
<1>5. SchedInv' /\ FamilyInv'
  <2>1. SchedInv /\ FamilyInv
    BY DEF IInv
  <2>2. PICK n \in Int : n = cut + Uncounted
    BY Basics
  <2>3. cut' + Uncounted' = n
    BY <1>1, <1>2, <1>3, <2>2, CountStays
  <2> QED
    BY <1>2, <1>h, <2>1, <2>2, <2>3 DEF SchedInv, FamilyInv, RunQueueOK, NoRunnableLost, WellFormed, Queued
<1>6. PhaseInv'
  BY <1>1, <1>2, <1>3, Basics DEF IInv, PhaseInv, ExitPoints
<1>7. WaitInv'
  <2>1. ASSUME NEW u \in allocated, state[u] = INTERRUPTIBLE, wait_childexit[u] = <<>>
        PROVE  pc'[local[u].child] = "wake"
    <3>1. pc[local[u].child] = "wake" /\ local[u].child \in allocated
      BY <2>1 DEF IInv, WaitInv, PhaseInv
    <3> QED
      BY <1>1, <1>3, <3>1, Basics
  <2>2. \A z \in allocated : pc'[z] \in Told \cup {"wake"} => pc'[z] = pc[z]
    BY <1>3, Basics DEF Told, Linking
  <2> QED
    BY <1>2, <2>1, <2>2 DEF IInv, WaitInv, Told, Linking
<1> QED
  BY <1>4, <1>h, <1>5, <1>6, <1>7 DEF IInv

LEMMA ReapIInv ==
    ASSUME IInv, NEW t \in Tasks, wait4_reap(t)
    PROVE  IInv'
<1>1. /\ current = t /\ pc[t] = "reap" /\ t \in allocated /\ state[t] # INTERRUPTIBLE
  BY Basics DEF wait4_reap, IInv, SchedInv
<1>2. /\ allocated' = allocated \ {local[t].child}
      /\ pc' = [pc EXCEPT ![t] = "user"]
      /\ local' = [local EXCEPT ![t] = NoLocal(t)]
      /\ UNCHANGED <<schedVars, parent, next, wait_childexit, exit_code, status, cut>>
  BY DEF wait4_reap, kfree_task
<1>3. /\ local[t].child \in allocated /\ parent[local[t].child] = t
      /\ state[local[t].child] = ZOMBIE
  BY <1>1 DEF IInv, PhaseInv
<1>4. pc[t] \notin ExitPoints
  BY <1>1 DEF ExitPoints
<1>5. local' \in [Tasks -> [child : Tasks, tsk : AllTasks]]
      /\ \A u \in Tasks \ {t} : local'[u] = local[u]
  <2>1. NoLocal(t) \in [child : Tasks, tsk : AllTasks]
    BY Basics DEF NoLocal
  <2> QED
    BY <1>2, <2>1 DEF IInv, TypeOK
<1>6. next' \in [AllTasks -> AllTasks] /\ status' \in [Tasks -> Int]
  BY <1>2 DEF IInv, TypeOK
<1> QED
  BY <1>1, <1>2, <1>3, <1>4, <1>5, <1>6, FreeIInv

-----------------------------------------------------------------------------
(* The theorems.                                                           *)

LEMMA InitIInv == Init => IInv
<1> SUFFICES ASSUME Init PROVE IInv
  OBVIOUS
<1>1. PICK first \in Tasks :
        /\ current = InitTask
        /\ task_schedule = [EmptySchedule EXCEPT !.task_queue = <<first>>,
                                                 !.running_task_count = 2]
        /\ state = [t \in AllTasks |-> RUNNING]
        /\ vrun_time = [t \in AllTasks |-> 0]
        /\ allocated = {first}
        /\ parent = [t \in AllTasks |-> InitTask]
        /\ next = [t \in AllTasks |-> IF t = InitTask THEN first ELSE InitTask]
        /\ wait_childexit = [t \in AllTasks |-> <<>>]
        /\ exit_code = [t \in Tasks |-> 0]
        /\ pc = [t \in Tasks |-> "user"]
        /\ local = [t \in Tasks |-> NoLocal(t)]
        /\ status = [t \in Tasks |-> NoStatus]
        /\ cut = 0
  BY Zenon DEF Init
<1>2. task_schedule = [task_queue |-> <<first>>, running_task_count |-> 2,
                       CPU_exec_task_jiffies |-> 4]
  BY <1>1 DEF EmptySchedule
<1>3. task_schedule \in ScheduleType /\ Queued(task_schedule) = {first}
      /\ WellFormed(task_schedule, vrun_time, 0)
  BY <1>2 DEF ScheduleType, Queued, WellFormed
<1>4. InitTask \notin Tasks /\ InitTask \in AllTasks /\ Tasks \subseteq AllTasks
  BY InitTaskAssumption DEF AllTasks
<1>5. TypeOK
  <2>1. local \in [Tasks -> [child : Tasks, tsk : AllTasks]]
    BY <1>1, <1>4 DEF NoLocal
  <2>2. wait_childexit \in [AllTasks -> Seq(Tasks)]
    BY <1>1
  <2>3. state \in [AllTasks -> TaskStates] /\ vrun_time \in [AllTasks -> Nat]
    BY <1>1 DEF TaskStates
  <2>4. next \in [AllTasks -> AllTasks] /\ parent \in [AllTasks -> AllTasks]
    BY <1>1, <1>4
  <2>5. pc \in [Tasks -> Points] /\ exit_code \in [Tasks -> Nat] /\ status \in [Tasks -> Int]
    BY <1>1 DEF Points, NoStatus
  <2> QED
    BY <1>1, <1>3, <1>4, <2>1, <2>2, <2>3, <2>4, <2>5, Zenon DEF TypeOK
<1>c. cut + Uncounted = 0 /\ cut \in Nat
  BY <1>1, <1>4 DEF Uncounted
<1>h. HandInv /\ Unlinked = {}
  <2>1. \A z \in allocated : pc[z] \notin Linking
    BY <1>1 DEF Linking
  <2> QED
    BY <2>1 DEF HandInv, Unlinked
<1>6. SchedInv
  <2>1. RunQueueOK
    BY <1>1, <1>3, <1>4, <1>c DEF RunQueueOK
  <2>2. NoRunnableLost
    BY <1>1, <1>3, <1>4, <1>h DEF NoRunnableLost
  <2> QED
    BY <1>1, <1>4, <2>1, <2>2 DEF SchedInv, RUNNING, INTERRUPTIBLE
<1>7. FamilyInv
  BY <1>1, <1>4 DEF FamilyInv, RUNNING, ZOMBIE
<1>8. PhaseInv
  BY <1>1, <1>4 DEF PhaseInv, ExitPoints, RUNNING, ZOMBIE, INTERRUPTIBLE
<1>9. WaitInv
  BY <1>1, <1>4 DEF WaitInv, Told, Linking, RUNNING, INTERRUPTIBLE
<1> QED
  BY <1>5, <1>h, <1>6, <1>7, <1>8, <1>9 DEF IInv

\* The steps that only move the CPU, all of them.
LEMMA DispatchRuns ==
    ASSUME IInv, irq \/ tick_irq \/ \E t \in Tasks : exit_schedule(t)
    PROVE  IInv' /\ state[current'] = RUNNING
<1>1. vrun_time \in [AllTasks -> Nat]
  BY DEF IInv, TypeOK
<1>2. CASE irq \/ \E t \in Tasks : exit_schedule(t)
  <2>1. /\ schedule(task_schedule, state, vrun_time)
        /\ UNCHANGED <<state, vrun_time, allocated, parent, next, wait_childexit,
                       exit_code, pc, local, status>>
    BY <1>2 DEF irq, exit_schedule
  <2>2. cut' = cut + Uncounted
    <3>1. CASE irq
      BY <3>1 DEF irq, interrupt
    <3>2. CASE \E t \in Tasks : exit_schedule(t)
      <4>1. cut' = cut /\ Uncounted = 0
        BY <3>2 DEF exit_schedule, Uncounted
      <4> QED
        BY <4>1 DEF IInv, TypeOK
    <3> QED
      BY <1>2, <3>1, <3>2
  <2> QED
    BY <1>1, <2>1, <2>2, Basics, DispatchIInv
<1>3. CASE tick_irq
  <2>1. PICK v : v = [vrun_time EXCEPT ![current] = @ + 2]
    OBVIOUS
  <2>2. v \in [AllTasks -> Nat] /\ \A t \in AllTasks \ {current} : v[t] = vrun_time[t]
    BY <1>1, <2>1, Basics
  <2>3. PICK ts : ts = tick_charge(task_schedule)
    OBVIOUS
  <2>4. /\ ts \in ScheduleType
        /\ ts.task_queue = task_schedule.task_queue
        /\ ts.running_task_count = task_schedule.running_task_count
    BY <2>3, Basics DEF tick_charge, ScheduleType
  <2>5. /\ schedule(ts, state, v) /\ vrun_time' = v /\ cut' = cut + Uncounted
        /\ UNCHANGED <<state, allocated, parent, next, wait_childexit, exit_code,
                       pc, local, status>>
    BY <1>3, <2>1, <2>3 DEF tick_irq, interrupt
  <2> QED
    BY <2>2, <2>4, <2>5, DispatchIInv
<1> QED
  BY <1>2, <1>3

LEMMA NextIInv ==
    ASSUME Sequential
    PROVE  IInv /\ [Next]_vars => IInv'
<1> SUFFICES ASSUME IInv, [Next]_vars PROVE IInv'
  OBVIOUS
<1>1. ASSUME NEW t \in Tasks, NEW tsk \in Tasks, do_fork(t, tsk) PROVE IInv'
  BY <1>1, ForkIInv
<1>2. ASSUME NEW t \in Tasks, NEW code \in ExitCodes, do_exit(t, code) PROVE IInv'
  BY <1>2, ExitIInv
<1>3. ASSUME NEW t \in Tasks, exit_notify(t) PROVE IInv'
  BY <1>3, NotifyIInv
<1>4. ASSUME NEW t \in Tasks, exit_wakeup(t) PROVE IInv'
  BY <1>4, WakeupIInv
<1>l. ASSUME NEW t \in Tasks, exit_link(t) PROVE IInv'
  BY <1>l, LinkIInv
<1>c. ASSUME NEW t \in Tasks, exit_count(t) PROVE IInv'
  BY <1>c, CountIInv
<1>t. ASSUME NEW t \in Tasks, irq_tears_link(t) PROVE IInv'
  BY <1>t, TearIInv
<1>5. ASSUME NEW t \in Tasks, NEW child \in Tasks, sys_wait4(t, child) PROVE IInv'
  BY <1>5, Wait4IInv
<1>6. ASSUME NEW t \in Tasks, wait4_copy(t) PROVE IInv'
  BY <1>6, CopyIInv
<1>7. ASSUME NEW t \in Tasks, wait4_reap(t) PROVE IInv'
  BY <1>7, ReapIInv
<1>8. CASE irq \/ tick_irq \/ \E t \in Tasks : exit_schedule(t)
  BY <1>8, DispatchRuns
<1>9. CASE UNCHANGED vars
  BY <1>9 DEF vars, IInv, TypeOK, SchedInv, FamilyInv, PhaseInv, WaitInv, HandInv,
               RunQueueOK, NoRunnableLost, WellFormed, Queued, Unlinked, Uncounted,
               Told, Linking
<1> QED
  BY <1>1, <1>2, <1>3, <1>4, <1>l, <1>c, <1>t, <1>5, <1>6, <1>7, <1>8, <1>9 DEF Next

\* The invariant holds for ever, in programs that wait for each child in turn.
THEOREM Invariance ==
    ASSUME Sequential
    PROVE  Spec => []IInv
BY InitIInv, NextIInv, PTL DEF Spec

\* Every variable keeps the type of the C object it stands for.
THEOREM TaskTypes ==
    ASSUME Sequential
    PROVE  Spec => []TypeOK
<1>1. IInv => TypeOK
  BY DEF IInv
<1> QED
  BY <1>1, Invariance, PTL

\* The run queue stays sorted and free of repetition, what is in it can run,
\* and its count is too low by one for each exit that an interrupt has ended
\* between link and count, and by nothing else that sleeps, exits, forks and
\* interrupts in any order can do.
THEOREM RunQueueStaysOK ==
    ASSUME Sequential
    PROVE  Spec => []RunQueueOK
<1>1. IInv => RunQueueOK
  BY DEF IInv, SchedInv
<1> QED
  BY <1>1, Invariance, PTL

\* A runnable task is on the CPU, in the queue or with the exit that is waking
\* it.  So what an interrupt can lose is the parent of the task whose exit it
\* ends between the state and the link, and never another task.
THEOREM NobodyForgotten ==
    ASSUME Sequential
    PROVE  Spec => []NoRunnableLost
<1>1. IInv => NoRunnableLost
  BY DEF IInv, SchedInv
<1> QED
  BY <1>1, Invariance, PTL

\* No task_struct is used after it has been freed.
THEOREM NothingUsedAfterFree ==
    ASSUME Sequential
    PROVE  Spec => []NoUseAfterFree
<1>1. IInv => NoUseAfterFree
  BY DEF IInv, SchedInv, FamilyInv, PhaseInv, NoUseAfterFree
<1> QED
  BY <1>1, Invariance, PTL

\* A parent sleeps past the exit of its child only while that child is inside
\* exit_notify().
THEOREM WakeupLostInOneWayOnly ==
    ASSUME Sequential
    PROVE  Spec => []SleepsOnlyUntilNotified
<1>1. IInv => SleepsOnlyUntilNotified
  <2> SUFFICES ASSUME IInv, NEW t \in allocated, state[t] = INTERRUPTIBLE,
                      state[local[t].child] = ZOMBIE
               PROVE  pc[local[t].child] \in {"notify", "wake"}
    BY DEF SleepsOnlyUntilNotified
  <2>1. local[t].child \in allocated /\ parent[local[t].child] = t
    BY DEF IInv, PhaseInv
  <2>2. pc[local[t].child] \in ExitPoints
    BY <2>1 DEF IInv, PhaseInv
  <2>3. pc[local[t].child] \notin Told
    BY <2>1 DEF IInv, WaitInv
  <2> QED
    BY <2>2, <2>3 DEF ExitPoints, Told, Linking
<1> QED
  BY <1>1, Invariance, PTL

\* wait4 frees nothing but a child of the caller that has exited.
THEOREM OnlyZombiesAreReaped ==
    ASSUME Sequential
    PROVE  Spec => ReapsOnlyZombies
<1>1. ASSUME IInv, [Next]_vars
      PROVE  [\A c \in allocated \ allocated' : state[c] = ZOMBIE /\ parent[c] = current]_vars
  <2>1. SUFFICES ASSUME Next, NEW c \in allocated \ allocated'
                 PROVE  state[c] = ZOMBIE /\ parent[c] = current
    BY <1>1
  <2>2. CASE \E t, child \in Tasks : sys_wait4(t, child)
    <3>1. PICK t \in Tasks, child \in Tasks : sys_wait4(t, child)
      BY <2>2
    <3>2. current = t /\ parent[child] = t
      BY <3>1 DEF sys_wait4, InUser, Children
    <3>3. PICK tsk \in AllTasks : wait4_zombie(t, child, tsk) \/ wait4_sleep(t, child, tsk)
      BY <3>1 DEF sys_wait4
    <3> QED
      BY <2>1, <3>2, <3>3 DEF wait4_zombie, wait4_sleep, Exited, kfree_task
  <2>3. CASE \E t \in Tasks : wait4_reap(t)
    <3>1. PICK t \in Tasks : wait4_reap(t)
      BY <2>3
    <3>2. current = t /\ pc[t] = "reap" /\ c = local[t].child
      BY <2>1, <3>1 DEF wait4_reap, kfree_task
    <3>3. t \in allocated /\ state[t] # INTERRUPTIBLE
      BY <1>1, <3>2, Basics DEF IInv, SchedInv
    <3> QED
      BY <1>1, <3>2, <3>3 DEF IInv, PhaseInv
  <2>4. CASE ~((\E t, child \in Tasks : sys_wait4(t, child)) \/ \E t \in Tasks : wait4_reap(t))
    <3>1. allocated \subseteq allocated'
      BY <2>1, <2>4 DEF Next, do_fork, do_exit, exit_notify, exit_wakeup, exit_link,
                        exit_count, exit_schedule, irq_tears_link, wait4_copy, irq, tick_irq
    <3> QED
      BY <2>1, <3>1
  <2> QED
    BY <2>2, <2>3, <2>4
<1> QED
  BY <1>1, Invariance, PTL DEF Spec, ReapsOnlyZombies

\* wait4 returns the status of a child that has exited, as sys/wait.h says:
\* what refutes it in general is the exit of a second child.
THEOREM WaitsHangUntilStatus ==
    ASSUME Sequential
    PROVE  Spec => WaitHangsUntilStatus
<1>1. ASSUME IInv, [Next]_vars
      PROVE  [\A t \in Tasks :
                pc[t] = "copy" /\ pc'[t] = "reap" /\ parent[local[t].child] = t
                    => state[local[t].child] = ZOMBIE]_vars
  <2>1. SUFFICES ASSUME Next, NEW t \in Tasks, pc[t] = "copy", pc'[t] = "reap"
                 PROVE  state[local[t].child] = ZOMBIE
    BY <1>1
  <2>2. wait4_copy(t)
    <3>1. ASSUME NEW u \in Tasks, NEW point \in Points \ {"reap"}, pc' = [pc EXCEPT ![u] = point]
          PROVE  FALSE
      BY <1>1, <2>1, <3>1 DEF IInv, TypeOK
    <3>2. pc' # pc
      BY <2>1
    <3>3. PICK u \in Tasks : wait4_copy(u)
      <4>1. ASSUME NEW u \in Tasks, wait4_reap(u) \/ exit_notify(u) \/ exit_wakeup(u) \/ exit_schedule(u)
            PROVE  FALSE
        BY <3>1, <3>2, <4>1 DEF exit_notify, exit_wakeup, exit_schedule, wait4_reap, Points, ExitPoints
      <4>5. ASSUME NEW u \in Tasks, exit_link(u) \/ exit_count(u) \/ irq_tears_link(u)
            PROVE  FALSE
        BY <3>1, <4>5 DEF exit_link, exit_count, irq_tears_link, Points, ExitPoints
      <4>2. ASSUME NEW u \in Tasks, NEW child \in Tasks, sys_wait4(u, child) \/ do_fork(u, child)
            PROVE  FALSE
        BY <3>1, <3>2, <4>2 DEF sys_wait4, wait4_zombie, wait4_sleep, do_fork, Points
      <4>3. ASSUME NEW u \in Tasks, NEW code \in ExitCodes, do_exit(u, code)
            PROVE  FALSE
        BY <3>1, <4>3 DEF do_exit, Points, ExitPoints
      <4>4. ASSUME irq \/ tick_irq PROVE FALSE
        BY <3>2, <4>4 DEF irq, tick_irq
      <4> QED
        BY <2>1, <4>1, <4>2, <4>3, <4>4, <4>5 DEF Next
    <3>4. u = t
      BY <1>1, <2>1, <3>3 DEF wait4_copy, IInv, TypeOK
    <3> QED
      BY <3>3, <3>4
  <2>3. t \in allocated /\ state[t] # INTERRUPTIBLE
    BY <1>1, <2>2, Basics DEF wait4_copy, IInv, SchedInv
  <2> QED
    BY <1>1, <2>1, <2>3 DEF IInv, PhaseInv
<1> QED
  BY <1>1, Invariance, PTL DEF Spec, WaitHangsUntilStatus

-----------------------------------------------------------------------------
(***************************************************************************)
(* fork, exit and wait4 implement Lifecycle, for any number of blocks: a   *)
(* step of Tasks is a step of Lifecycle or changes nothing it shows.       *)
(***************************************************************************)
\* What Lifecycle sees of a task.
LEMMA PhaseOf ==
    ASSUME IInv, NEW t \in Tasks
    PROVE  /\ phase[t] = "absent" <=> t \notin allocated
           /\ phase[t] = "exited" <=> t \in allocated /\ state[t] = ZOMBIE
           /\ phase[t] = "waiting" <=> t \in allocated /\ state[t] = INTERRUPTIBLE
           /\ phase[t] = "woken" <=>
                t \in allocated /\ state[t] = RUNNING /\ pc[t] \in {"copy", "reap"}
           /\ phase[t] = "ready" <=>
                t \in allocated /\ state[t] = RUNNING /\ pc[t] = "user"
<1>1. state[t] \in {RUNNING, INTERRUPTIBLE, ZOMBIE} /\ pc[t] \in Points
  BY Basics DEF IInv, TypeOK, TaskStates
<1>2. t \in allocated /\ state[t] = RUNNING => pc[t] \in {"user", "copy", "reap"}
  BY <1>1 DEF IInv, PhaseInv, Points, RUNNING, ZOMBIE
<1> QED
  BY <1>1, <1>2 DEF phase, RUNNING, ZOMBIE, INTERRUPTIBLE

LEMMA PhaseIsFunction ==
    /\ phase = [t \in Tasks |-> phase[t]]
    /\ phase' = [t \in Tasks |-> phase'[t]]
BY DEF phase

\* The phase of a task depends on its block, state and place in the kernel.
LEMMA PhaseSame ==
    ASSUME NEW t \in Tasks, t \in allocated' <=> t \in allocated,
           state'[t] = state[t],
           pc'[t] = pc[t] \/ (pc[t] \in ExitPoints /\ pc'[t] \in ExitPoints)
                          \/ {pc[t], pc'[t]} \subseteq {"copy", "reap"}
    PROVE  phase'[t] = phase[t]
BY DEF phase, ExitPoints

LEMMA DispatchRefines ==
    ASSUME IInv, IInv', state'[current'] = RUNNING,
           UNCHANGED <<state, allocated, parent, pc>>
    PROVE  L!Dispatch
<1>1. phase' = phase
  BY DEF phase
<1>2. current' = InitTask \/ (current' \in allocated /\ current' \in Tasks)
  BY Basics DEF IInv, SchedInv
<1>3. current' \in Tasks => phase[current'] \in {"ready", "woken"}
  <2>1. SUFFICES ASSUME current' \in Tasks PROVE phase[current'] \in {"ready", "woken"}
    OBVIOUS
  <2>2. PICK t \in Tasks : t = current'
    BY <2>1
  <2>3. t \in allocated /\ state[t] = RUNNING
    BY <1>2, <2>2, InitTaskAssumption
  <2>4. pc[t] \in {"user", "copy", "reap"}
    <3>1. pc[t] \in Points
      BY DEF IInv, TypeOK
    <3> QED
      BY <2>3, <3>1 DEF IInv, PhaseInv, Points, RUNNING, ZOMBIE
  <2> QED
    BY <2>2, <2>3, <2>4, PhaseOf
<1> QED
  BY <1>1, <1>2, <1>3 DEF L!Dispatch, L!Runnable

LEMMA ForkRefines ==
    ASSUME IInv, NEW t \in Tasks, NEW tsk \in Tasks, do_fork(t, tsk)
    PROVE  L!Fork(t, tsk)
<1>1. /\ current = t /\ pc[t] = "user" /\ tsk \notin allocated
      /\ allocated' = allocated \cup {tsk}
      /\ parent' = [parent EXCEPT ![tsk] = t]
      /\ state' = [state EXCEPT ![tsk] = RUNNING]
      /\ pc' = [pc EXCEPT ![tsk] = "user"]
      /\ UNCHANGED current
  BY DEF do_fork, InUser
<1>2. phase[t] = "ready" /\ phase[tsk] = "absent"
  BY <1>1, UserIsRunning, PhaseOf
<1>3. \A u \in Tasks \ {tsk} : phase'[u] = phase[u]
  <2>1. SUFFICES ASSUME NEW u \in Tasks \ {tsk} PROVE phase'[u] = phase[u]
    OBVIOUS
  <2>2. state'[u] = state[u] /\ pc'[u] = pc[u] /\ (u \in allocated' <=> u \in allocated)
    BY <1>1, Basics DEF IInv, TypeOK
  <2> QED
    BY <2>2, PhaseSame
<1>4. phase'[tsk] = "ready"
  <2>1. tsk \in allocated' /\ state'[tsk] = RUNNING /\ pc'[tsk] = "user"
    BY <1>1, Basics DEF IInv, TypeOK
  <2> QED
    BY <2>1 DEF phase, RUNNING, ZOMBIE, INTERRUPTIBLE
<1>5. phase' = [phase EXCEPT ![tsk] = "ready"]
  BY <1>3, <1>4, PhaseIsFunction
<1> QED
  BY <1>1, <1>2, <1>5 DEF L!Fork

LEMMA ExitRefines ==
    ASSUME IInv, Sequential, NEW t \in Tasks, NEW code \in ExitCodes, do_exit(t, code)
    PROVE  L!Exit(t)
<1>1. /\ current = t /\ pc[t] = "user"
      /\ \A c \in allocated : parent[c] # t
      /\ state' = [state EXCEPT ![t] = ZOMBIE]
      /\ pc' = [pc EXCEPT ![t] = "notify"]
      /\ UNCHANGED <<current, allocated, parent>>
  BY DEF do_exit, InUser, Children
<1>2. phase[t] = "ready" /\ t \in allocated
  BY <1>1, UserIsRunning, PhaseOf
<1>3. \A c \in Tasks : phase[c] # "absent" => parent[c] # t
  BY <1>1, PhaseOf
<1>4. \A u \in Tasks \ {t} : phase'[u] = phase[u]
  <2>1. SUFFICES ASSUME NEW u \in Tasks \ {t} PROVE phase'[u] = phase[u]
    OBVIOUS
  <2>2. state'[u] = state[u] /\ pc'[u] = pc[u] /\ (u \in allocated' <=> u \in allocated)
    BY <1>1, Basics DEF IInv, TypeOK
  <2> QED
    BY <2>2, PhaseSame
<1>5. phase'[t] = "exited"
  <2>1. t \in allocated' /\ state'[t] = ZOMBIE
    BY <1>1, <1>2, Basics DEF IInv, TypeOK
  <2> QED
    BY <2>1 DEF phase, RUNNING, ZOMBIE, INTERRUPTIBLE
<1>6. phase' = [phase EXCEPT ![t] = "exited"]
  BY <1>4, <1>5, PhaseIsFunction
<1> QED
  BY <1>1, <1>2, <1>3, <1>6 DEF L!Exit

LEMMA NotifyStutters ==
    ASSUME IInv, NEW t \in Tasks, exit_notify(t)
    PROVE  UNCHANGED L!vars
<1>1. /\ current = t /\ pc[t] = "notify"
      /\ UNCHANGED <<current, state, allocated, parent>>
      /\ pc' = [pc EXCEPT ![t] = "wake"] \/ pc' = [pc EXCEPT ![t] = "schedule"]
  BY DEF exit_notify, schedVars
<1>2. \A u \in Tasks : phase'[u] = phase[u]
  <2>1. SUFFICES ASSUME NEW u \in Tasks PROVE phase'[u] = phase[u]
    OBVIOUS
  <2>2. pc'[u] = pc[u] \/ (pc[u] \in ExitPoints /\ pc'[u] \in ExitPoints)
    BY <1>1 DEF IInv, TypeOK, ExitPoints
  <2> QED
    BY <1>1, <2>2, PhaseSame
<1>3. phase' = phase
  BY <1>2 DEF phase
<1> QED
  BY <1>1, <1>3 DEF L!vars

\* Link and count are no matter of Lifecycle.
LEMMA LinkStutters ==
    ASSUME IInv, NEW t \in Tasks, exit_link(t) \/ exit_count(t) \/ irq_tears_link(t)
    PROVE  UNCHANGED L!vars
<1>1. /\ pc[t] \in ExitPoints
      /\ UNCHANGED <<current, state, allocated, parent>>
      /\ \E point \in ExitPoints : pc' = [pc EXCEPT ![t] = point]
  BY DEF exit_link, exit_count, irq_tears_link, schedVars, ExitPoints
<1>2. \A u \in Tasks : phase'[u] = phase[u]
  <2>1. SUFFICES ASSUME NEW u \in Tasks PROVE phase'[u] = phase[u]
    OBVIOUS
  <2>2. pc'[u] = pc[u] \/ (pc[u] \in ExitPoints /\ pc'[u] \in ExitPoints)
    BY <1>1 DEF IInv, TypeOK
  <2> QED
    BY <1>1, <2>2, PhaseSame
<1>3. phase' = phase
  BY <1>2 DEF phase
<1> QED
  BY <1>1, <1>3 DEF L!vars

LEMMA WakeupRefines ==
    ASSUME IInv, NEW t \in Tasks, exit_wakeup(t)
    PROVE  L!Notify(t)
<1> DEFINE p == parent[t]
<1>1. /\ current = t /\ pc[t] = "wake" /\ t \in allocated /\ local[t].tsk = p
      /\ state[p] = INTERRUPTIBLE /\ state[t] = ZOMBIE
  <2>1. current = t /\ pc[t] = "wake" /\ t \in allocated
    BY Basics DEF exit_wakeup
  <2> QED
    BY <2>1 DEF IInv, WaitInv, PhaseInv, ExitPoints
<1>2. p \in allocated /\ p \in Tasks /\ pc[p] = "copy" /\ p # t
  BY <1>1, ChildOfSleeper, Basics DEF ZOMBIE, INTERRUPTIBLE
<1>3. /\ state' = [state EXCEPT ![p] = RUNNING]
      /\ pc' = [pc EXCEPT ![t] = "link"]
      /\ UNCHANGED <<current, allocated, parent>>
  BY <1>1 DEF exit_wakeup
<1>4. phase[t] = "exited" /\ phase[p] = "waiting"
  BY <1>1, <1>2, PhaseOf
<1>5. \A u \in Tasks \ {p} : phase'[u] = phase[u]
  <2>1. SUFFICES ASSUME NEW u \in Tasks \ {p} PROVE phase'[u] = phase[u]
    OBVIOUS
  <2>2. state'[u] = state[u]
    BY <1>3, Basics DEF IInv, TypeOK
  <2>3. pc'[u] = pc[u] \/ (pc[u] \in ExitPoints /\ pc'[u] \in ExitPoints)
    BY <1>1, <1>3 DEF IInv, TypeOK, ExitPoints
  <2> QED
    BY <1>3, <2>2, <2>3, PhaseSame
<1>6. phase'[p] = "woken"
  <2>1. p \in allocated' /\ state'[p] = RUNNING /\ pc'[p] = "copy"
    BY <1>2, <1>3, Basics DEF IInv, TypeOK
  <2> QED
    BY <1>2, <2>1 DEF phase, RUNNING, ZOMBIE, INTERRUPTIBLE
<1>7. phase' = [phase EXCEPT ![p] = "woken"]
  BY <1>5, <1>6, PhaseIsFunction
<1> QED
  BY <1>1, <1>2, <1>3, <1>4, <1>7 DEF L!Notify

\* Both ends of a wait, at once or after a sleep.
LEMMA FreeRefines ==
    ASSUME IInv, NEW t \in Tasks, NEW child \in allocated,
           current = t, pc[t] \in {"user", "copy", "reap"},
           parent[child] = t, state[child] = ZOMBIE,
           allocated' = allocated \ {child},
           pc' = [pc EXCEPT ![t] = "user"],
           UNCHANGED <<current, state, parent>>
    PROVE  L!Reap(t, child)
<1>1. /\ t \in allocated /\ child # t /\ child \in Tasks /\ state[t] = RUNNING
  <2>1. t \in allocated /\ child \in Tasks
    BY Basics
  <2>2. child # t /\ state[t] # ZOMBIE
    BY <2>1 DEF IInv, FamilyInv, PhaseInv, ExitPoints
  <2>3. state[t] # INTERRUPTIBLE /\ state[t] \in {RUNNING, INTERRUPTIBLE, ZOMBIE}
    BY Basics DEF IInv, SchedInv, TypeOK, TaskStates
  <2> QED
    BY <2>1, <2>2, <2>3
<1>2. phase[t] \in {"ready", "woken"} /\ phase[child] = "exited"
  BY <1>1, PhaseOf
<1>3. \A u \in Tasks \ {t, child} : phase'[u] = phase[u]
  <2>1. SUFFICES ASSUME NEW u \in Tasks \ {t, child} PROVE phase'[u] = phase[u]
    OBVIOUS
  <2>2. pc'[u] = pc[u] /\ (u \in allocated' <=> u \in allocated)
    BY DEF IInv, TypeOK
  <2> QED
    BY <2>2, PhaseSame
<1>4. phase'[t] = "ready" /\ phase'[child] = "absent"
  <2>1. t \in allocated' /\ state'[t] = RUNNING /\ pc'[t] = "user" /\ child \notin allocated'
    BY <1>1 DEF IInv, TypeOK
  <2> QED
    BY <1>1, <2>1 DEF phase, RUNNING, ZOMBIE, INTERRUPTIBLE
<1>5. phase' = [phase EXCEPT ![t] = "ready", ![child] = "absent"]
  BY <1>1, <1>3, <1>4, PhaseIsFunction
<1> QED
  BY <1>2, <1>5 DEF L!Reap

LEMMA SleepRefines ==
    ASSUME IInv, IInv', NEW t \in Tasks, NEW child \in allocated, NEW tsk \in AllTasks,
           current = t, pc[t] = "user", parent[child] = t, wait4_sleep(t, child, tsk)
    PROVE  L!Wait(t, child)
<1>1. /\ state[child] # ZOMBIE
      /\ state' = [state EXCEPT ![t] = INTERRUPTIBLE]
      /\ pc' = [pc EXCEPT ![t] = "copy"]
      /\ UNCHANGED <<allocated, parent>>
  BY DEF wait4_sleep, Exited
<1>2. phase[t] = "ready" /\ phase[child] \notin {"absent", "exited"} /\ t \in allocated
      /\ child \in Tasks
  BY <1>1, UserIsRunning, PhaseOf, Basics
<1>3. \A u \in Tasks \ {t} : phase'[u] = phase[u]
  <2>1. SUFFICES ASSUME NEW u \in Tasks \ {t} PROVE phase'[u] = phase[u]
    OBVIOUS
  <2>2. state'[u] = state[u] /\ pc'[u] = pc[u] /\ (u \in allocated' <=> u \in allocated)
    BY <1>1, Basics DEF IInv, TypeOK
  <2> QED
    BY <2>2, PhaseSame
<1>4. state'[t] = INTERRUPTIBLE
  BY <1>1, Basics DEF IInv, TypeOK
<1>5. phase'[t] = "waiting"
  BY <1>1, <1>2, <1>4 DEF phase, RUNNING, ZOMBIE, INTERRUPTIBLE
<1>6. phase' = [phase EXCEPT ![t] = "waiting"]
  BY <1>3, <1>5, PhaseIsFunction
<1>7. current' \in {u \in Tasks \cup {InitTask} : u # t /\ L!Runnable(u)}
  <2>1. state'[current'] = RUNNING
    BY SleepIInv
  <2>2. current' # t
    BY <1>4, <2>1 DEF RUNNING, INTERRUPTIBLE
  <2>3. current' = InitTask \/ (current' \in allocated /\ current' \in Tasks)
    BY <1>1, Basics DEF IInv, SchedInv
  <2>4. ASSUME NEW u \in Tasks, u = current', u # InitTask
        PROVE  phase[u] \in {"ready", "woken"}
    <3>1. u # t /\ u \in allocated /\ state[u] = RUNNING
      BY <1>1, <2>1, <2>2, <2>3, <2>4, Basics DEF IInv, TypeOK
    <3>2. pc[u] \in Points /\ pc[u] \notin ExitPoints
      BY <3>1 DEF IInv, TypeOK, PhaseInv, RUNNING, ZOMBIE
    <3> QED
      BY <3>1, <3>2, PhaseOf DEF Points
  <2> QED
    BY <2>2, <2>3, <2>4, Basics DEF L!Runnable
<1> QED
  BY <1>1, <1>2, <1>6, <1>7 DEF L!Wait

LEMMA Wait4Refines ==
    ASSUME IInv, IInv', Sequential, NEW t \in Tasks, NEW child \in Tasks, sys_wait4(t, child)
    PROVE  L!Wait(t, child) \/ L!Reap(t, child)
<1>1. /\ current = t /\ pc[t] = "user"
      /\ child \in allocated /\ parent[child] = t
  BY DEF sys_wait4, InUser, Children
<1>2. PICK tsk \in AllTasks : wait4_zombie(t, child, tsk) \/ wait4_sleep(t, child, tsk)
  BY DEF sys_wait4
<1>3. CASE wait4_sleep(t, child, tsk)
  BY <1>1, <1>3, SleepRefines
<1>4. CASE wait4_zombie(t, child, tsk)
  <2>1. /\ state[child] = ZOMBIE
        /\ allocated' = allocated \ {child}
        /\ UNCHANGED <<current, state, parent, pc>>
    BY <1>4 DEF wait4_zombie, Exited, kfree_task, schedVars
  <2>2. pc' = [pc EXCEPT ![t] = "user"]
    BY <1>1, <2>1 DEF IInv, TypeOK
  <2> QED
    BY <1>1, <2>1, <2>2, FreeRefines
<1> QED
  BY <1>2, <1>3, <1>4

LEMMA CopyStutters ==
    ASSUME IInv, NEW t \in Tasks, wait4_copy(t)
    PROVE  UNCHANGED L!vars
<1>1. /\ pc[t] = "copy"
      /\ UNCHANGED <<current, state, allocated, parent>>
      /\ pc' = [pc EXCEPT ![t] = "reap"]
  BY DEF wait4_copy, schedVars
<1>2. \A u \in Tasks : phase'[u] = phase[u]
  <2>1. SUFFICES ASSUME NEW u \in Tasks PROVE phase'[u] = phase[u]
    OBVIOUS
  <2>2. pc'[u] = pc[u] \/ {pc[u], pc'[u]} \subseteq {"copy", "reap"}
    BY <1>1 DEF IInv, TypeOK
  <2> QED
    BY <1>1, <2>2, PhaseSame
<1>3. phase' = phase
  BY <1>2 DEF phase
<1> QED
  BY <1>1, <1>3 DEF L!vars

LEMMA ReapRefines ==
    ASSUME IInv, NEW t \in Tasks, wait4_reap(t)
    PROVE  \E child \in Tasks : L!Reap(t, child)
<1>1. /\ current = t /\ pc[t] = "reap" /\ t \in allocated /\ state[t] # INTERRUPTIBLE
  BY Basics DEF wait4_reap, IInv, SchedInv
<1>2. /\ allocated' = allocated \ {local[t].child}
      /\ pc' = [pc EXCEPT ![t] = "user"]
      /\ UNCHANGED <<current, state, parent>>
  BY DEF wait4_reap, kfree_task, schedVars
<1>3. /\ local[t].child \in allocated /\ parent[local[t].child] = t
      /\ state[local[t].child] = ZOMBIE
  BY <1>1 DEF IInv, PhaseInv
<1>4. L!Reap(t, local[t].child)
  BY <1>1, <1>2, <1>3, FreeRefines
<1> QED
  BY <1>3, <1>4, Basics

LEMMA InitRefines == Init => L!Init
<1> SUFFICES ASSUME Init PROVE L!Init
  OBVIOUS
<1>1. PICK first \in Tasks :
        /\ current = InitTask
        /\ state = [t \in AllTasks |-> RUNNING]
        /\ allocated = {first}
        /\ parent = [t \in AllTasks |-> InitTask]
        /\ pc = [t \in Tasks |-> "user"]
  BY DEF Init
<1>2. \A t \in Tasks : phase[t] = IF t = first THEN "ready" ELSE "absent"
  BY <1>1 DEF phase, AllTasks, RUNNING, ZOMBIE, INTERRUPTIBLE
<1>3. phase = [t \in Tasks |-> IF t = first THEN "ready" ELSE "absent"]
  BY <1>2 DEF phase
<1> QED
  BY <1>1, <1>3 DEF L!Init, AllTasks

LEMMA NextRefines ==
    ASSUME Sequential
    PROVE  IInv /\ IInv' /\ [Next]_vars => [L!Next]_(L!vars)
<1> SUFFICES ASSUME IInv, IInv', [Next]_vars PROVE [L!Next]_(L!vars)
  OBVIOUS
<1>1. ASSUME NEW t \in Tasks, NEW tsk \in Tasks, do_fork(t, tsk) PROVE L!Next
  BY <1>1, ForkRefines DEF L!Next
<1>2. ASSUME NEW t \in Tasks, NEW code \in ExitCodes, do_exit(t, code) PROVE L!Next
  BY <1>2, ExitRefines DEF L!Next
<1>3. ASSUME NEW t \in Tasks, exit_notify(t) PROVE UNCHANGED L!vars
  BY <1>3, NotifyStutters
<1>4. ASSUME NEW t \in Tasks, exit_wakeup(t) PROVE L!Next
  BY <1>4, WakeupRefines DEF L!Next
<1>l. ASSUME NEW t \in Tasks, exit_link(t) \/ exit_count(t) \/ irq_tears_link(t)
      PROVE  UNCHANGED L!vars
  BY <1>l, LinkStutters
<1>5. ASSUME NEW t \in Tasks, NEW child \in Tasks, sys_wait4(t, child) PROVE L!Next
  BY <1>5, Wait4Refines DEF L!Next
<1>6. ASSUME NEW t \in Tasks, wait4_copy(t) PROVE UNCHANGED L!vars
  BY <1>6, CopyStutters
<1>7. ASSUME NEW t \in Tasks, wait4_reap(t) PROVE L!Next
  BY <1>7, ReapRefines DEF L!Next
<1>8. CASE irq \/ tick_irq \/ \E t \in Tasks : exit_schedule(t)
  <2>1. state'[current'] = RUNNING /\ UNCHANGED <<state, allocated, parent, pc>>
    BY <1>8, DispatchRuns DEF irq, tick_irq, exit_schedule
  <2> QED
    BY <2>1, DispatchRefines DEF L!Next
<1>9. CASE UNCHANGED vars
  BY <1>9 DEF vars, L!vars, phase
<1> QED
  BY <1>1, <1>2, <1>3, <1>4, <1>l, <1>5, <1>6, <1>7, <1>8, <1>9 DEF Next

\* fork, exit and wait4 keep the promises of Lifecycle: a child is reaped by
\* its parent, once, after it has exited, and a parent that waits is woken by
\* the exit of its child and by nothing else.
THEOREM TasksImplementLifecycle ==
    ASSUME Sequential
    PROVE  Spec => ImplementsLifecycle
BY InitRefines, NextRefines, Invariance, PTL DEF Spec, ImplementsLifecycle, L!Spec

-----------------------------------------------------------------------------
(* The list that sys_wait4() searches.  Where programs fork only while      *)
(* their parent waits for them, it is the chain from the youngest task to   *)
(* its ancestors, and the one predecessor that a sleeping wait4 remembers   *)
(* is the boot task.                                                        *)

\* The tasks that have to be on the list: those that exist, less one that is
\* unlinked and about to be freed.
Linked == allocated \ {local[t].child : t \in {u \in allocated : pc[u] = "reap"}}

\* What follows the i-th task of s.
After(s, i) == IF i < Len(s) THEN s[i + 1] ELSE InitTask

\* s is the list.  Each task precedes its parent, and from the third on they
\* all sleep: only the youngest two can be runnable.
IsList(s) ==
    /\ s \in Seq(Tasks)
    /\ \A i, j \in 1 .. Len(s) : s[i] = s[j] => i = j
    /\ \A t \in Tasks : t \in Linked <=> \E i \in 1 .. Len(s) : s[i] = t
    /\ next[InitTask] = After(s, 0)
    /\ \A i \in 1 .. Len(s) : next[s[i]] = After(s, i) /\ parent[s[i]] = After(s, i)
    /\ \A i \in 3 .. Len(s) : state[s[i]] = INTERRUPTIBLE

\* A sleeping wait4 found its child at the front of the list.
ListInv ==
    /\ \E s : IsList(s)
    /\ \A t \in allocated : pc[t] = "copy" => local[t].tsk = InitTask

-----------------------------------------------------------------------------
(* What the list says about a task.                                        *)

\* A task without children is the first of the list.
LEMMA ChildlessIsFirst ==
    ASSUME IInv, NEW s, IsList(s), NEW t \in Linked, \A c \in allocated : parent[c] # t
    PROVE  Len(s) >= 1 /\ s[1] = t
<1>1. t \in Tasks /\ Linked \subseteq allocated /\ Len(s) \in Nat
  BY Basics, LenProperties DEF IsList, Linked
<1>2. PICK i \in 1 .. Len(s) : s[i] = t
  BY <1>1 DEF IsList
<1>3. i = 1
  <2>1. SUFFICES ASSUME i # 1 PROVE FALSE
    OBVIOUS
  <2>2. i - 1 \in 1 .. Len(s) /\ i - 1 < Len(s)
    BY <1>1, <2>1
  <2>3. s[i - 1] \in Tasks /\ parent[s[i - 1]] = t
    BY <1>1, <1>2, <2>2, ElementOfSeq DEF IsList, After
  <2>4. s[i - 1] \in allocated
    BY <1>1, <2>2, <2>3 DEF IsList
  <2> QED
    BY <2>3, <2>4
<1> QED
  BY <1>1, <1>2, <1>3

\* So is a task that has exited, and the one that runs outside of the kernel
\* without children.
LEMMA ZombieIsFirst ==
    ASSUME IInv, NEW s, IsList(s), NEW t \in Linked, state[t] = ZOMBIE
    PROVE  Len(s) >= 1 /\ s[1] = t
<1>1. \A c \in allocated : parent[c] # t
  BY DEF IInv, FamilyInv
<1> QED
  BY <1>1, ChildlessIsFirst

\* A task is unlinked only while its parent is about to free it.
LEMMA LinkedUnlessReaped ==
    ASSUME IInv, NEW t \in allocated,
           state[t] # ZOMBIE \/ ~ \E u \in allocated : parent[t] = u /\ pc[u] = "reap"
    PROVE  t \in Linked
<1>1. SUFFICES ASSUME NEW u \in allocated, pc[u] = "reap", local[u].child = t
               PROVE  FALSE
  BY DEF Linked
<1>2. parent[t] = u
  BY <1>1 DEF IInv, PhaseInv
<1>3. state[u] # INTERRUPTIBLE
  BY <1>1 DEF IInv, PhaseInv
<1>4. state[t] = ZOMBIE
  BY <1>1, <1>3 DEF IInv, PhaseInv
<1> QED
  BY <1>1, <1>2, <1>4

\* The child of a task that is on the CPU is the first of the list.
LEMMA ChildOfRunningIsFirst ==
    ASSUME IInv, NEW s, IsList(s), NEW t \in Tasks, current = t, pc[t] = "user",
           NEW child \in allocated, parent[child] = t
    PROVE  Len(s) >= 1 /\ s[1] = child /\ child \in Linked
<1>1. t \in allocated /\ state[t] = RUNNING /\ Len(s) \in Nat
  BY UserIsRunning, LenProperties DEF IsList
<1>2. child \in Linked
  BY <1>1, LinkedUnlessReaped
<1>3. PICK i \in 1 .. Len(s) : s[i] = child
  BY <1>2, Basics DEF IsList
<1>4. i = 1
  <2>1. SUFFICES ASSUME i # 1 PROVE FALSE
    OBVIOUS
  <2>2. parent[child] = After(s, i)
    BY <1>3 DEF IsList
  <2>3. i < Len(s) /\ s[i + 1] = t
    BY <1>1, <2>2, Basics DEF After
  <2>4. i + 1 \in 3 .. Len(s)
    BY <1>1, <2>1, <2>3
  <2>5. state[t] = INTERRUPTIBLE
    BY <2>3, <2>4 DEF IsList
  <2> QED
    BY <1>1, <2>5 DEF RUNNING, INTERRUPTIBLE
<1> QED
  BY <1>1, <1>2, <1>3, <1>4

-----------------------------------------------------------------------------
(* The search of sys_wait4().                                              *)

\* A walk of m steps exists for every m ...
LEMMA WalkExists ==
    ASSUME NEW nxt, NEW m \in Nat
    PROVE  \E f : f = [n \in 0 .. m |-> IF n = 0 THEN InitTask ELSE nxt[f[n - 1]]]
<1> DEFINE P(k) == \E f : f = [n \in 0 .. k |-> IF n = 0 THEN InitTask ELSE nxt[f[n - 1]]]
           Bad == {k \in Nat : ~P(k)}
<1>1. SUFFICES ASSUME Bad # {} PROVE FALSE
  <2>1. m \notin Bad
    BY <1>1
  <2> QED
    BY <2>1
<1>2. PICK k \in Bad : \A j \in Bad : k <= j
  <2>1. Bad \in SUBSET Nat
    OBVIOUS
  <2> HIDE DEF Bad
  <2> QED
    BY <1>1, <2>1, LeastNatural
<1>3. CASE k = 0
  <2>1. PICK f : f = [n \in 0 .. 0 |-> InitTask]
    OBVIOUS
  <2>2. f = [n \in 0 .. 0 |-> IF n = 0 THEN InitTask ELSE nxt[f[n - 1]]]
    BY <2>1
  <2> QED
    BY <1>3, <2>2
<1>4. CASE k # 0
  <2>1. k \in Nat /\ k - 1 \in Nat /\ k - 1 \notin Bad
    BY <1>2, <1>4
  <2>2. PICK f : f = [n \in 0 .. k - 1 |-> IF n = 0 THEN InitTask ELSE nxt[f[n - 1]]]
    BY <2>1
  <2>3. PICK g : g = [n \in 0 .. k |-> IF n = k THEN nxt[f[k - 1]] ELSE f[n]]
    OBVIOUS
  <2>4. \A n \in 0 .. k : g[n] = IF n = 0 THEN InitTask ELSE nxt[g[n - 1]]
    <3> SUFFICES ASSUME NEW n \in 0 .. k
                 PROVE  g[n] = IF n = 0 THEN InitTask ELSE nxt[g[n - 1]]
      OBVIOUS
    <3>1. CASE n = k
      <4>1. k - 1 \in 0 .. k /\ k - 1 # k
        BY <2>1
      <4> QED
        BY <1>4, <2>3, <3>1, <4>1
    <3>2. CASE n # k /\ n # 0
      <4>1. n \in 0 .. k - 1 /\ n - 1 \in 0 .. k /\ n - 1 # k /\ n \in 0 .. k
        BY <2>1, <3>2
      <4>2. g[n] = f[n] /\ g[n - 1] = f[n - 1]
        BY <2>3, <3>2, <4>1
      <4> QED
        BY <2>2, <3>2, <4>1, <4>2
    <3>3. CASE n # k /\ n = 0
      <4>1. 0 \in 0 .. k - 1 /\ 0 \in 0 .. k
        BY <2>1, <3>3
      <4> QED
        BY <2>2, <2>3, <3>3, <4>1
    <3> QED
      BY <3>1, <3>2, <3>3
  <2>5. g = [n \in 0 .. k |-> IF n = 0 THEN InitTask ELSE nxt[g[n - 1]]]
    BY <2>3, <2>4
  <2> QED
    BY <2>5
<1> QED
  BY <1>3, <1>4

\* ... so that walk follows the links from the boot task on.
LEMMA WalkSteps ==
    ASSUME IsFiniteSet(Tasks)
    PROVE  /\ Cardinality(Tasks) \in Nat
           /\ DOMAIN walk = 0 .. Cardinality(Tasks)
           /\ walk[0] = InitTask
           /\ \A n \in 1 .. Cardinality(Tasks) : walk[n] = next[walk[n - 1]]
<1> DEFINE m == Cardinality(Tasks)
<1>1. m \in Nat
  BY FS_CardinalityType
<1>2. \E f : f = [n \in 0 .. m |-> IF n = 0 THEN InitTask ELSE next[f[n - 1]]]
  BY <1>1, WalkExists
<1>3. walk = [n \in 0 .. m |-> IF n = 0 THEN InitTask ELSE next[walk[n - 1]]]
  BY <1>2 DEF walk
<1> HIDE DEF m
<1>4. DOMAIN walk = 0 .. m
  BY <1>3
<1>5. \A n \in 0 .. m : walk[n] = IF n = 0 THEN InitTask ELSE next[walk[n - 1]]
  BY <1>3
<1>6. walk[0] = InitTask
  BY <1>1, <1>5
<1>7. \A n \in 1 .. m : walk[n] = next[walk[n - 1]]
  BY <1>1, <1>5
<1> QED
  BY <1>1, <1>4, <1>6, <1>7 DEF m

\* The first of the list is found with the boot task as its predecessor.
LEMMA FoundAtFront ==
    ASSUME IsFiniteSet(Tasks), IInv, NEW s, IsList(s), Len(s) >= 1,
           NEW tsk \in AllTasks, Precedes(tsk, s[1])
    PROVE  tsk = InitTask
<1>1. PICK n \in DOMAIN walk :
        walk[n] = tsk /\ \A m \in 1 .. n : walk[m] \notin {InitTask, s[1]}
  BY DEF Precedes
<1>2. next[InitTask] = s[1]
  BY LenProperties DEF IsList, After
<1>3. n = 0
  <2>1. SUFFICES ASSUME n # 0 PROVE FALSE
    OBVIOUS
  <2>2. n \in 1 .. Cardinality(Tasks) /\ 1 \in 1 .. Cardinality(Tasks) /\ 1 \in 1 .. n
    BY <1>1, <2>1, WalkSteps
  <2>3. walk[1] = s[1]
    BY <1>2, <2>2, WalkSteps
  <2> QED
    BY <1>1, <2>2, <2>3
<1> QED
  BY <1>1, <1>3, WalkSteps

-----------------------------------------------------------------------------
(* What a step does to the list.                                           *)

\* The list without its first task, which is unlinked from the boot task.
LEMMA FirstUnlinked ==
    ASSUME IInv, NEW s, IsList(s), s # <<>>,
           next' = [next EXCEPT ![InitTask] = next[s[1]]],
           \A t \in Tasks : t \in Linked' <=> t \in Linked /\ t # s[1],
           UNCHANGED <<state, parent>>
    PROVE  IsList(Tail(s))'
<1> DEFINE r == Tail(s)
<1>1. /\ s \in Seq(Tasks) /\ r \in Seq(Tasks) /\ Len(s) \in Nat \ {0}
      /\ Len(r) = Len(s) - 1
      /\ \A i \in 1 .. Len(r) : r[i] = s[i + 1]
  BY HeadTailProperties, EmptySeq, LenProperties DEF IsList
<1>2. \A i \in 1 .. Len(s) : s[i] \in Tasks /\ s[i] \in AllTasks /\ s[i] # InitTask
  BY <1>1, ElementOfSeq, Basics
<1>3. next' \in [AllTasks -> AllTasks] /\ next'[InitTask] = next[s[1]]
      /\ \A t \in Tasks : next'[t] = next[t]
  <2>1. next \in [AllTasks -> AllTasks]
    BY DEF IInv, TypeOK
  <2>2. s[1] \in AllTasks
    BY <1>1, <1>2
  <2> QED
    BY <1>1, <1>2, <2>1, <2>2, Basics
<1>4. \A i \in 0 .. Len(r) : After(r, i) = After(s, i + 1)
  BY <1>1 DEF After
<1>5. \A i, j \in 1 .. Len(r) : r[i] = r[j] => i = j
  <2> SUFFICES ASSUME NEW i \in 1 .. Len(r), NEW j \in 1 .. Len(r), r[i] = r[j] PROVE i = j
    OBVIOUS
  <2>1. i + 1 \in 1 .. Len(s) /\ j + 1 \in 1 .. Len(s) /\ s[i + 1] = s[j + 1]
    BY <1>1
  <2>2. i + 1 = j + 1
    BY <2>1 DEF IsList
  <2> QED
    BY <2>2
<1>6. \A t \in Tasks : t \in Linked' <=> \E i \in 1 .. Len(r) : r[i] = t
  <2> SUFFICES ASSUME NEW t \in Tasks
               PROVE  (t \in Linked /\ t # s[1]) <=> \E i \in 1 .. Len(r) : r[i] = t
    OBVIOUS
  <2>1. ASSUME t \in Linked, t # s[1] PROVE \E i \in 1 .. Len(r) : r[i] = t
    <3>1. PICK i \in 1 .. Len(s) : s[i] = t
      BY <2>1 DEF IsList
    <3>2. i - 1 \in 1 .. Len(r) /\ r[i - 1] = t
      BY <1>1, <2>1, <3>1
    <3> QED
      BY <3>2
  <2>2. ASSUME NEW i \in 1 .. Len(r), r[i] = t PROVE t \in Linked /\ t # s[1]
    <3>1. i + 1 \in 1 .. Len(s) /\ s[i + 1] = t /\ 1 \in 1 .. Len(s) /\ i + 1 # 1
      BY <1>1, <2>2
    <3> QED
      BY <3>1 DEF IsList
  <2> QED
    BY <2>1, <2>2
<1>7. next'[InitTask] = After(r, 0)
  BY <1>1, <1>3, <1>4 DEF IsList
<1>8. ASSUME NEW i \in 1 .. Len(r)
      PROVE  next'[r[i]] = After(r, i) /\ parent[r[i]] = After(r, i)
  <2>1. i + 1 \in 1 .. Len(s) /\ r[i] = s[i + 1] /\ After(r, i) = After(s, i + 1)
    BY <1>1, <1>4
  <2> QED
    BY <1>2, <1>3, <2>1 DEF IsList
<1>9. ASSUME NEW i \in 3 .. Len(r)
      PROVE  state[r[i]] = INTERRUPTIBLE
  <2>1. i + 1 \in 3 .. Len(s) /\ r[i] = s[i + 1]
    BY <1>1
  <2> QED
    BY <2>1 DEF IsList
<1> QED
  BY <1>1, <1>5, <1>6, <1>7, <1>8, <1>9 DEF IsList, After

\* A list that nothing happens to but that states of its first two tasks
\* change, or that tasks fall asleep.
LEMMA ListStays ==
    ASSUME NEW s, IsList(s), Linked' = Linked, UNCHANGED <<next, parent>>,
           \A i \in 3 .. Len(s) : state'[s[i]] = state[s[i]] \/ state'[s[i]] = INTERRUPTIBLE
    PROVE  IsList(s)'
BY DEF IsList, After

LEMMA ForkListInv ==
    ASSUME IInv, ListInv, Nested, NEW t \in Tasks, NEW tsk \in Tasks, do_fork(t, tsk)
    PROVE  ListInv'
<1>1. /\ current = t /\ pc[t] = "user" /\ tsk \notin allocated
      /\ \A c \in allocated : parent[c] # t
      /\ parent[t] = InitTask \/ state[parent[t]] = INTERRUPTIBLE
  BY DEF do_fork, InUser, Children, Nested, Sequential
<1>2. /\ allocated' = allocated \cup {tsk}
      /\ parent' = [parent EXCEPT ![tsk] = t]
      /\ next' = [next EXCEPT ![tsk] = next[InitTask], ![InitTask] = tsk]
      /\ state' = [state EXCEPT ![tsk] = RUNNING]
      /\ pc' = [pc EXCEPT ![tsk] = "user"]
      /\ local' = local
  BY DEF do_fork, link_task
<1>3. /\ t \in allocated /\ state[t] = RUNNING /\ t \in Linked /\ t # tsk
  BY <1>1, UserIsRunning, LinkedUnlessReaped DEF RUNNING, ZOMBIE
<1>4. /\ \A u \in AllTasks \ {tsk} : state'[u] = state[u] /\ parent'[u] = parent[u]
      /\ \A u \in Tasks \ {tsk} : pc'[u] = pc[u] /\ next'[u] = next[u]
      /\ pc'[tsk] = "user" /\ parent'[tsk] = t
      /\ next'[tsk] = next[InitTask] /\ next'[InitTask] = tsk
  BY <1>2, Basics DEF IInv, TypeOK
<1>5. PICK s : IsList(s)
  BY DEF ListInv
<1>6. Len(s) >= 1 /\ s[1] = t
  BY <1>1, <1>3, <1>5, ChildlessIsFirst
<1> DEFINE r == <<tsk>> \o s
<1>7. /\ s \in Seq(Tasks) /\ r \in Seq(Tasks) /\ Len(s) \in Nat
      /\ Len(r) = Len(s) + 1 /\ r[1] = tsk
      /\ \A i \in 2 .. Len(r) : r[i] = s[i - 1]
  <2>1. s \in Seq(Tasks) /\ <<tsk>> \in Seq(Tasks) /\ Len(<<tsk>>) = 1 /\ Len(s) \in Nat
    BY <1>5, LenProperties DEF IsList
  <2>2. /\ r \in Seq(Tasks) /\ Len(r) = 1 + Len(s)
        /\ \A i \in 1 .. 1 + Len(s) : r[i] = IF i <= 1 THEN <<tsk>>[i] ELSE s[i - 1]
    BY <2>1, ConcatProperties
  <2> QED
    BY <2>1, <2>2
<1>8. \A i \in 1 .. Len(s) : s[i] \in Linked /\ s[i] \in Tasks \ {tsk} /\ s[i] \in AllTasks
  BY <1>1, <1>5, <1>7, ElementOfSeq, Basics DEF IsList, Linked
<1>9. \A u \in Tasks : u \in Linked' <=> u \in Linked \/ u = tsk
  <2>1. \A u \in allocated : pc'[u] = pc[u]
    BY <1>1, <1>4, Basics
  <2>2. \A u \in allocated : pc[u] = "reap" => local[u].child # tsk
    BY <1>1 DEF IInv, PhaseInv
  <2>3. {local'[u].child : u \in {v \in allocated' : pc'[v] = "reap"}}
          = {local[u].child : u \in {v \in allocated : pc[v] = "reap"}}
    BY <1>2, <1>4, <2>1
  <2> QED
    BY <1>2, <2>2, <2>3 DEF Linked
<1>10. IsList(r)'
  <2>1. \A i, j \in 1 .. Len(r) : r[i] = r[j] => i = j
    <3> SUFFICES ASSUME NEW i \in 1 .. Len(r), NEW j \in 1 .. Len(r), r[i] = r[j] PROVE i = j
      OBVIOUS
    <3>1. CASE i = 1 \/ j = 1
      BY <1>7, <1>8, <3>1
    <3>2. CASE i # 1 /\ j # 1
      <4>1. i - 1 \in 1 .. Len(s) /\ j - 1 \in 1 .. Len(s) /\ s[i - 1] = s[j - 1]
        BY <1>7, <3>2
      <4>2. i - 1 = j - 1
        BY <1>5, <4>1 DEF IsList
      <4> QED
        BY <4>2
    <3> QED
      BY <3>1, <3>2
  <2>2. \A u \in Tasks : u \in Linked' <=> \E i \in 1 .. Len(r) : r[i] = u
    <3> SUFFICES ASSUME NEW u \in Tasks
                 PROVE  (u \in Linked \/ u = tsk) <=> \E i \in 1 .. Len(r) : r[i] = u
      BY <1>9
    <3>1. ASSUME u \in Linked PROVE \E i \in 1 .. Len(r) : r[i] = u
      <4>1. PICK i \in 1 .. Len(s) : s[i] = u
        BY <1>5, <3>1 DEF IsList
      <4>2. i + 1 \in 1 .. Len(r) /\ r[i + 1] = u
        BY <1>7, <4>1
      <4> QED
        BY <4>2
    <3>2. ASSUME u = tsk PROVE \E i \in 1 .. Len(r) : r[i] = u
      BY <1>7, <3>2
    <3>3. ASSUME NEW i \in 1 .. Len(r), r[i] = u, u # tsk PROVE u \in Linked
      <4>1. i - 1 \in 1 .. Len(s) /\ s[i - 1] = u
        BY <1>7, <3>3
      <4> QED
        BY <1>8, <4>1
    <3> QED
      BY <3>1, <3>2, <3>3
  <2>3. next'[InitTask] = After(r, 0)
    BY <1>4, <1>7 DEF After
  <2>4. ASSUME NEW i \in 1 .. Len(r)
        PROVE  next'[r[i]] = After(r, i) /\ parent'[r[i]] = After(r, i)
    <3>1. CASE i = 1
      <4>1. r[i] = tsk /\ After(r, i) = t
        BY <1>6, <1>7, <3>1 DEF After
      <4>2. next[InitTask] = t
        BY <1>5, <1>6, <1>7 DEF IsList, After
      <4> QED
        BY <1>4, <4>1, <4>2
    <3>2. CASE i # 1
      <4>1. i - 1 \in 1 .. Len(s) /\ r[i] = s[i - 1] /\ After(r, i) = After(s, i - 1)
        BY <1>7, <3>2 DEF After
      <4> QED
        BY <1>4, <1>5, <1>8, <4>1 DEF IsList
    <3> QED
      BY <3>1, <3>2
  <2>5. ASSUME NEW i \in 3 .. Len(r)
        PROVE  state'[r[i]] = INTERRUPTIBLE
    <3>1. i - 1 \in 1 .. Len(s) /\ r[i] = s[i - 1]
      BY <1>7
    <3>2. state[s[i - 1]] = INTERRUPTIBLE
      <4>1. CASE i = 3
        <5>1. parent[t] = s[2] /\ s[2] # InitTask
          BY <1>5, <1>6, <1>7, <1>8, <3>1, <4>1, Basics DEF IsList, After
        <5> QED
          BY <1>1, <4>1, <5>1
      <4>2. CASE i # 3
        <5>1. i - 1 \in 3 .. Len(s)
          BY <1>7, <4>2
        <5> QED
          BY <1>5, <5>1 DEF IsList
      <4> QED
        BY <4>1, <4>2
    <3> QED
      BY <1>4, <1>8, <3>1, <3>2
  <2> QED
    BY <1>7, <2>1, <2>2, <2>3, <2>4, <2>5 DEF IsList, After
<1>11. \A u \in allocated' : pc'[u] = "copy" => local'[u].tsk = InitTask
  BY <1>1, <1>2, <1>4, Basics DEF ListInv
<1> QED
  BY <1>10, <1>11 DEF ListInv

LEMMA ExitListInv ==
    ASSUME IInv, ListInv, Sequential, NEW t \in Tasks, NEW code \in ExitCodes, do_exit(t, code)
    PROVE  ListInv'
<1>1. /\ current = t /\ pc[t] = "user"
      /\ \A c \in allocated : parent[c] # t
      /\ state' = [state EXCEPT ![t] = ZOMBIE]
      /\ pc' = [pc EXCEPT ![t] = "notify"]
      /\ UNCHANGED <<allocated, parent, next, local>>
  BY DEF do_exit, InUser, Children
<1>2. t \in Linked
  BY <1>1, UserIsRunning, LinkedUnlessReaped DEF RUNNING, ZOMBIE
<1>3. \A u \in Tasks : pc'[u] = (IF u = t THEN "notify" ELSE pc[u])
  BY <1>1 DEF IInv, TypeOK
<1>4. Linked' = Linked
  BY <1>1, <1>3, Basics DEF Linked
<1>5. PICK s : IsList(s)
  BY DEF ListInv
<1>6. s[1] = t /\ Len(s) >= 1 /\ Len(s) \in Nat /\ s \in Seq(Tasks)
  BY <1>1, <1>2, <1>5, ChildlessIsFirst, LenProperties DEF IsList
<1>7. \A i \in 3 .. Len(s) : state'[s[i]] = state[s[i]]
  <2> SUFFICES ASSUME NEW i \in 3 .. Len(s) PROVE state'[s[i]] = state[s[i]]
    OBVIOUS
  <2>1. s[i] # t /\ s[i] \in AllTasks
    BY <1>5, <1>6, ElementOfSeq, Basics DEF IsList
  <2> QED
    BY <1>1, <2>1 DEF IInv, TypeOK
<1>8. IsList(s)'
  BY <1>1, <1>4, <1>5, <1>7, ListStays
<1> QED
  BY <1>1, <1>3, <1>8, Basics DEF ListInv

LEMMA WakeupListInv ==
    ASSUME IInv, ListInv, NEW t \in Tasks, exit_wakeup(t)
    PROVE  ListInv'
<1>1. /\ current = t /\ pc[t] = "wake"
      /\ state' = [state EXCEPT ![local[t].tsk] = RUNNING]
      /\ pc' = [pc EXCEPT ![t] = "link"]
      /\ UNCHANGED <<allocated, parent, next, local>>
  BY DEF exit_wakeup
<1>2. /\ t \in allocated /\ state[t] = ZOMBIE /\ local[t].tsk = parent[t]
      /\ state[parent[t]] = INTERRUPTIBLE
  BY <1>1, Basics DEF IInv, PhaseInv, WaitInv, ExitPoints
<1>3. t \in Linked
  <2>1. pc[parent[t]] = "copy"
    BY <1>2, ChildOfSleeper
  <2> QED
    BY <1>2, <2>1, LinkedUnlessReaped
<1>4. \A u \in Tasks : pc'[u] = (IF u = t THEN "link" ELSE pc[u])
  BY <1>1 DEF IInv, TypeOK
<1>5. Linked' = Linked
  BY <1>1, <1>4, Basics DEF Linked
<1>6. PICK s : IsList(s)
  BY DEF ListInv
<1>7. s[1] = t /\ Len(s) >= 1 /\ Len(s) \in Nat /\ s \in Seq(Tasks)
  BY <1>2, <1>3, <1>6, ZombieIsFirst, LenProperties DEF IsList
<1>8. \A i \in 3 .. Len(s) : state'[s[i]] = state[s[i]]
  <2> SUFFICES ASSUME NEW i \in 3 .. Len(s) PROVE state'[s[i]] = state[s[i]]
    OBVIOUS
  <2>1. parent[t] = s[2] /\ s[i] # s[2] /\ s[i] \in AllTasks
    BY <1>6, <1>7, ElementOfSeq, Basics DEF IsList, After
  <2> QED
    BY <1>1, <1>2, <2>1 DEF IInv, TypeOK
<1>9. IsList(s)'
  BY <1>1, <1>5, <1>6, <1>8, ListStays
<1>10. \A u \in allocated' : pc'[u] = "copy" => local'[u].tsk = InitTask
  BY <1>1, <1>4, Basics DEF ListInv
<1> QED
  BY <1>9, <1>10 DEF ListInv

\* What is neither a fork, an exit, a wake-up nor a wait leaves the list alone.
LEMMA OthersListInv ==
    ASSUME IInv, ListInv, UNCHANGED <<state, allocated, parent, next>>,
           \A u \in allocated : \/ pc'[u] = pc[u] /\ local'[u] = local[u]
                                \/ {pc[u], pc'[u]} \subseteq ExitPoints
    PROVE  ListInv'
<1>1. Linked' = Linked
  BY DEF Linked, ExitPoints
<1>2. PICK s : IsList(s)
  BY DEF ListInv
<1>3. IsList(s)'
  BY <1>1, <1>2, ListStays
<1>4. \A u \in allocated' : pc'[u] = "copy" => local'[u].tsk = InitTask
  BY DEF ListInv, ExitPoints
<1> QED
  BY <1>3, <1>4 DEF ListInv

LEMMA Wait4ListInv ==
    ASSUME IsFiniteSet(Tasks), IInv, ListInv, Sequential,
           NEW t \in Tasks, NEW child \in Tasks, sys_wait4(t, child)
    PROVE  ListInv'
<1>1. current = t /\ pc[t] = "user" /\ child \in allocated /\ parent[child] = t
  BY DEF sys_wait4, InUser, Children
<1>2. t \in allocated
  BY <1>1, UserIsRunning
<1>3. PICK tsk \in AllTasks :
        Precedes(tsk, child) /\ (wait4_zombie(t, child, tsk) \/ wait4_sleep(t, child, tsk))
  BY DEF sys_wait4
<1>4. PICK s : IsList(s)
  BY DEF ListInv
<1>5. s[1] = child /\ Len(s) >= 1 /\ child \in Linked /\ Len(s) \in Nat /\ s \in Seq(Tasks)
  BY <1>1, <1>4, ChildOfRunningIsFirst, LenProperties DEF IsList
<1>6. tsk = InitTask
  BY <1>3, <1>4, <1>5, FoundAtFront
<1>7. CASE wait4_zombie(t, child, tsk)
  <2>1. /\ next' = [next EXCEPT ![InitTask] = next[s[1]]]
        /\ allocated' = allocated \ {child}
        /\ state[child] = ZOMBIE
        /\ UNCHANGED <<state, parent, pc, local>>
    BY <1>5, <1>6, <1>7 DEF wait4_zombie, kfree_task, Exited, schedVars
  <2>2. pc[child] # "reap"
    BY <1>1, <2>1 DEF IInv, PhaseInv, ExitPoints
  <2>3. \A u \in Tasks : u \in Linked' <=> u \in Linked /\ u # s[1]
    BY <1>5, <2>1, <2>2 DEF Linked
  <2>4. s # <<>>
    BY <1>5
  <2>5. IsList(Tail(s))'
    BY <1>4, <2>1, <2>3, <2>4, FirstUnlinked
  <2> QED
    BY <2>1, <2>5 DEF ListInv
<1>8. CASE wait4_sleep(t, child, tsk)
  <2>1. /\ state' = [state EXCEPT ![t] = INTERRUPTIBLE]
        /\ local' = [local EXCEPT ![t] = [child |-> child, tsk |-> InitTask]]
        /\ pc' = [pc EXCEPT ![t] = "copy"]
        /\ UNCHANGED <<allocated, parent, next>>
    BY <1>6, <1>8 DEF wait4_sleep
  <2>2. /\ \A u \in Tasks : pc'[u] = (IF u = t THEN "copy" ELSE pc[u])
        /\ \A u \in Tasks : u # t => local'[u] = local[u]
        /\ local'[t].tsk = InitTask
    BY <2>1 DEF IInv, TypeOK
  <2>3. Linked' = Linked
    BY <1>1, <2>1, <2>2, Basics DEF Linked
  <2>4. \A i \in 3 .. Len(s) : state'[s[i]] = state[s[i]] \/ state'[s[i]] = INTERRUPTIBLE
    <3> SUFFICES ASSUME NEW i \in 3 .. Len(s)
                 PROVE  state'[s[i]] = state[s[i]] \/ state'[s[i]] = INTERRUPTIBLE
      OBVIOUS
    <3>1. s[i] \in AllTasks
      BY <1>5, ElementOfSeq, Basics
    <3> QED
      BY <2>1, <3>1 DEF IInv, TypeOK
  <2>5. IsList(s)'
    BY <1>4, <2>1, <2>3, <2>4, ListStays
  <2>6. \A u \in allocated' : pc'[u] = "copy" => local'[u].tsk = InitTask
    BY <2>1, <2>2, Basics DEF ListInv
  <2> QED
    BY <2>5, <2>6 DEF ListInv
<1> QED
  BY <1>3, <1>7, <1>8

LEMMA CopyListInv ==
    ASSUME IInv, ListInv, NEW t \in Tasks, wait4_copy(t)
    PROVE  ListInv'
<1> DEFINE child == local[t].child
<1>1. /\ current = t /\ pc[t] = "copy" /\ t \in allocated
      /\ child \in allocated /\ state[child] = ZOMBIE /\ parent[child] = t
      /\ local[t].tsk = InitTask
  <2>1. current = t /\ pc[t] = "copy" /\ t \in allocated /\ state[t] # INTERRUPTIBLE
    BY Basics DEF wait4_copy, IInv, SchedInv
  <2> QED
    BY <2>1 DEF IInv, PhaseInv, ListInv
<1>2. PICK s : IsList(s)
  BY DEF ListInv
<1>3. child \in Linked
  BY <1>1, LinkedUnlessReaped
<1>4. s[1] = child /\ s # <<>>
  BY <1>1, <1>2, <1>3, ZombieIsFirst, EmptySeq
<1>5. /\ next' = [next EXCEPT ![InitTask] = next[s[1]]]
      /\ pc' = [pc EXCEPT ![t] = "reap"]
      /\ UNCHANGED <<state, allocated, parent, local>>
  BY <1>1, <1>4 DEF wait4_copy, schedVars
<1>6. \A u \in Tasks : pc'[u] = (IF u = t THEN "reap" ELSE pc[u])
  BY <1>5 DEF IInv, TypeOK
<1>7. \A u \in Tasks : u \in Linked' <=> u \in Linked /\ u # s[1]
  BY <1>1, <1>4, <1>5, <1>6, Basics DEF Linked
<1>8. IsList(Tail(s))'
  BY <1>2, <1>4, <1>5, <1>7, FirstUnlinked
<1>9. \A u \in allocated' : pc'[u] = "copy" => local'[u].tsk = InitTask
  BY <1>5, <1>6, Basics DEF ListInv
<1> QED
  BY <1>8, <1>9 DEF ListInv

LEMMA ReapListInv ==
    ASSUME IInv, ListInv, NEW t \in Tasks, wait4_reap(t)
    PROVE  ListInv'
<1> DEFINE child == local[t].child
<1>1. /\ current = t /\ pc[t] = "reap" /\ t \in allocated
      /\ child \in allocated /\ state[child] = ZOMBIE /\ parent[child] = t
  <2>1. current = t /\ pc[t] = "reap" /\ t \in allocated /\ state[t] # INTERRUPTIBLE
    BY Basics DEF wait4_reap, IInv, SchedInv
  <2> QED
    BY <2>1 DEF IInv, PhaseInv
<1>2. /\ allocated' = allocated \ {child}
      /\ pc' = [pc EXCEPT ![t] = "user"]
      /\ local' = [local EXCEPT ![t] = NoLocal(t)]
      /\ UNCHANGED <<state, parent, next>>
  BY DEF wait4_reap, kfree_task, schedVars
<1>3. /\ \A u \in Tasks : pc'[u] = (IF u = t THEN "user" ELSE pc[u])
      /\ \A u \in Tasks : u # t => local'[u] = local[u]
  BY <1>2 DEF IInv, TypeOK
<1>4. pc[child] # "reap" /\ child # t
  BY <1>1 DEF IInv, PhaseInv, FamilyInv, ExitPoints
<1>5. Linked' = Linked
  BY <1>1, <1>2, <1>3, <1>4, Basics DEF Linked
<1>6. PICK s : IsList(s)
  BY DEF ListInv
<1>7. IsList(s)'
  BY <1>2, <1>5, <1>6, ListStays
<1>8. \A u \in allocated' : pc'[u] = "copy" => local'[u].tsk = InitTask
  BY <1>2, <1>3, Basics DEF ListInv
<1> QED
  BY <1>7, <1>8 DEF ListInv

-----------------------------------------------------------------------------
(* The theorems.                                                           *)

LEMMA InitListInv == Init => ListInv
<1> SUFFICES ASSUME Init PROVE ListInv
  OBVIOUS
<1>1. PICK first \in Tasks :
        /\ allocated = {first}
        /\ parent = [t \in AllTasks |-> InitTask]
        /\ next = [t \in AllTasks |-> IF t = InitTask THEN first ELSE InitTask]
        /\ pc = [t \in Tasks |-> "user"]
  BY DEF Init
<1>2. Linked = {first}
  BY <1>1 DEF Linked
<1> DEFINE s == <<first>>
<1>3. IsList(s)
  <2>1. s \in Seq(Tasks) /\ Len(s) = 1 /\ s[1] = first
    OBVIOUS
  <2>2. \A t \in Tasks : t \in Linked <=> \E i \in 1 .. Len(s) : s[i] = t
    BY <1>2, <2>1
  <2>3. next[InitTask] = first /\ next[first] = InitTask /\ parent[first] = InitTask
    BY <1>1, InitTaskAssumption DEF AllTasks
  <2>4. After(s, 0) = first /\ After(s, 1) = InitTask
    BY <2>1 DEF After
  <2> HIDE DEF s
  <2>5. \A i \in 1 .. Len(s) : next[s[i]] = After(s, i) /\ parent[s[i]] = After(s, i)
    <3> SUFFICES ASSUME NEW i \in 1 .. Len(s)
                 PROVE  next[s[i]] = After(s, i) /\ parent[s[i]] = After(s, i)
      OBVIOUS
    <3>1. i = 1
      BY <2>1
    <3> QED
      BY <2>1, <2>3, <2>4, <3>1
  <2>6. \A i, j \in 1 .. Len(s) : s[i] = s[j] => i = j
    BY <2>1
  <2>7. \A i \in 3 .. Len(s) : state[s[i]] = INTERRUPTIBLE
    BY <2>1
  <2> QED
    BY <2>1, <2>2, <2>3, <2>4, <2>5, <2>6, <2>7 DEF IsList
<1> QED
  BY <1>1, <1>3 DEF ListInv

LEMMA NextListInv ==
    ASSUME Nested, IsFiniteSet(Tasks)
    PROVE  IInv /\ ListInv /\ [Next]_vars => ListInv'
<1> SUFFICES ASSUME IInv, ListInv, [Next]_vars PROVE ListInv'
  OBVIOUS
<1> Sequential
  BY DEF Nested, Sequential
<1>1. ASSUME NEW t \in Tasks, NEW tsk \in Tasks, do_fork(t, tsk) PROVE ListInv'
  BY <1>1, ForkListInv
<1>2. ASSUME NEW t \in Tasks, NEW code \in ExitCodes, do_exit(t, code) PROVE ListInv'
  BY <1>2, ExitListInv
<1>3. ASSUME NEW t \in Tasks, exit_notify(t) PROVE ListInv'
  <2>1. /\ pc[t] = "notify"
        /\ pc' = [pc EXCEPT ![t] = "wake"] \/ pc' = [pc EXCEPT ![t] = "schedule"]
        /\ \E x : local' = [local EXCEPT ![t].tsk = x] \/ local' = local
        /\ UNCHANGED <<state, allocated, parent, next>>
    BY <1>3, Zenon DEF exit_notify, schedVars
  <2>2. \A u \in allocated : \/ pc'[u] = pc[u] /\ local'[u] = local[u]
                             \/ {pc[u], pc'[u]} \subseteq ExitPoints
    BY <2>1, Basics DEF IInv, TypeOK, ExitPoints
  <2> QED
    BY <2>1, <2>2, OthersListInv
<1>4. ASSUME NEW t \in Tasks, exit_wakeup(t) PROVE ListInv'
  BY <1>4, WakeupListInv
<1>l. ASSUME NEW t \in Tasks, exit_link(t) \/ exit_count(t) \/ irq_tears_link(t)
      PROVE  ListInv'
  <2>1. /\ pc[t] \in ExitPoints
        /\ \E point \in ExitPoints : pc' = [pc EXCEPT ![t] = point]
        /\ local' = [local EXCEPT ![t] = NoLocal(t)] \/ local' = local
        /\ UNCHANGED <<state, allocated, parent, next>>
    BY <1>l DEF exit_link, exit_count, irq_tears_link, schedVars, ExitPoints
  <2>2. \A u \in allocated : \/ pc'[u] = pc[u] /\ local'[u] = local[u]
                             \/ {pc[u], pc'[u]} \subseteq ExitPoints
    BY <2>1, Basics DEF IInv, TypeOK
  <2> QED
    BY <2>1, <2>2, OthersListInv
<1>5. ASSUME NEW t \in Tasks, NEW child \in Tasks, sys_wait4(t, child) PROVE ListInv'
  BY <1>5, Wait4ListInv
<1>6. ASSUME NEW t \in Tasks, wait4_copy(t) PROVE ListInv'
  BY <1>6, CopyListInv
<1>7. ASSUME NEW t \in Tasks, wait4_reap(t) PROVE ListInv'
  BY <1>7, ReapListInv
<1>8. CASE irq \/ tick_irq \/ \E t \in Tasks : exit_schedule(t)
  BY <1>8, OthersListInv DEF irq, tick_irq, exit_schedule
<1>9. CASE UNCHANGED vars
  BY <1>9, OthersListInv DEF vars
<1> QED
  BY <1>1, <1>2, <1>3, <1>4, <1>l, <1>5, <1>6, <1>7, <1>8, <1>9 DEF Next

\* The list has no more tasks than there are blocks, so walk reaches its end.
LEMMA ListFits ==
    ASSUME IsFiniteSet(Tasks), NEW s, IsList(s)
    PROVE  Len(s) <= Cardinality(Tasks)
<1>1. s \in Seq(Tasks) /\ Len(s) \in Nat /\ s \in [1 .. Len(s) -> Tasks]
  BY LenProperties DEF IsList
<1>2. s \in Injection(1 .. Len(s), Tasks)
  BY <1>1 DEF IsList, Injection, IsInjective
<1>3. IsFiniteSet(1 .. Len(s)) /\ Cardinality(1 .. Len(s)) = Len(s)
  BY <1>1, FS_Interval
<1> QED
  BY <1>2, <1>3, FS_Injection

\* The n-th step of walk is the n-th task of the list, and one step more is
\* the boot task again.
LEMMA WalkIsList ==
    ASSUME IsFiniteSet(Tasks), NEW s, IsList(s)
    PROVE  /\ \A n \in 1 .. Len(s) : walk[n] = s[n]
           /\ Len(s) + 1 \in DOMAIN walk => walk[Len(s) + 1] = InitTask
           /\ 0 .. Len(s) \subseteq DOMAIN walk
           /\ next[walk[Len(s)]] = InitTask
<1> DEFINE c == Cardinality(Tasks)
           Bad == {n \in 1 .. Len(s) : walk[n] # s[n]}
<1>1. /\ Len(s) \in Nat /\ c \in Nat /\ Len(s) <= c
      /\ DOMAIN walk = 0 .. c
      /\ walk[0] = InitTask
      /\ \A n \in 1 .. c : walk[n] = next[walk[n - 1]]
  BY LenProperties, WalkSteps, ListFits DEF IsList
<1> HIDE DEF c
<1>2. \A n \in 1 .. Len(s) : walk[n] = s[n]
  <2>1. SUFFICES ASSUME Bad # {} PROVE FALSE
    OBVIOUS
  <2>2. PICK n \in Bad : \A j \in Bad : n <= j
    <3>1. Bad \in SUBSET Nat
      BY <1>1
    <3> HIDE DEF Bad
    <3> QED
      BY <2>1, <3>1, LeastNatural
  <2>3. n \in 1 .. Len(s) /\ n \in 1 .. c /\ walk[n] = next[walk[n - 1]] /\ walk[n] # s[n]
    BY <1>1, <2>2
  <2>4. CASE n = 1
    <3>1. walk[n] = next[InitTask]
      BY <1>1, <2>3, <2>4
    <3>2. next[InitTask] = s[1]
      BY <1>1, <2>3 DEF IsList, After
    <3> QED
      BY <2>3, <2>4, <3>1, <3>2
  <2>5. CASE n # 1
    <3>1. n - 1 \in 1 .. Len(s) /\ n - 1 \notin Bad /\ n - 1 < Len(s)
      BY <1>1, <2>2, <2>3, <2>5
    <3>2. walk[n - 1] = s[n - 1] /\ next[s[n - 1]] = After(s, n - 1) /\ (n - 1) + 1 = n
      BY <2>3, <3>1 DEF IsList
    <3>3. After(s, n - 1) = s[n]
      BY <3>1, <3>2 DEF After
    <3> QED
      BY <2>3, <3>2, <3>3
  <2> QED
    BY <2>4, <2>5
<1>3. next[walk[Len(s)]] = InitTask
  <2>1. CASE Len(s) = 0
    <3>1. next[InitTask] = InitTask
      BY <2>1 DEF IsList, After
    <3> QED
      BY <1>1, <2>1, <3>1
  <2>2. CASE Len(s) # 0
    <3>1. Len(s) \in 1 .. Len(s)
      BY <1>1, <2>2
    <3>2. walk[Len(s)] = s[Len(s)] /\ next[s[Len(s)]] = After(s, Len(s))
      BY <1>2, <3>1 DEF IsList
    <3> QED
      BY <1>1, <3>2 DEF After
  <2> QED
    BY <2>1, <2>2
<1>4. ASSUME Len(s) + 1 \in DOMAIN walk PROVE walk[Len(s) + 1] = InitTask
  <2>1. Len(s) + 1 \in 1 .. c /\ (Len(s) + 1) - 1 = Len(s)
    BY <1>1, <1>4
  <2> QED
    BY <1>1, <1>3, <2>1
<1>5. 0 .. Len(s) \subseteq DOMAIN walk
  BY <1>1
<1> QED
  BY <1>2, <1>3, <1>4, <1>5

\* A step of walk that has not passed the boot task again is on the list.
LEMMA WalkStaysOnList ==
    ASSUME IsFiniteSet(Tasks), NEW s, IsList(s), NEW n \in DOMAIN walk,
           \A m \in 1 .. n : walk[m] # InitTask
    PROVE  n \in 0 .. Len(s)
<1>1. Len(s) \in Nat /\ n \in Nat
  BY LenProperties, WalkSteps DEF IsList
<1>2. SUFFICES ASSUME n > Len(s) PROVE FALSE
  BY <1>1
<1>3. Len(s) + 1 \in 1 .. n /\ Len(s) + 1 \in DOMAIN walk
  BY <1>1, <1>2, WalkSteps
<1> QED
  BY <1>3, WalkIsList

\* The list is whole at every moment, and a wait4 that goes on after its sleep
\* unlinks the right task.
THEOREM TaskListStaysOK ==
    ASSUME Nested, IsFiniteSet(Tasks)
    PROVE  Spec => []TaskListOK
<1>1. ASSUME IInv, ListInv PROVE TaskListOK
  <2>1. PICK s : IsList(s)
    BY <1>1 DEF ListInv
  <2>2. \E n \in DOMAIN walk : next[walk[n]] = InitTask
    <3>1. Len(s) \in DOMAIN walk
      BY <2>1, WalkIsList, LenProperties DEF IsList
    <3> QED
      BY <2>1, <3>1, WalkIsList
  <2>3. ASSUME NEW t \in Tasks
        PROVE  t \in Linked <=>
                 \E n \in DOMAIN walk : walk[n] = t /\ \A m \in 1 .. n : walk[m] # InitTask
    <3>1. ASSUME t \in Linked
          PROVE  \E n \in DOMAIN walk : walk[n] = t /\ \A m \in 1 .. n : walk[m] # InitTask
      <4>1. PICK n \in 1 .. Len(s) : s[n] = t
        BY <2>1, <3>1 DEF IsList
      <4>2. n \in DOMAIN walk /\ walk[n] = t
        BY <2>1, <4>1, WalkIsList
      <4>3. \A m \in 1 .. n : m \in 1 .. Len(s) /\ walk[m] = s[m] /\ s[m] # InitTask
        BY <2>1, <4>1, WalkIsList, ElementOfSeq, LenProperties, InitTaskAssumption DEF IsList
      <4> QED
        BY <4>2, <4>3
    <3>2. ASSUME NEW n \in DOMAIN walk, walk[n] = t, \A m \in 1 .. n : walk[m] # InitTask
          PROVE  t \in Linked
      <4>1. n # 0
        BY <3>2, WalkSteps, InitTaskAssumption
      <4>2. n \in 1 .. Len(s)
        BY <2>1, <3>2, <4>1, WalkStaysOnList
      <4> QED
        BY <2>1, <3>2, <4>2, WalkIsList DEF IsList
    <3> QED
      BY <3>1, <3>2
  <2>4. {t \in Tasks : \E n \in DOMAIN walk : /\ walk[n] = t
                                              /\ \A m \in 1 .. n : walk[m] # InitTask} = Linked
    <3>1. Linked \subseteq Tasks
      BY <1>1, Basics DEF Linked
    <3> QED
      BY <2>3, <3>1
  <2>5. ASSUME NEW t \in allocated, pc[t] = "copy", state[local[t].child] = ZOMBIE
        PROVE  next[local[t].tsk] = local[t].child
    <3>1. /\ local[t].tsk = InitTask /\ local[t].child \in allocated
          /\ parent[local[t].child] = t
      BY <1>1, <2>5 DEF ListInv, IInv, PhaseInv
    <3>2. local[t].child \in Linked
      BY <1>1, <2>5, <3>1, LinkedUnlessReaped
    <3>3. Len(s) >= 1 /\ s[1] = local[t].child
      BY <1>1, <2>1, <2>5, <3>2, ZombieIsFirst
    <3> QED
      BY <2>1, <3>1, <3>3, LenProperties DEF IsList, After
  <2> QED
    BY <2>2, <2>4, <2>5 DEF TaskListOK, Linked
<1>2. Sequential
  BY DEF Nested, Sequential
<1> QED
  BY <1>1, <1>2, InitIInv, NextIInv, InitListInv, NextListInv, PTL DEF Spec

\* Under that discipline no search finds a block that has been freed.
THEOREM SearchesFindProcesses ==
    ASSUME Nested, IsFiniteSet(Tasks)
    PROVE  Spec => []FindsOnlyProcesses
<1>1. ASSUME IInv, ListInv PROVE FindsOnlyProcesses
  <2> SUFFICES ASSUME NEW child \in Tasks, NEW tsk \in AllTasks, Precedes(tsk, child)
               PROVE  child \in allocated
    BY DEF FindsOnlyProcesses
  <2>1. PICK s : IsList(s)
    BY <1>1 DEF ListInv
  <2>2. PICK n \in DOMAIN walk :
          walk[n] = tsk /\ \A m \in 1 .. n : walk[m] \notin {InitTask, child}
    BY DEF Precedes
  <2>3. next[tsk] = child /\ child # InitTask
    BY InitTaskAssumption DEF Precedes
  <2>4. n \in 0 .. Len(s) /\ Len(s) \in Nat
    BY <2>1, <2>2, WalkStaysOnList, LenProperties DEF IsList
  <2>5. child = After(s, n)
    <3>1. CASE n = 0
      BY <2>1, <2>2, <2>3, <3>1, WalkSteps DEF IsList
    <3>2. CASE n # 0
      <4>1. n \in 1 .. Len(s)
        BY <2>4, <3>2
      <4>2. \A m \in 1 .. Len(s) : walk[m] = s[m]
        BY <2>1, WalkIsList
      <4>3. \A i \in 1 .. Len(s) : next[s[i]] = After(s, i)
        BY <2>1 DEF IsList
      <4>4. walk[n] = s[n] /\ next[s[n]] = After(s, n)
        BY <4>1, <4>2, <4>3
      <4> QED
        BY <2>2, <2>3, <4>4
    <3> QED
      BY <3>1, <3>2
  <2>6. n + 1 \in 1 .. Len(s) /\ s[n + 1] = child
    BY <2>3, <2>4, <2>5 DEF After
  <2> QED
    BY <2>1, <2>6 DEF IsList, Linked
<1>2. Sequential
  BY DEF Nested, Sequential
<1> QED
  BY <1>1, <1>2, InitIInv, NextIInv, InitListInv, NextListInv, PTL DEF Spec
=============================================================================
