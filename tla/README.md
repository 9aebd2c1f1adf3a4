# MINE_X4418 in TLA+

A verification development for the MINE kernel in `src/kernel`: a small
operating system for two ARM boards, the jz2440 (S3C2440) and the x4418
(S5P4418), with processes, a scheduler ordered by run time, timers, a device
model, drivers, block devices and FAT32. The modules are written from the C
source and the assembler. TLC checks them on small instances; the TLA+ proof
system proves the main results about tasks, scheduler, timers, the table of
devices and lists for every value of the constants.

1 the system · 2 what is modelled · 3 the runs · 4 bounds and histories ·
5 fairness · 6 the proofs · 7 code and documentation · 8 what is only
model-checked, what is not modelled · 9 the plan

`PROJECT.json` holds the same in tables: components, runs, the lines each
definition translates, the hazards at their lines with the properties that
watch them, one mutant for each property, and the theorems.

## 1. The system

| Component | State | Operations | Interaction |
|---|---|---|---|
| scheduler, `kernel/schedule.c` | `task_schedule`: sorted list of runnable tasks, their count, a time slice; `current` | `get_next_task`, `insert_task_queue`, `schedule` | called at the end of every interrupt, by sleeps and by exit |
| tick of the jz2440 | run time of the running task, the slice | `tick_irq_hander` | before the `schedule()` of its own interrupt |
| tasks, `kernel/task.c`, `fs/sys.c` | `task_struct`: state, parent, list link, exit code, wait queue, memory, files | `do_fork`, `do_exit`, `exit_notify`, `sys_wait4`, `do_execve` | memory, wait queue, scheduler |
| wait queues, `kernel/waitqueue.c` | list of sleeping tasks | `interruptible_sleep_on`, `wakeup` | changes task states, calls the scheduler |
| interrupt entry, `arch/arm32` | interrupt mask, `preempt_count` | `handle_IRQ`, `do_softirq` | preempts whatever runs with interrupts enabled |
| timers, clock event, clock source | tree of timers, the cached first one, one-shot counter, sequence-locked time base | start, cancel, expiry, reprogramming, `ktime_get` | callbacks of drivers in interrupt context |
| memory, `mm/memory.c` | page bitmap, slab caches | page and object allocation | everything |
| device model, `kernel/core` | tree of `kobj`, lists of devices and drivers, notifiers | register, unregister, search, probe, suspend, resume | all drivers |
| interrupt chips, clocks, gpio, regulators, PWM, LEDs, buzzer, i2c, power chip, input | one list each, reference or enable counts, hardware registers | register, request, enable, transfers | device model, each other by name |
| block devices, SD card and host, FAT32, VFS | disks, partitions, blocks, cluster chains, dentries | read, write, lookup, mount | timer (card detection), `sys_read` and friends |
| libraries: `list.h`, red-black tree, strings, `vsnprintf`, division, JSON | the memory they are given | pure functions and pointer operations | everything |

The hard part is one processor shared by tasks and interrupts. A system call
runs with interrupts masked (`vector_swi` leaves the I bit of the exception
entry set), so it is atomic until it sleeps. But `schedule()` ends with `sti()`
whatever the mask was before it. A call that has slept goes on with interrupts
enabled; `do_exit()` enables them itself before it notifies the parent; and an
interrupt taken there ends in `schedule()` and may not come back for long, or
ever. Spin locks only mask interrupts or preemption, and few data structures
have one. A failing `assert()` prints, masks interrupts and spins: the system
stops.

What makes each component correct:

* scheduler: no runnable task is lost or queued twice, the queue stays sorted,
  the count that divides the time slice is right, the CPU is shared fairly
  where run time is accounted;
* tasks: a child is reaped once, by its parent, after it has exited; no
  `task_struct` is used after `kfree`; a waiting parent is woken; what a task
  maps and has open is its own;
* timers: a timer that is queued fires, once, not before its time; a cancelled
  one does not fire; the counter never stops;
* memory: nothing is handed out twice, what is freed can be had again;
* device model: names are unique, what is registered can be found and taken off
  again, a probe that fails leaves nothing behind, a sleep is undone by waking;
* drivers: enabled exactly while somebody uses them, an interrupt is neither
  lost nor misrouted, a transfer that reports success has happened;
* block devices, FAT32, VFS: no access outside the range of a device, what is
  read is what was written, no two files share a cluster, a path leads to its
  file;
* libraries: what the C standard, the grammar or arithmetic says.

## 2. What is modelled

| Module | Models |
|---|---|
| `RunQueue` | `schedule.c`, `wakeup_process`, the accounting of the jz2440 tick, as operators on `task_schedule` |
| `SchedFair` | the scheduler under interrupts and ticks, with tasks that never sleep |
| `Tasks` | fork, exit, wait4, wait queues, preemption |
| `Lifecycle` | the abstract promise of fork, exit and wait4, which `Tasks` implements |
| `TaskMm` | what fork, vfork, execve, exit, open and close do to memory, program and files of tasks |
| `Timer` | `time/timer.c` on the clock event and the one-shot counter of the x4418 |
| `TimerService` | the abstract promise of the timers, which `Timer` implements |
| `Clocksource` | `clocksource.c`: conversion, keeper, `ktime_get()` over a counter that wraps |
| `Memory` | `alloc_pages`, `free_pages`, `kmalloc`, `kmalloc_create`, `kfree` |
| `Devices` | table of devices and tree of kobjs, by two tasks and an interrupt |
| `Probe` | probe, error paths and removal of 36 drivers with `register_*()` and the files of their classes |
| `Power` | clocks, regulators, PWM, LEDs, suspend, resume, `machine_sleep()`; in its last part the drivers of the clocks, their rates and the registers they share |
| `Machine` | `register_machine`, the memory maps, `phys_to_virt`, the first page table |
| `Gpio`, `Irq` | the pins of the S5P4418; their interrupts, the VIC and `interrupt.c` |
| `I2c`, `Axp` | the bit-banged bus line by line; the power chip on it: rails and battery |
| `Buzzer` | queue of beeps, timer, hardware; and the beeps made of a ringtone |
| `Input`, `Nec` | events, touchscreen, keys; the infrared receiver and the NEC decoder |
| `Card`, `BlockIo` | cards that come and go, disk, partitions, mount; reads and writes at any byte |
| `Detect`, `Host` | what `sdcard_detect()` asks of a card; the transfers of the controller |
| `Fat` | files on the volume with faults, power cuts and two tasks; in its second part the names of a directory |
| `Vfs` | `path_walk()` and the tree of dentries |
| `DList`, `Lists` | `list.h` pointer by pointer; the sequences it implements |
| `RbTree`, `Strings`, `Format`, `Divide`, `Json` | the libraries |
| `MC*` | instances for TLC |
| `*Proofs`, the end of `SchedFair` | theorems |

**One processor.** In every model an action is a stretch of code that nothing
else on this processor can come between: code with interrupts masked, or the
code between two accesses to shared state of a task that may be preempted. An
interrupt handler is one action for a task, but for those that call back.

**RunQueue.** `task_schedule` is a record with the three fields of the C struct.
The C list is a sequence; the list head, whose `vrun_time` of `0x7fffffff` ends
the walk of `insert_task_queue()`, is the end of the sequence. `IsInsertPosition`
says where that walk stops: before the first entry that has run at least as
long. `schedule(ts, st, v)` is the whole of `schedule()` for a caller that has
just written `ts`, `st` and `v`; `insert_task_queue()` is `enqueue` and `count_up`, for
callers that can be interrupted between the two. `NEED_SCHEDULE` is written in three places and
read in none, and every task has priority 2; both are left out.

**Tasks.** One action per stretch of code that no interrupt can cut:

| Action | Code |
|---|---|
| `do_fork` | all of `do_fork()` |
| `do_exit` | `do_exit()` up to its `sti()` |
| `exit_notify` | `wakeup()`: look at the parent's queue, take the waiter off |
| `exit_wakeup` | `wakeup_process()`: the waiter's state becomes `TASK_RUNNING` |
| `exit_link`, `exit_count` | `insert_task_queue()`: the link; `running_task_count += 1` |
| `irq_tears_link` | an interrupt between the four pointers of `list_add_tail()` |
| `exit_schedule` | the `schedule()` that ends `do_exit()` |
| `sys_wait4` | up to its return for a zombie, or to the switch inside `interruptible_sleep_on()` |
| `wait4_copy`, `wait4_reap` | what follows the sleep, with interrupts enabled |
| `irq`, `tick_irq` | an interrupt: handler, `do_softirq()`, `schedule()` |

`pc[t]` says where a task is, `local[t]` holds the locals that live across a
sleep: `child` and the predecessor `tsk` in the task list for `sys_wait4()`, the
waiter for `wakeup()`. An entry of `wait_childexit[t]` is on the stack of the
sleeper, so it is the sleeper itself. `next` is the singly linked list in which
a pid is looked up. `allocated` says which blocks hold a `task_struct`: blocks
are freed and used again, with whatever stale pointers still name them.

Everything behind the `sti()` of `do_exit()` can be interrupted, and the
`schedule()` that ends the interrupt does not queue a zombie again: what the exit
had still to do is never done. So its accesses to shared state are actions of
their own. An interrupt inside the four assignments of the link leaves a ring that
the next `list_del()` breaks; `irq_tears_link` reaches that state, and the model
goes no further.

`Discipline` says what programs do. The kernel is sound only for some:
`"sequential"` programs fork one child at a time, wait for it and for nothing
else, and wait before they exit; `"nested"` ones moreover fork only while their
own parent waits for them, as a shell and its commands do. Under `"any"` the two
findings of section 7 appear at once.

**Lifecycle.** Five phases of a task, who forked whom and who runs. A child is
reaped by its parent, once, after it has exited; a waiting parent is woken by
its own child and nothing else; a block comes back only after it was reaped.

**Timer.** `timer_start()`, `timer_cancel()` and the handler run with interrupts
masked; the handler is cut at its callbacks to let time pass and callbacks start
other timers.

| Action | Code |
|---|---|
| `timer_start_now` | `timer_start_now()` of a task up to the return of its `ktime_get()` |
| `timer_start_locked` | the rest of it, all of `timer_start()` |
| `timer_cancel` | all of `timer_cancel()` |
| `interrupt` | `ce_samsung_timer_interrupt()` up to the `ktime_get()` of `timer_event_handler()` |
| `timer_event_call` | one round of the loop up to the call of `timer->function` |
| `callback_start` | a callback that starts another timer (buzzer, led) |
| `callback_stop`, `callback_restart` | its return, with 0 or with 1 after `timer_forward_now()` |
| `timer_event_done` | the end of the handler |
| `expire`, `Tick` | the counter reaches 0; time passes |

`clockevent_set_event_next()` does nothing, and returns `FALSE` to callers that
do not look, if the expiry has passed. A task that loses the CPU between the two
halves of `timer_start_now()` runs into it: its timer is queued, has expired,
and no interrupt is on the way for it. What saves the timers is the keeper of the
clock source, a timer that is never stopped: the counter is still set for that
one, and its interrupt calls back the late one too. `Prompt` says whether tasks
can be kept that long. A task that is interrupted by the keeper between the
sequence loop of `ktime_get()` and its addition of `keeper.nsec` reads a time
that is ahead, by at most `Ahead`; `Clocksource` shows when (its history
`torn`).

**TimerService.** Deadlines, and the timer being called back: after its deadline,
the earliest first, one at a time, once for each start; one that was cancelled
is not.

**DList.** `heap` maps each node to its `next` and `prev`, `live` says which heads
are initialised; each function is the pointer assignments of the code in their
order, and `Lists` the sequences they stand for.

**The other modules** open with a comment that says what they model and which
state they keep. Hardware (counters, controllers, cards, chips, the remote
control) is modelled from how the driver uses it and marked external in the map.

## 3. The runs

A run checks several subjects. A behaviour starts in one subject and stays
there; the variables of the others keep their initial values; a property is a
conjunction over the subjects it concerns.

| Run | Subjects | Properties |
|---|---|---|
| `tasks` | `life`: four blocks, an interrupt anywhere; `ticked`: run times of the jz2440 | `RunQueueOK`, `NoRunnableLost`, `NoUseAfterFree`, `SleepsOnlyUntilNotified`, `ReapsOnlyZombies`, `ImplementsLifecycle` |
| `tasks_nested` | four blocks, programs that fork only while their parent waits | `TaskListOK` |
| `tasks_live` | three blocks, fair interrupts, none in the exit path | `ExitedChildIsReaped` |
| `tasks_any`, `tasks_list` | the counterexamples of section 7 | `WaitHangsUntilStatus`, `FindsOnlyProcesses` are violated |
| `sched` | `share`: five tasks with the tick, for ever; `stack`: without | `FairShare`, `NobodyStarves`; `BottomNeverRuns` |
| `timers` | `prompt`: up to a time; `ever`: for ever, late tasks; `source`: `Clocksource` | `QueueOK`, `ArmedInTime`, `ImplementsTimerService`; `NeverStops`, `LateIsCalled`; `TimeTrue` |
| `library` | `lists`, `tree`, `copies`, `finds`, `tokens`, `numbers`, `words`, `reads`, `divide32`, `divide64`, `constant`, `trees`, `members`, `numerals`, `comments` | `Rings`, `TreeRight`, `PrintedAndRead`, `TextAndNumbersRight`, `OrderKept` |
| `files` | `volume` (power cut), `faults`, `sharers` (two tasks), `directory`, `walker`, `walkers`, `memory` (`TaskMm`) | `VolumeSound`, `PathsRight`, `MemoryKept`, `OnlyItsOwn`, `CallsEnd` |
| `cards` | `swaps`, `fails`, `fixed` (slot), `alone`, `both` (byte access), `shared`, `single`, `turns` (host), `slot` (detection) | `BlocksTrue`, `TransfersTrue`, `CardKnown`, `OnlyAsTold`, `Settles` |
| `devices` | `drivers` (probe), `table`, `heap`, `boot`, `lights` (power), `clocks` (its last part) | `TableSound`, `AddedFirst`; `MachineRuns`, `SleepKeepsAll` |
| `drivers` | `bits` (gpio), `ordinary`, `awake` (interrupt banks), `wires` (i2c), `chip`, `beepers`, `setters`, `tune` (buzzer), `touch`, `polled`, `remote`, `held` | `IrqSound`, `DriversTrue`, `StepsTrue`, `Answers` |

What they show, where it is not obvious from the names:

* `RunQueueOK` and `NoRunnableLost`: the queue is sorted, complete and counted,
  and what is runnable is in one place, but for what an interrupt takes from an
  exit. `running_task_count` is too low by one for each of the `cut` exits that
  were stopped between link and count, for ever; and a task in `Unlinked`, which
  an exit has called runnable and not linked, is lost when the exit is stopped
  there. The properties say that there is no other way to either.
* `SleepsOnlyUntilNotified`: a parent can sleep for ever. When an interrupt
  arrives between the `sti()` of `do_exit()` and the end of `exit_notify()`, its
  `schedule()` takes the CPU from a task that is already a zombie, and a zombie is
  never queued again. The property says that this is the only way.
  `ExitedChildIsReaped` is therefore checked with `IrqInExit = FALSE`.
* `TaskListOK`: the list that `sys_wait4()` searches is the list of the tasks
  and the predecessor it found before the sleep is right after it, for nested
  programs; `tasks_list` shows that sequential ones are not enough.
* `NobodyStarves` and `BottomNeverRuns`: with the accounting of the tick each task
  runs again and again; equal run times make the run queue a stack, whose bottom
  is never chosen, and without accounting they stay equal for ever.
* `ArmedInTime`: the counter is set for the first timer, at most `Slack` late;
  `NeverStops`: even with tasks that start timers too late it is never off with
  no interrupt on the way.
* `PrintedAndRead`: what `vsnprintf()` and `scnprintf()` return and write, sizes of
  0 included: there the code, and not its comments (section 7), is what is stated.
* `VolumeSound`: `fat32_node_write()` takes the success of
  `fat32_write_fat_entry()` for its failure (section 7). A good mark of the first
  cluster ends the call with `-EFAULT` and no data; a failed one is followed by data
  in a cluster that is still free. As long as no two tasks have
  met in the table, a cluster that belongs to two files is one of the latter
  (`unmarked`) and each chain ends, whenever the power is cut and whatever fails;
  a cluster is lost by a cut only; and no file is longer than its chain, but for
  one whose unmarked cluster was written past. Two tasks that do meet end the
  model (`clashed`): nothing keeps them apart, and files share clusters then.
* `MachineRuns`, of the clocks: a clock that a driver has taken stays on through
  new parents and rates; a rate or a parent that is set leaves the other fields of
  the register alone; and which rate a divider or a ratio chooses. Of the probes:
  what a file, a timer or an interrupt uses is there as long as it can come, and
  nothing is left behind by a failure or a removal but what the code is known to
  leave.
* `SleepKeepsAll`: the clocks and regulators that are on are those somebody uses, or
  those of an LED in `abandoned`: `led-pwm-bl` leaves it lit when its registration
  fails and when it is removed.
* `IrqSound`: each function of the bank that stays alive in sleep opens the gate,
  writes and closes it, one register at a time, with interrupts enabled; the
  dispatch closes the same gate. What a pin is set to is what was asked for, except
  where that happened to it (`shut`).
* `BlocksTrue`: the registered blocks are those of the card that was found; the
  mounted file system uses a freed one only where a card was pulled, since nothing
  counts the users of a block. `TableSound`, `TransfersTrue`, `PathsRight` and
  `DriversTrue` have the same form: the histories of section 4 name the circumstances under which the
  code is known to go wrong, and the property says that there are no others.

## 4. Bounds and histories

Four blocks let a program, its child, its grandchild and a reused block exist
together, which is what the stale predecessor and the reuse of a freed block
need. A run time of at most `MaxVrun = 4` (two ticks) gives every order of three
run times. Blocks are interchangeable, so `tasks` uses symmetry; `tasks_live`
does not. In `sched` the least run time is subtracted from all after each tick,
which `schedule()` cannot see, so that the run is finite; differences above
`MaxSpread`, which no correct run reaches, count as one.

Three timers are the keeper, one whose callback runs and one that the callback
starts or that expires meanwhile. `MaxTime` is past the keeper's first interval,
and that is past `MaxDelta`, so that the counter is set in two stages. In `ever`
the clock stays at 0 and all times are lowered instead.

| Bound | In | Why it is enough |
|---|---|---|
| `MaxOverrun`, `MaxCut` | `Tasks` | a slice of 3 that ticks of 2 take past 0, where it is not reloaded; one exit stopped between link and count, and the counts that follow |
| `MaxTasks`, `MaxExecs`, `MaxOpens`, `Growers` | `TaskMm` | a program, a vfork child, a fork child; an execve before and after; one shared file |
| `WordBits`, `Late`, `MaxCycles` | `Clocksource` | the counter wraps, words overflow, the keeper is late by one count |
| `Each` | `Devices` | two tasks and an interrupt that want the same name |
| `LastPage`, `PoolCount`, `SmallCount`, `LargeCount` | `Memory` | slabs are filled, made, emptied and released in both caches |
| `MaxMaps`, `Top`, `Section` | `Machine` | two ranges side by side, over one another, and at the end of the addresses |
| `MaxCount` | `Power` | more users than a chain of clocks has |
| `Leaving` | `Power` | of two LEDs, one whose probe may fail and which may be removed: what it leaves on meets the users of the other |
| `Bits`, `Failing`, `MaxUsers`, `MaxTaken`, `MaxWrites` | `Power`, its last part | a quotient that does not fit; a clock missing at each height; two drivers on one chain, two writes between them |
| `MaxCalls`, `MaxEdges`, `MaxOps` | `Gpio`, `Irq` | two contexts in one register; an edge at each step of a request (three for `ordinary`; one for `awake`, whose calls are cut at every write) |
| `W`, `Retries`, `Tries`, `MaxNaks`, `MaxStretches` | `I2c` | bytes of 2 bits (8), one retry (3), two tries (3): each loop goes round and ends |
| `MaxFails`, `MaxChanges`, `Channels` | `Axp` | the battery changes between two registers, any read fails; rails in three registers, two of them in one |
| `MaxBeeps`, `MaxPairs`, `MaxTones` | `Buzzer` | queues of none, one and two |
| `MaxMute`, `CONFIG_EVENT_FIFO_LENGTH` | `Input` | a queue that is full after two events |
| `B`, `MaxItems`, `MaxFaults` | `Nec` | bytes of 1 and 2 bits (8), three frames, one fault |
| `MaxBlocks`, `MaxMade` | `Card` | two partitions, blocks reused after a card was pulled |
| `MaxChunk`, `MaxCalls`, `MaxFaults` | `BlockIo` | head, whole blocks in two chunks, tail, at every byte |
| `Counts`, `Depth` | `Host` | one, two and three blocks over a FIFO of two (`single`); two tasks with one block each, in any order (`shared`), and with up to two while they do not cross (`turns`) |
| `Timeout`, `Slow`, `MaxInserts` | `Detect` | a card ready before, at and after the last try; one card after another |
| `MaxCluster`, `Longest` | `Fat` | two files, a table of more than one sector, a write over three clusters |
| `MaxFiles`, `MaxFails` | `Fat`, its second part | two entries of every form around the edge of a cluster |
| `MaxDentries`, `Paths` | `Vfs` | every name of the volume, one not there, `.` and `..` |
| `N`, `Twins` | `RbTree` | eight nodes: from there on an erasure climbs more than one level |
| `A`, `Bytes` | `Strings` | every memory of up to 7 bytes |
| `A`, `MaxItems`, `MaxText` | `Format` | addresses that wrap; two items; texts of four characters |
| `W`, `H`, `Highs` | `Divide` | registers of 5 and 6 bits: every case of the assembler's binary search |
| `MaxText`, `MaxDigits`, `MaxStarve` | `Json` | every text of up to 8 symbols; each allocation fails once |

A history is a variable that no code has; it records a circumstance under which
the code is known not to keep a promise, so that the property can say it is the
only one, or what was true before. `cut` (`Tasks`: how many exits were stopped
between link and count), `torn` (the keeper interrupts a reader of
the clock), `shared`, `broken` (`Devices`: a name registered twice), `fault`
(`Memory`: the scan for a run of pages leaves the zone, line 328, where the model
stops), `astray`, `failed`, `crashed`, `clashed`, `unmarked` (`Fat`:
clusters used although their mark failed), `refound`, `mistaken`,
`raced` (`Vfs`: a dentry inserted again, a name taken for a longer one, two
tasks), `wild`, `made`, `swapped`, `pulled` (`Card`), `crossed`, `unstopped`,
`stale`, `early`, `erred` (`Host`: two tasks in the controller, a transfer of several
blocks left without a stop, blocks that a failed transfer left in the FIFO, a task that was done
before the controller, an error of the data), `over`, `nested`, `taken_by`, `forced`, `abandoned` (`Power`: who has a clock, a file that switched one off, an LED left lit), `owed`, `crossed`, `stale`,
`shut` (`Irq`: an edge not handled yet, one that came during the handler, a latch of
an earlier owner, a pin whose registers were closed while they were written), `unseen`
(`I2c`: a start the chip missed), `blind`, `mixed` (`Axp`: a register
written unread; one that two calls were in), `alone`, `overtaken`, `passed`,
`raced` (`Buzzer`), `still`, `lost`, `broken` (`Input`), `hurt`, `whole`, `said`,
`due` (`Nec`), `missed`, `before`, `refused` (`Detect`), `twice`, `lent`, `pinched`,
`blanked`, `reexec`, `nested` (`TaskMm`), `stray`, `before` (`Fat`, its second part), `latest`
(`Clocksource`).

Deadlock is checked where the system cannot stop (`tasks_live`, `sched`); elsewhere
a bound on calls or faults, a panic of the code, or the broken ring of the run queue
ends a behaviour, and the cfg says so.

## 5. Fairness

* `tasks_live`: weak fairness of interrupts, since the keeper timer and the tick
  re-arm themselves for ever; strong fairness of each task's kernel steps, since
  between two interrupts the CPU executes instructions. Nothing is assumed of
  programs: they may stay in user code for ever.
* `sched`: the tick comes for ever.
* `timers` (`ever`): time goes on, the counter counts, interrupts are not masked
  for ever, the handler runs to its end.
* `files`: the scheduler runs every task again and the device answers.
* `cards`: the timer that looks at the slot is served, tasks run again, the
  controller and the card answer. Nobody is assumed to put cards in.
* `drivers`: an enabled interrupt is taken and its handler returns; a transfer
  proceeds and its wait for the clock times out; tasks run and an armed timer
  expires; somebody reads the events.

Each is weak fairness of the union of the steps that are served, per subject,
which is less than weak fairness of each.

## 6. The proofs

The assumptions are the named `ASSUME`s of the modules, which TLC evaluates in
the runs. "Any" below means: for every value of the constants that satisfies
them.

`RunQueueProofs` proves, for any queue, what each operator returns:
`InsertPositionExists` (the walk of `insert_task_queue()` ends), `InsertSorted`,
`Enqueue`, `CountUp` and `InsertTaskQueue` (the queue gains the task and stays
sorted, without repetition and counted; `WellFormed` takes how many of its tasks are
not counted), `ShareOf4` (a slice of a share that is not positive is the whole),
`GetNextTask`, `LoadSlice`, and the two facts about `schedule()`:
`ScheduleKeeps` (the task on the CPU and those in the queue are those from before,
less a caller that cannot run) and `ScheduleMinimal` (the task that gets the CPU
has run least).

`SchedFair`: `FairShare`, `NobodyLost` (each task is queued or running, which no run
states), `BottomNeverRuns` and `TypeOK` for any finite
number of tasks from two up. `FairShare` is not inductive. A tick widens the spread by 2, so
the charged task must be one that has run least (`RunsTheLeast`), which
`schedule()` establishes because its queue is sorted and complete. The same
invariant says of `BottomNeverRuns` that the boot task, which is never queued, does
not come back.

`TasksProofs`: `TypeOK`, `RunQueueOK`, `NoRunnableLost`, `NoUseAfterFree`,
`SleepsOnlyUntilNotified`, `ReapsOnlyZombies` and the refinement of `Lifecycle` for
any set of blocks, with and without the tick, assuming `Sequential`. The inductive
invariant `IInv` has six parts. `SchedInv`: the scheduler knows every runnable
task. `FamilyInv`: a task has one child at most, none once it is a zombie; without
it the exit of a sibling would wake a waiter and the kernel would reap a running
task, as `tasks_any` shows. `PhaseInv`: where a task is in the kernel says its
state, and one that waits names a child of its own, which has exited by the time
the wait goes on. `WaitInv`: a sleeper is alone on its own wait queue, until its
child takes it off to make it runnable. `HandInv`: an exit that has called its parent
runnable and not linked it yet is the parent's only way to the CPU, which is behind
its sleep. Each action has a lemma of its own. For
the refinement, an action is a step of `Lifecycle` (the six that fork, exit, wait,
wake, reap or move the CPU) or changes nothing that it shows.

The task list has an invariant of its own, under `Nested` and for finitely many
blocks. `IsList(s)` says that the list is the sequence `s` from the boot task on: each
task's `next` is the one after it, and so is its `parent`, as a child comes in right
behind the boot task and programs fork only while their parent waits. The tasks
other than the boot task are so a chain, youngest first, of which only the first
two can be anything but asleep: the others wait for the one before them. `ListInv` says that some such
`s` holds every task once, and that a wait that sleeps has the boot task as the
predecessor it remembers: its child is the youngest. So what `sys_wait4()` remembers
across its sleep is still right when it unlinks. `TaskListStaysOK` follows, and with
it `SearchesFindProcesses` and `WaitsHangUntilStatus`: under that discipline neither
finding of section 7 happens.

`TimerProofs`: `TypeOK`, `QueueOK`, `NeverStops`, `ArmedInTime` and the refinement
of `TimerService`, for any timers, tasks, intervals and counter. Two parts
strengthen the invariant. `LagInv` bounds by how much the handler's `now`, which is
read once, and the `now` of a cut `timer_start_now()` lie behind the clock; that is
where `Slack` comes from. `KeeperInv`: the keeper is queued whenever its callback is
not running, so the end of the handler always finds a timer that has not passed
`now`, and sets the counter.

The second half of `TimerProofs` is `TimeIsTrue`: `TimeTrue` of `Clocksource` for any
rates, widths and readers. Its three assumptions: sizes (`ClocksourceAssumption`);
what the provers are not told of `2^j` (`PowersOfTwo`); and `RatesFit`, which says of a
rate what the code takes for granted: a conversion of `maxsec` fits a double word,
`clocksource_calc_mult_shift()` finds a shift, and the keeper's interval, half of what
the counter can show, ends before the counter wraps even if the keeper is `Late`. The
first part of the proof is arithmetic: what is rounded down in a sum
(`FlooredSum`), what two readings of a counter that wraps are apart (`WrappedDelta`),
and that the factor that is chosen overflows nothing (`Conversion`). The invariant
`ClockInv` then says in `KeeperRuns` that the keeper's sum lacks less than one for each
run and that it is never so late that a wrap is missed; and in `ReaderKnows` what a
reader may rely on after each of its steps: its reading is one taken since it began
and since the keeper ran last, unless the sequence has changed, and when the keeper
gets between the test of the sequence and the read of `keeper.nsec` what it has is too
large by one interval and the lateness at most.

`DevicesProofs`: `TableSound` and `AddedFirst` for any finite set of tasks and
interrupts and any number of devices of each, with a task preempted between any two
of its steps. `TwinsOnlyByPreemption` and `RemovedOnce` are not inductive: what holds
of the table depends on what each actor has found out and not yet acted on. `LiveInv`:
a listed device has memory, and two with memory and one name are in `shared`.
`OwnInv` and `FreeInv`: what an actor works on is its own or has shared its name, and
what it registers or frees nobody else does. `NameInv`: after a name was found to be
free only another actor can have listed it, and only if this one is a task; that
needs `IrqInv`, interrupts do not nest. `PlaceInv` and `RestInv` say for a device that
has not shared its name whether it is in the table and in the tree, by where its
owner is, and that the chain has heard of a listed one.

`ListHostProofs` holds two proofs that have nothing to do with each other. The first:
`TypeOK` and `Rings` for any heads and items, under every operation of `list.h`: what
is reached by `next` is reached back by `prev`.

The second: `TransfersTrue` for any number of tasks, any sizes of transfers and of
the FIFO, with cards that are pulled, slow or answer with errors, or not
(`TransfersStayTrue`). The registers say nothing of whose transfer they are about, so
the invariant has to. `Stages`: what the place of a task says of its kind and of the
blocks that are left. `Alone`, as long as no transfers have crossed: one task at most
is in a transfer, the command and the data in progress are its own, and the flags it
looks at are those of its own command, since `__transfer_command()` has cleared
the others. `Clean`, as long as no failed transfer has left blocks either: what is in
the FIFO, what the controller has still to move and what the task has got or the
card has stored add up to the transfer. `Ready`: the card is in the middle of data
only for the task inside or for one block. So the assertions of
`read_bytes()` and `write_bytes()` hold because the sum leaves the FIFO nothing, and
not because anything empties it. Each action has a lemma of its own, with one step
for each part. `TransfersStartClean` is the part of `OnlyAsTold` about the host, from
the same invariant.

`Irq`, behind its model: `IrqSound` for any pins, edges and calls of drivers and for
both kinds of bank (`InterruptsReachTheirOwners`). `NoEdgeLost` and
`CalledWithItsData` are about single instants; why they hold is spread over the calls
of drivers, which take effect step by step with interrupts enabled. `CallInv` says
what is left of such a call and what the pins and the bank look like then, `PinInv`
which of handler, data, edges and enable bit a pin has by what is left. `LatchInv`:
a latched pin has its interrupt on or is left over from an earlier owner, and an edge
owed to the handler that is running came after it had begun. `DoingInv`, of the bank
that stays alive in sleep: a function under way has the gate open as long as it has
to write, or its pin is in `shut`. `EdgesAsAsked` and
`Quiet` are `PinInv` when nothing is left.

`TaskMm`, behind its model: `MemoryKept` for any number of tasks, files and programs
and any sequence of calls, nested or not (`MemoryStaysKept`). What a task has while
it is being made depends on how far its parent has got in `do_fork()`, which
`HasMm` and `HasFiles` say; so the invariant begins with that. `ForkInv`: each such
task has one parent that is inside `do_fork()`. `CopyInv`: until its memory is
made, the child is to run what its parent runs. `MmInv` and `ProgramInv`: memory has
one maker, who has it until it is reaped, and no page is in two of them.
`PointersInv`: nothing points to what was never made. `FilesInv` and `TwiceInv`: a file in two tables was
lent, and one of the two is the borrower's. `OwnersInv`: unless vforks were nested,
what is in use has an owner that was not reaped, which is the part of `MemoryKept`
about leaks. For each action one lemma says what it does and one that it keeps
the invariant; `MemoryUntouched`, `FilesUntouched` and `OwnersUntouched` carry over
the parts that an action does not concern.

## 7. Code and documentation

Two runs show that the code does not do what its documentation says:

* Without `WNOHANG` a wait is to hang until there is a status
  (`include/sys/wait.h:13`). With two children, the exit of one wakes the wait for
  the other, whose running `task_struct` is then freed (`tasks_any`).
* A wait for what is no child is to fail with `ECHILD`. When a child has forked
  before its parent waits for it, the predecessor remembered across the sleep is
  the grandchild: the wrong node is unlinked and the freed child can be found
  (`tasks_list`).

Other disagreements were met while modelling. The models have the behaviour of
the code; no run is spent on them:

* `fs/sys.c:234` stores the bare argument of `exit()`, `include/sys/wait.h` puts
  the status of a normal exit in the high byte.
* `mm/memory.c:458`: `kmalloc()` updates counters and bitmap with nothing masked
  while timer callbacks allocate; `:328`: the scan for a run of pages ends at an
  address where it should end at a page number, and can leave the bitmap. The
  allocator's own assertions then fail.
* `kernel/task.c:425`: what `do_exit()` does for its parent after its `sti()` is not
  masked. An interrupt between lines 222 and 223 loses the parent: it is
  `TASK_RUNNING` and in no queue. One between lines 57 and 58 of `schedule.c` leaves
  `running_task_count` too low for ever. It can reach 0 so, with which `schedule()`
  divides 4; `__div0` answers 0.
* `fs/fat32/fat-node.c:122`: `fat32_write_fat_entry()` returns `TRUE` when it has
  written (`fat32.c:72-84`), which the test takes for the error. The
  first write to an empty file ends with `-EFAULT` and no data, and the next one
  finds its cluster; where the mark fails the data goes to a cluster that is still
  free.
* `fs/fat32/fat-node.c:126`: a write at the end of a chain returns `-ENOSPC` with
  clusters free.
* `sdhci-xl00500.c:569`: a read that fails leaves its data in the FIFO; the next
  read finds it there and the assertion at line 595 stops the system. Worse, a
  read that finds enough of them there before its own blocks come returns the old
  ones, which can be another task's: the proof of `TransfersTrue` failed until
  `stale` said so.
* `lib/libc/vsprintf.c:388`: "don't write out a null byte if the buf size is
  zero", but `vasprintf()` measures with a size that wraps around and the whole
  text is stored from address 0; `:455` promises 0 for a size that is not
  positive, the code returns -1 for 0.
* `kernel/task.c:143`: `do_execve()` replaces the page its arguments lie in before
  it reads them; `fs/sys.c:250`: `brk` expands nothing.
* `led-pwm-bl.c:114-145`: the default brightness switches regulator, PWM and clock
  on before `register_led()`; neither the error path nor the removal switches them
  off, and the private data is freed.
* `irq-s5p4418-gpioalv.c:130-210`: enable, disable and settype open the power gate,
  write up to five registers and close it with interrupts enabled; a dispatch in
  between closes it, and the rest of the writes is lost.
* `regulator-axp228.c:192-197`: a rail is switched by reading its register and
  writing it back, in two transfers without a lock; of two tasks that switch two
  rails of one register the later write undoes the other.
* `drivers/buzzer/buzzer.c:325`: a tone without a duration is an eighth note, not
  the quarter that line 296 states; `buzzer-pwm.c:105`: a beep queued while the
  last one of the queue sounds cuts it.
* `clk-divider.c:70`: asked for more than its parent has, a divider that counts
  from one wraps below 0 and takes its lowest rate; `clk-ratio.c:74`: a ratio asked
  for its parent's rate takes the half; `clk-s5p4418-pll.c:71` adds `K / 65535` in its
  comment and `k / 65536`, which is 0, in its code; the node `clk-setting` of
  `x4418.json` has no driver, so its rates are never set.
* Drivers: `ce-samsung-timer` forgets the name it allocated when its interrupt
  cannot be requested, `sdhci-xl00500` the name of its clock;
  `register_sub_irqchip()` keeps its interrupt when it fails; `rc-gpio` and
  `ts-gslx680` do not look whether they got theirs; the pull and the drive strength
  that `gpio-s5p4418` reads back are not those that were set; `axp228` takes a
  register that cannot be read for 0; NEC code 0 is swallowed;
  `FAT32_readdir()` keeps its buffers at the end of a directory.

## 8. Model-checked only, not modelled

Out of reach of this prover are liveness under fairness, induction over data
(what a recursive function computes for every input, such as the sequences that
`OrderKept` reads from the pointers) and every module that reaches a `RECURSIVE`
operator (`Fat`, `Vfs`, `Card`, `Json`, `Power`) or `Bitwise` (`Divide`). So
`NobodyStarves`, `ExitedChildIsReaped`, `LateIsCalled`, `CallsEnd`, `Settles`,
`Answers`, and all that is said of the modules named, are checked by TLC only.

`PROJECT.json` lists every component with what is left out of it and why. Left
out for good: code that programs the registers of one board, prints, or runs
once at boot in a fixed order; the firmware table of the touchscreen, which is
data; SPI cards; `vsscanf()` and the `printf` of user programs; semaphores and
softirqs, which nothing in this build uses; the failures of allocations in
`fork`, `execve` and the buzzer; interrupts inside of `kmalloc()`. In the modelled
components: `sleep_on()` has no caller; failing system calls change nothing and
are stuttering steps; callbacks do not start or cancel the timer they belong to.
Run times are natural numbers: what is said of them holds as long as no
`vrun_time`, a 32-bit `long`, passes 2^31.

## 9. The plan

Done: the models of section 2 with their runs, and the theorems of section 6.

Left: theorems about the components that have none and are within reach of the
prover: `Gpio` and `Input` (their parts of `DriversTrue`).
