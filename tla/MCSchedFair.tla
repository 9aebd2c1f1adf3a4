---------------------------- MODULE MCSchedFair ----------------------------
(* The model-checking instance of SchedFair: a run has the accounting of   *)
(* the tick or it has none.                                                *)
EXTENDS SchedFair

VARIABLE subject    \* "share", with the accounting, or "stack"

\* The x4418, whose timer charges nothing.
Stack == INSTANCE SchedFair WITH TickAccounting <- FALSE

(* Run times grow without bound but are only ever compared.  Here the least *)
(* of them is subtracted from all after each tick, which no comparison can  *)
(* see; the boot task, which gives the CPU up for good, stays as it is.  A  *)
(* time slice below 0 is only ever compared with 0, and it does not come    *)
(* back to 0 before a long wraps around: all such values are one.           *)

Least(v) == CHOOSE m \in {v[t] : t \in Tasks} : \A t \in Tasks : m <= v[t]

(* FairShare says that no difference exceeds one tick; all those from       *)
(* MaxSpread on are taken for one, so that a scheduler that broke it would  *)
(* still have a finite number of states.                                    *)
MaxSpread == 6

Rebase(v) ==
    [t \in AllTasks |->
        IF t = InitTask THEN v[t]
        ELSE IF v[t] - Least(v) > MaxSpread THEN MaxSpread ELSE v[t] - Least(v)]

RebasedSlice(ts) ==
    [ts EXCEPT !.CPU_exec_task_jiffies = IF @ < -1 THEN -1 ELSE @]

RebasedTick ==
    /\ TickAccounting
    /\ LET charged == [vrun_time EXCEPT ![current] = @ + 2]
       IN  /\ schedule(RebasedSlice(tick_charge(task_schedule)), state, charged)
           /\ vrun_time' = Rebase(charged)
    /\ UNCHANGED state

SuiteInit == Init /\ subject \in {"share", "stack"}

Interrupt == subject = "share" /\ irq /\ UNCHANGED subject
TickInterrupt == subject = "share" /\ RebasedTick /\ UNCHANGED subject
StackStep == subject = "stack" /\ Stack!Next /\ UNCHANGED subject

SuiteNext == Interrupt \/ TickInterrupt \/ StackStep

\* The tick comes for ever.
SuiteSpec == SuiteInit /\ [][SuiteNext]_<<vars, subject>> /\ WF_<<vars, subject>>(TickInterrupt)

\* With the accounting of the tick no runnable task starves.
NobodyStarves == subject = "share" => \A t \in Tasks : []<>(current = t)

=============================================================================
