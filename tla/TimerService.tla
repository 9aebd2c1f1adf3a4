---------------------------- MODULE TimerService ----------------------------
(***************************************************************************)
(* What the timers promise their users: a timer is called back after its   *)
(* deadline, once for each start, one callback at a time, the earliest     *)
(* deadline first; one that has been cancelled is not called back.  Timer  *)
(* implements this module.                                                 *)
(***************************************************************************)
EXTENDS Integers

CONSTANTS Timers, NoTimer

VARIABLES
    clock,
    deadline,  \* when a timer is to be called back, or Never
    called     \* the timer that is being called back, or NoTimer

vars == <<clock, deadline, called>>

Never == -1

Set == {t \in Timers : deadline[t] # Never}

Init ==
    /\ clock \in Nat
    /\ deadline \in [Timers -> Nat \cup {Never}]
    /\ called = NoTimer

Start(t) ==
    /\ t # called
    /\ deadline'[t] \in Nat
    /\ deadline' = [deadline EXCEPT ![t] = deadline'[t]]
    /\ UNCHANGED <<clock, called>>

Cancel(t) ==
    /\ t # called
    /\ deadline' = [deadline EXCEPT ![t] = Never]
    /\ UNCHANGED <<clock, called>>

Call(t) ==
    /\ called = NoTimer
    /\ t \in Set /\ deadline[t] <= clock
    /\ \A u \in Set : deadline[t] <= deadline[u]
    /\ called' = t
    /\ deadline' = [deadline EXCEPT ![t] = Never]
    /\ UNCHANGED clock

\* The callback returns and may have asked for another call, not in the past.
Return(t) ==
    /\ called = t
    /\ called' = NoTimer
    /\ \/ UNCHANGED deadline
       \/ /\ deadline'[t] \in Nat /\ deadline'[t] >= clock
          /\ deadline' = [deadline EXCEPT ![t] = deadline'[t]]
    /\ UNCHANGED clock

Tick ==
    /\ clock' = clock + 1
    /\ UNCHANGED <<deadline, called>>

Next == Tick \/ \E t \in Timers : Start(t) \/ Cancel(t) \/ Call(t) \/ Return(t)

Spec == Init /\ [][Next]_vars

=============================================================================
