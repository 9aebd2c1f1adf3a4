----------------------------- MODULE Lifecycle -----------------------------
(***************************************************************************)
(* What fork, exit and wait promise a program that waits for each child it *)
(* starts, with the queues, the lists and the steps inside a call hidden:  *)
(* a child is reaped by its parent, once, and only after it has exited; a  *)
(* parent that waits is woken by the exit of its child and by nothing      *)
(* else; a block is reused only after it has been reaped.  Tasks           *)
(* implements this module.                                                 *)
(***************************************************************************)
CONSTANTS Tasks, InitTask

VARIABLES
    phase,    \* "absent", "ready", "waiting", "woken" or "exited"
    parent,   \* who forked a task
    running   \* the task on the CPU

vars == <<phase, parent, running>>

Runnable(t) == t = InitTask \/ phase[t] \in {"ready", "woken"}

Init ==
    \E first \in Tasks :
        /\ phase = [t \in Tasks |-> IF t = first THEN "ready" ELSE "absent"]
        /\ parent = [t \in Tasks \cup {InitTask} |-> InitTask]
        /\ running = InitTask

\* The CPU goes to another task: always possible for one that can run, and to
\* one that can run only.
Dispatch ==
    /\ running' \in {t \in Tasks \cup {InitTask} : Runnable(t)}
    /\ UNCHANGED <<phase, parent>>

Fork(t, c) ==
    /\ running = t /\ phase[t] = "ready" /\ phase[c] = "absent"
    /\ phase' = [phase EXCEPT ![c] = "ready"]
    /\ parent' = [parent EXCEPT ![c] = t]
    /\ UNCHANGED running

Exit(t) ==
    /\ running = t /\ phase[t] = "ready"
    /\ \A c \in Tasks : phase[c] # "absent" => parent[c] # t
    /\ phase' = [phase EXCEPT ![t] = "exited"]
    /\ UNCHANGED <<parent, running>>

\* t waits for its child c, which has not exited.
Wait(t, c) ==
    /\ running = t /\ phase[t] = "ready"
    /\ parent[c] = t /\ phase[c] \notin {"absent", "exited"}
    /\ phase' = [phase EXCEPT ![t] = "waiting"]
    /\ running' \in {u \in Tasks \cup {InitTask} : u # t /\ Runnable(u)}
    /\ UNCHANGED parent

\* An exiting task wakes its parent.
Notify(c) ==
    /\ running = c /\ phase[c] = "exited"
    /\ parent[c] \in Tasks /\ phase[parent[c]] = "waiting"
    /\ phase' = [phase EXCEPT ![parent[c]] = "woken"]
    /\ UNCHANGED <<parent, running>>

Reap(t, c) ==
    /\ running = t /\ phase[t] \in {"ready", "woken"}
    /\ parent[c] = t /\ phase[c] = "exited"
    /\ phase' = [phase EXCEPT ![t] = "ready", ![c] = "absent"]
    /\ UNCHANGED <<parent, running>>

Next ==
    \/ Dispatch
    \/ \E t, c \in Tasks : Fork(t, c) \/ Wait(t, c) \/ Reap(t, c)
    \/ \E t \in Tasks : Exit(t) \/ Notify(t)

Spec == Init /\ [][Next]_vars

=============================================================================
