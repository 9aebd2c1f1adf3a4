------------------------------- MODULE Devices -------------------------------
(* The table of devices (device.c) and its mirror in the tree of kobjs,     *)
(* /device/<class> (kobj.c).  An actor is a task that probes a device or    *)
(* the interrupt in which the timer of a card registers one.  Tasks are     *)
(* preempted between any two of the steps below, each of which is one       *)
(* search or one locked section; an interrupt runs through before any task  *)
(* goes on.  Names are numbers: the id that alloc_device_name() appends.    *)
EXTENDS Naturals, Sequences, SequencesExt, FiniteSets, FiniteSetsExt

CONSTANTS
    Tasks, Irqs,    \* the actors
    Each            \* bound: the devices that each of them may have at once

Actors == Tasks \cup Irqs
Devs == Actors \X (1..Each)
Owner(d) == d[1]
Ids == 0..Cardinality(Devs)
None == <<>>
DevicesAssumption == IsFiniteSet(Actors) /\ Each \in Nat /\ Tasks \cap Irqs = {}

VARIABLES
    list,       \* __device_list; the hash chains are searched in the opposite order
    dir,        \* the kobjs linked below the directory of the class
    live,       \* the device_t's that have been allocated and not freed
    name,       \* dev->name
    at,         \* where an actor is
    dev,        \* the device_t it works on
    heard,      \* the last that the notifier chain was told of a device
    shared,     \* history: the device_t's whose name another live one has had as well
    broken      \* history: list_del() of what is not linked, free() of what is free
vars == <<list, dir, live, name, at, dev, heard, shared, broken>>

Init ==
    /\ list = <<>> /\ dir = {} /\ live = {}
    /\ name = [d \in Devs |-> 0]
    /\ at = [a \in Actors |-> "idle"]
    /\ dev = [a \in Actors |-> None]
    /\ heard = [d \in Devs |-> "none"]
    /\ shared = {}
    /\ broken = FALSE

Listed == ToSet(list)
Named(id) == {i \in DOMAIN list : name[list[i]] = id}
device_exist(id) == Named(id) # {}
kobj_search(id) == \E d \in dir : name[d] = id
search_device(id) == IF device_exist(id) THEN list[Max(Named(id))] ELSE None

\* An interrupt is not preempted.
Runs(a) == \A i \in Irqs \ {a} : at[i] = "idle"
Step(a, from, to) == Runs(a) /\ at[a] = from /\ at' = [at EXCEPT ![a] = to]

----------------------------------------------------------------------------
(* register_device()                                                        *)

alloc_device_name(a, d) ==
    /\ Owner(d) = a /\ d \notin live
    /\ Step(a, "idle", "named")
    /\ dev' = [dev EXCEPT ![a] = d]
    /\ live' = live \cup {d}
    /\ name' = [name EXCEPT ![d] = Min({id \in Ids : ~device_exist(id)})]
    /\ heard' = [heard EXCEPT ![d] = "none"]
    /\ LET same == {e \in live : name[e] = name'[d]}
       IN shared' = IF same = {} THEN shared ELSE shared \cup same \cup {d}
    /\ UNCHANGED <<list, dir, broken>>

CheckName(a) ==
    /\ Step(a, "named", IF device_exist(name[dev[a]]) THEN "failed" ELSE "free name")
    /\ UNCHANGED <<list, dir, live, name, dev, heard, shared, broken>>

\* The caller gives the device_t back.
Fail(a) ==
    /\ Step(a, "failed", "idle")
    /\ live' = live \ {dev[a]}
    /\ UNCHANGED <<list, dir, name, dev, heard, shared, broken>>

\* kobj_add() refuses a second child of the name; nobody looks at its result.
search_device_kobj(a) ==
    /\ Step(a, "free name", IF kobj_search(name[dev[a]]) THEN "in tree" ELSE "not in tree")
    /\ UNCHANGED <<list, dir, live, name, dev, heard, shared, broken>>

kobj_add(a) ==
    /\ Step(a, "not in tree", "in tree")
    /\ dir' = dir \cup {dev[a]}
    /\ UNCHANGED <<list, live, name, dev, heard, shared, broken>>

Link(a) ==
    /\ Step(a, "in tree", "listed")
    /\ list' = Append(list, dev[a])
    /\ UNCHANGED <<dir, live, name, dev, heard, shared, broken>>

\* (mutant: the chain is not told)
NotifyAdd_skips(a) ==
    /\ Step(a, "listed", "idle")
    /\ UNCHANGED <<list, dir, live, name, dev, heard, shared, broken>>
NotifyAdd(a) ==
    /\ Step(a, "listed", "idle")
    /\ heard' = [heard EXCEPT ![dev[a]] = "add"]
    /\ UNCHANGED <<list, dir, live, name, dev, shared, broken>>

----------------------------------------------------------------------------
(* unregister_led() and its like search the device by name and unregister   *)
(* what they have found.                                                    *)

Search(a, d) ==
    /\ Owner(d) = a /\ d \in live
    /\ Step(a, "idle", IF device_exist(name[d]) THEN "found" ELSE "gone")
    /\ dev' = [dev EXCEPT ![a] = search_device(name[d])]
    /\ UNCHANGED <<list, dir, live, name, heard, shared, broken>>

\* unregister_device(): hlist_unhashed(), then the chain is told.
NotifyRemove(a) ==
    /\ \/ Step(a, "found", "leaving") /\ dev[a] \in Listed /\ heard' = [heard EXCEPT ![dev[a]] = "remove"]
       \/ Step(a, "found", "gone") /\ dev[a] \notin Listed /\ UNCHANGED heard
    /\ UNCHANGED <<list, dir, live, name, dev, shared, broken>>

Unlink(a) ==
    /\ Step(a, "leaving", "unlinked")
    /\ \/ \E i \in DOMAIN list : list[i] = dev[a] /\ list' = RemoveAt(list, i) /\ UNCHANGED broken
       \/ dev[a] \notin Listed /\ broken' = TRUE /\ UNCHANGED list
    /\ UNCHANGED <<dir, live, name, dev, heard, shared>>

\* kobj_remove(), kobj_remove_self() and free().
Free_linked(a) ==
    /\ Step(a, "unlinked", "idle")
    /\ live' = live \ {dev[a]}
    /\ broken' = (broken \/ dev[a] \notin live)
    /\ UNCHANGED <<list, dir, name, dev, heard, shared>>

Free(a) ==
    /\ Step(a, "unlinked", "idle")
    /\ dir' = dir \ {dev[a]}
    /\ live' = live \ {dev[a]}
    /\ broken' = (broken \/ dev[a] \notin live)
    /\ UNCHANGED <<list, name, dev, heard, shared>>

Gone(a) ==
    /\ Step(a, "gone", "idle")
    /\ UNCHANGED <<list, dir, live, name, dev, heard, shared, broken>>

\* What happens after memory is damaged is undefined: the model ends there.
Next ==
    /\ ~broken
    /\ \E a \in Actors :
          \/ \E d \in Devs : alloc_device_name(a, d) \/ Search(a, d)
          \/ CheckName(a) \/ Fail(a) \/ search_device_kobj(a) \/ kobj_add(a) \/ Link(a) \/ NotifyAdd(a)
          \/ NotifyRemove(a) \/ Unlink(a) \/ Free(a) \/ Gone(a)

Spec == Init /\ [][Next]_vars

----------------------------------------------------------------------------
(* What the table of devices promises, and where two actors can undo it.    *)

Places == {"idle", "named", "failed", "free name", "not in tree", "in tree", "listed",
           "found", "gone", "leaving", "unlinked"}

TypeOK ==
    /\ Listed \subseteq Devs /\ dir \subseteq Devs /\ live \subseteq Devs
    /\ shared \subseteq Devs
    /\ name \in [Devs -> Ids]
    /\ at \in [Actors -> Places]
    /\ \A a \in Actors : dev[a] \in Devs \/ (dev[a] = None /\ at[a] \in {"idle", "gone"})
    /\ heard \in [Devs -> {"none", "add", "remove"}]
    /\ broken \in BOOLEAN

Busy(d) == \E a \in Actors : at[a] # "idle" /\ dev[a] = d

\* register_device() looks for the name before it takes the lock, so that two devices
\* of one name can be listed: but never two of the same actor, and of two only one
\* that a task was preempted in registering is listed last.
TwinsOnlyByPreemption ==
    \A i, j \in DOMAIN list :
        i < j /\ name[list[i]] = name[list[j]] =>
            Owner(list[i]) # Owner(list[j]) /\ Owner(list[j]) \in Tasks

\* The directory of the class shows the listed devices and no other, but for those
\* being registered or removed and those that have shared their name.
TreeShowsTheTable ==
    \A d \in Devs \ shared : Busy(d) \/ (d \in dir <=> d \in Listed)

\* A device is unlinked and freed once, and a listed one is not free, as long as no
\* two have shared a name: the search by name then finds the caller's own.
RemovedOnce == shared = {} => ~broken /\ Listed \subseteq live

\* What is removed belongs to the actor that removes it, unless it has shared its name.
RemovesItsOwn ==
    \A a \in Actors :
        at[a] \in {"leaving", "unlinked"} => Owner(dev[a]) = a \/ dev[a] \in shared

\* The notifier chain is told outside the lock, and yet it hears of the addition of a
\* device before its removal, unless the device has shared its name.
AddedBeforeRemoved == \A d \in Devs \ shared : heard[d] = "none" => heard'[d] # "remove"
AddedFirst == [][AddedBeforeRemoved]_vars

TableSound == TypeOK /\ TwinsOnlyByPreemption /\ TreeShowsTheTable /\ RemovedOnce /\ RemovesItsOwn
=============================================================================
