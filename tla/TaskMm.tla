------------------------------- MODULE TaskMm -------------------------------
(* The memory and the open files of the tasks: what fork, vfork and execve  *)
(* copy, share and replace, and what exit and wait4 free (task.c, sys.c).   *)
(* A task is preempted between the parts of do_fork(); do_execve() runs     *)
(* with interrupts off.  An mm_struct stands for its page directory, too.   *)
EXTENDS Integers, Sequences, FiniteSetTheorems, SequenceTheorems, TLAPS

CONSTANTS
    MaxTasks,           \* bound: tasks made
    TASK_FILE_MAX,
    Programs, Init0,    \* what execve can load, and what the init task runs
    MaxExecs, MaxOpens, \* bounds
    Growers             \* the tasks that call brk

ASSUME TaskMmAssumption == {MaxTasks, TASK_FILE_MAX} \subseteq Nat \ {0} /\ Init0 \notin Programs

VARIABLES
    task,       \* the tasks made so far: state, flag PF_VFORK, mm, file_struct, parent, and the child do_fork() makes
    mm,         \* the mm_struct made so far: whether it is in use and has a program, its page, who made it, end_brk
    page,       \* the pages: whether in use, the program, and whether its arguments are those that were given
    filp,       \* the struct file: whether in use, and whether execve made it
    execs, opens,
    twice,      \* history: what was freed twice: files and others
    pinched,    \* history: the files that a task with PF_VFORK has closed
    lent,       \* history: the files that were in a table when vfork copied it
    want,       \* history: what each task is to run
    blanked,    \* history: the tasks whose execve has failed
    reexec,     \* history: a task has replaced its own program
    nested,     \* history: a task with PF_VFORK has forked, opened a file or failed in execve
    asked       \* history: the memory each task has asked brk for
hvars == <<twice, lent, pinched, want, blanked, reexec, nested, asked>>
vars == <<task, mm, page, filp, execs, opens, hvars>>

Fd == 1..TASK_FILE_MAX
Pid == 1..Len(task)
NoFiles == [fd \in Fd |-> 0]
Runs(t) == task[t].state = "running"
InUser(t) == Runs(t) /\ task[t].at = "user"
Page(t) == mm[task[t].mm].page

\* init() after its first execve: kernel_thread() gives it PF_VFORK, execve takes it away.
Init ==
    /\ task = <<[state |-> "running", at |-> "user", vfork |-> FALSE, mm |-> 1, files |-> NoFiles, parent |-> 0, child |-> 0]>>
    /\ mm = <<[used |-> TRUE, sized |-> TRUE, page |-> 1, by |-> 1, brk |-> 0]>>
    /\ page = <<[used |-> TRUE, content |-> Init0]>> /\ filp = <<>>
    /\ execs = 0 /\ opens = 0
    /\ twice = {} /\ lent = {} /\ pinched = {} /\ want = <<Init0>> /\ blanked = {} /\ reexec = FALSE /\ nested = FALSE /\ asked = <<0>>

----------------------------------------------------------------------------
(* do_fork()                                                                *)

Held(t) == {task[t].files[fd] : fd \in Fd} \ {0}
\* The task is a copy of its parent, files and all, and is on the list of tasks from now on.
Fork(t, vfork) ==
    /\ InUser(t) /\ Len(task) < MaxTasks
    /\ task' = Append([task EXCEPT ![t].at = IF vfork THEN "vfork mm" ELSE "fork mm", ![t].child = Len(task) + 1],
                      [task[t] EXCEPT !.state = "made", !.parent = t, !.vfork = (@ \/ vfork)])
    /\ lent' = IF vfork THEN lent \cup Held(t) ELSE lent
    /\ want' = Append(want, want[t]) /\ asked' = Append(asked, 0) /\ nested' = (nested \/ task[t].vfork)
    /\ blanked' = IF t \in blanked THEN blanked \cup {Len(task) + 1} ELSE blanked
    /\ UNCHANGED <<mm, page, filp, execs, opens, twice, pinched, reexec>>
sys_fork(t) == Fork(t, FALSE)
sys_vfork(t) == Fork(t, TRUE)

copy_mm(t) ==
    LET p == task[t].child IN
    /\ \/ /\ task[t].at = "vfork mm"
          /\ task' = [task EXCEPT ![t].at = "wake", ![p].mm = task[t].mm] /\ UNCHANGED <<mm, page>>
       \/ /\ task[t].at = "fork mm"
          /\ LET old == mm[task[t].mm] IN
               IF old.sized
                 THEN /\ mm' = Append(mm, [old EXCEPT !.used = TRUE, !.page = Len(page) + 1, !.by = p])
                      /\ page' = Append(page, [page[old.page] EXCEPT !.used = TRUE])
                 ELSE mm' = Append(mm, [old EXCEPT !.used = TRUE, !.page = 0, !.by = p]) /\ UNCHANGED page
          /\ task' = [task EXCEPT ![t].at = "fork files", ![p].mm = Len(mm) + 1]
    /\ UNCHANGED <<filp, execs, opens, hvars>>

\* kmalloc() may place the new files in any order.
Opened(t) == {fd \in Fd : task[t].files[fd] # 0}
Places(t) == Len(filp) + 1 .. Len(filp) + Cardinality(Opened(t))
Copies(t) ==
    {new \in [Opened(t) -> Places(t)] : /\ \A fd, gd \in Opened(t) : new[fd] = new[gd] => fd = gd
                                        /\ \A f \in Places(t) : \E fd \in Opened(t) : new[fd] = f}
copy_files(t) ==
    /\ task[t].at = "fork files"
    /\ \E new \in Copies(t) :
         task' = [task EXCEPT ![t].at = "wake", ![task[t].child].files = [fd \in Fd |-> IF fd \in Opened(t) THEN new[fd] ELSE 0]]
    /\ filp' = filp \o [i \in 1 .. Cardinality(Opened(t)) |-> [used |-> TRUE, exec |-> FALSE]]
    /\ UNCHANGED <<mm, page, execs, opens, hvars>>
Wake(t) ==
    /\ task[t].at = "wake"
    /\ task' = [task EXCEPT ![t].at = "user", ![t].child = 0, ![task[t].child].state = "running", ![task[t].child].at = "user"]
    /\ UNCHANGED <<mm, page, filp, execs, opens, hvars>>

----------------------------------------------------------------------------
(* Freeing                                                                  *)

FreeFiles(fs) ==
    /\ filp' = [f \in DOMAIN filp |-> IF f \in fs THEN [filp[f] EXCEPT !.used = FALSE] ELSE filp[f]]
    /\ twice' = twice \cup {<<"file", f>> : f \in {g \in fs : ~filp[g].used}}

\* A task with PF_VFORK does not free the files: they are its parent's.
ToFree(t) == IF task[t].vfork THEN {} ELSE Held(t)

\* exit_mm(): the page of the program, the page directory and the mm_struct.
exit_mm_any(t) ==
    /\ mm' = [mm EXCEPT ![task[t].mm].used = FALSE] /\ page' = [page EXCEPT ![Page(t)].used = FALSE]
    /\ twice' = twice \cup (IF mm[task[t].mm].used THEN {} ELSE {<<"mm", task[t].mm>>})
                      \cup (IF page[Page(t)].used THEN {} ELSE {<<"page", Page(t)>>})
exit_mm(t) ==
    IF task[t].vfork THEN UNCHANGED <<mm, page, twice>>
    ELSE /\ mm' = [mm EXCEPT ![task[t].mm].used = FALSE] /\ page' = [page EXCEPT ![Page(t)].used = FALSE]
         /\ twice' = twice \cup (IF mm[task[t].mm].used THEN {} ELSE {<<"mm", task[t].mm>>})
                           \cup (IF page[Page(t)].used THEN {} ELSE {<<"page", Page(t)>>})

----------------------------------------------------------------------------
(* The calls                                                                *)

\* A new page takes the place of the old one before the file is looked for,
\* and before the arguments, which were in the old one, are read.
Fresh(c) == [used |-> TRUE, content |-> c]
Load(t, c) ==
    LET old == IF task[t].vfork THEN [used |-> TRUE, sized |-> FALSE, page |-> 0, by |-> t, brk |-> 0] ELSE mm[task[t].mm]
        new == [old EXCEPT !.page = Len(page) + 1, !.sized = (@ \/ c # "blank"), !.brk = IF c = "blank" THEN @ ELSE 0]
    IN /\ page' = Append(page, Fresh(c))
       /\ mm' = IF task[t].vfork THEN Append(mm, new) ELSE [mm EXCEPT ![task[t].mm] = new]
NewMm(t) == IF task[t].vfork THEN Len(mm) + 1 ELSE task[t].mm
\* The program, or "blank" when there is no file of that name.
do_execve(t, c) ==
    /\ Load(t, c)
    /\ IF c = "blank" THEN task' = [task EXCEPT ![t].mm = NewMm(t)] /\ UNCHANGED <<filp, twice>>
       ELSE /\ task' = [task EXCEPT ![t].mm = NewMm(t), ![t].vfork = FALSE, ![t].files = NoFiles]
            /\ twice' = twice \cup {<<"file", f>> : f \in {g \in ToFree(t) : ~filp[g].used}}
            /\ filp' = Append([f \in DOMAIN filp |-> IF f \in ToFree(t) THEN [filp[f] EXCEPT !.used = FALSE] ELSE filp[f]],
                              [used |-> TRUE, exec |-> TRUE])
sys_execve(t) == \E c \in Programs \cup {"blank"} :
    /\ InUser(t) /\ execs < MaxExecs /\ execs' = execs + 1 /\ do_execve(t, c)
    /\ want' = IF c = "blank" THEN want ELSE [want EXCEPT ![t] = c]
    /\ blanked' = IF c = "blank" THEN blanked \cup {t} ELSE blanked \ {t}
    /\ reexec' = (reexec \/ ~task[t].vfork) /\ nested' = (nested \/ (task[t].vfork /\ c = "blank"))
    /\ asked' = IF c = "blank" THEN asked ELSE [asked EXCEPT ![t] = 0]
    /\ UNCHANGED <<opens, lent, pinched>>

sys_open(t) == \E fd \in Fd :
    /\ InUser(t) /\ opens < MaxOpens /\ opens' = opens + 1
    /\ task[t].files[fd] = 0 /\ \A g \in 1..(fd - 1) : task[t].files[g] # 0
    /\ task' = [task EXCEPT ![t].files[fd] = Len(filp) + 1] /\ filp' = Append(filp, [used |-> TRUE, exec |-> FALSE])
    /\ nested' = (nested \/ task[t].vfork)
    /\ UNCHANGED <<mm, page, execs, twice, lent, pinched, want, blanked, reexec, asked>>
sys_close(t) == \E fd \in Fd :
    /\ InUser(t) /\ task[t].files[fd] # 0
    /\ FreeFiles({task[t].files[fd]}) /\ task' = [task EXCEPT ![t].files[fd] = 0]
    /\ pinched' = IF task[t].vfork THEN pinched \cup {task[t].files[fd]} ELSE pinched
    /\ UNCHANGED <<mm, page, execs, opens, lent, want, blanked, reexec, nested, asked>>

\* The body of do_brk() is a comment: what it returns is its first argument.
do_brk(addr, len) == addr
sys_brk(t) ==
    /\ InUser(t) /\ t \in Growers /\ asked[t] = 0 /\ mm[task[t].mm].used
    /\ mm' = [mm EXCEPT ![task[t].mm].brk = do_brk(@, 1 - @)] /\ asked' = [asked EXCEPT ![t] = 1]
    /\ UNCHANGED <<task, page, filp, execs, opens, twice, lent, pinched, want, blanked, reexec, nested>>

do_exit(t) ==
    /\ InUser(t) /\ FreeFiles(ToFree(t))
    /\ task' = [task EXCEPT ![t].state = "zombie", ![t].files = NoFiles]
    /\ UNCHANGED <<mm, page, execs, opens, lent, pinched, want, blanked, reexec, nested, asked>>
\* It has exited already, and need not be a child of t; when wait4 reaps a task that has
\* not is in Tasks.
sys_wait4(t) == \E c \in Pid :
    /\ InUser(t) /\ task[c].state = "zombie"
    /\ exit_mm(c) /\ task' = [task EXCEPT ![c].state = "reaped"]
    /\ UNCHANGED <<filp, execs, opens, lent, pinched, want, blanked, reexec, nested, asked>>

Step(t) ==
    \/ sys_fork(t) \/ sys_vfork(t) \/ copy_mm(t) \/ copy_files(t) \/ Wake(t)
    \/ sys_execve(t) \/ sys_open(t) \/ sys_close(t) \/ sys_brk(t) \/ do_exit(t) \/ sys_wait4(t)
Next == \E t \in Pid : Step(t)
Spec == Init /\ [][Next]_vars

----------------------------------------------------------------------------
(* Who owns what memory and which files, and when it is freed.              *)

Using == {t \in Pid : Runs(t)}          \* the tasks that may touch their memory
Own(t) == ~task[t].vfork

\* A task that runs in memory of its own has it until it is reaped; only memory
\* that was borrowed with vfork can go, and then because its owner was reaped.
MemoryLasts ==
    /\ \A t \in Using : Own(t) => (mm[task[t].mm].used /\ page[Page(t)].used)
    /\ \A m \in DOMAIN mm : ~mm[m].used => task[mm[m].by].state = "reaped"

\* Two tasks share an mm_struct or a page only when one of them has borrowed it,
\* and an open file only when vfork has copied the table that held it.
Isolated ==
    \A t \in Using : \A u \in Using \ {t} :
      /\ (Own(t) /\ Own(u)) => (task[t].mm # task[u].mm /\ Page(t) # Page(u))
      /\ Held(t) \cap Held(u) \subseteq lent

\* An open file is there as long as a task has it and a borrower has not closed
\* it, for a borrower as long as the others have not; nothing else is freed twice.
FilesLast ==
    /\ \A t \in Using : \A f \in Held(t) : filp[f].used \/ f \in (IF Own(t) THEN pinched ELSE lent)
    /\ \A x \in twice : x[1] = "file" /\ x[2] \in lent

\* In memory of its own a task finds the program it was forked with or has
\* executed last, whatever its children and its parent do, unless its execve failed.
RunsItsProgram ==
    \A t \in Using : (Own(t) /\ t \notin blanked) => page[Page(t)].content = want[t]

\* Memory that is in use belongs to somebody, as long as no program was replaced
\* by another and no borrower has done more than exec or exit; the file that
\* execve reads is never freed.
Somebody == {t \in Pid : task[t].state # "reaped"}
NoneIsLost ==
    /\ ~nested => \A m \in DOMAIN mm : mm[m].used => \E t \in Somebody : task[t].mm = m
    /\ ~(nested \/ reexec) => \A p \in DOMAIN page : page[p].used => \E t \in Somebody : Page(t) = p
    /\ ~nested => \A f \in DOMAIN filp : filp[f].used => (filp[f].exec \/ \E t \in Somebody : f \in Held(t))

\* All of it: fork, vfork, execve, exit and wait4 take no memory, no program and
\* no file from a task that still has it, and lose none.
MemoryKept == MemoryLasts /\ Isolated /\ FilesLast /\ RunsItsProgram /\ NoneIsLost
----------------------------------------------------------------------------
(* The inductive invariant.  What a task has while it is made depends on    *)
(* how far its parent has come in do_fork().                                *)

TaskStructs ==
    [state : {"made", "running", "zombie", "reaped"}, at : {"user", "vfork mm", "fork mm", "fork files", "wake"},
     vfork : BOOLEAN, mm : Nat, files : [Fd -> Nat], parent : Nat, child : Nat]
MmStructs == [used : BOOLEAN, sized : BOOLEAN, page : Nat, by : Nat, brk : {0, 1}]
Pages == [used : BOOLEAN, content : Programs \cup {Init0, "blank"}]
FileStructs == [used : BOOLEAN, exec : BOOLEAN]

Types ==
    /\ task \in Seq(TaskStructs) /\ mm \in Seq(MmStructs) /\ page \in Seq(Pages) /\ filp \in Seq(FileStructs)
    /\ want \in Seq(Programs \cup {Init0}) /\ Len(want) = Len(task)
    /\ {nested, reexec} \subseteq BOOLEAN

\* Nothing points to what was never made.
PointersInv ==
    /\ \A t \in Pid : /\ task[t].mm \in DOMAIN mm
                      /\ \A fd \in Fd : task[t].files[fd] \in {0} \cup DOMAIN filp
    /\ \A m \in DOMAIN mm : mm[m].page \in {0} \cup DOMAIN page /\ mm[m].by \in Pid

Made(c) == task[c].state = "made"
Forker(c) == task[task[c].parent]
\* Each task that is being made has one parent, in do_fork().
ForkInv ==
    /\ \A t \in Pid : task[t].at # "user" =>
         Runs(t) /\ task[t].child \in Pid /\ Made(task[t].child) /\ task[task[t].child].parent = t
    /\ \A c \in Pid : Made(c) => /\ task[c].parent \in Pid /\ Forker(c).at # "user" /\ Forker(c).child = c
                                 /\ task[c].at = "user"

\* Until its own memory is made it is to run what its parent runs.
CopyInv ==
    \A c \in Pid : Made(c) =>
      LET p == task[c].parent IN
        /\ Forker(c).at \in {"fork mm", "fork files"} => task[c].vfork = task[p].vfork
        /\ Forker(c).at = "vfork mm" => task[c].vfork
        /\ want[c] = want[p] /\ (p \in blanked => c \in blanked)
        /\ ~nested => ~task[p].vfork

HasMm(t) == \/ task[t].state \in {"running", "zombie"}
            \/ Made(t) /\ Forker(t).at \in {"fork files", "wake"}
HasFiles(t) == \/ Runs(t)
               \/ Made(t) /\ Forker(t).at \in {"vfork mm", "wake"}

\* Memory is made for one task, which has it until it is reaped; and so is a page for an mm_struct.
MmInv ==
    /\ \A t \in Pid : Own(t) /\ HasMm(t) =>
         LET m == task[t].mm IN mm[m].used /\ mm[m].by = t /\ mm[m].sized
    /\ \A m \in DOMAIN mm :
         /\ mm[m].sized => mm[m].page # 0
         /\ mm[m].used /\ mm[m].page # 0 => page[mm[m].page].used
         /\ ~mm[m].used => task[mm[m].by].state = "reaped"
         /\ \A n \in DOMAIN mm : m # n /\ mm[m].page # 0 => mm[m].page # mm[n].page
ProgramInv ==
    \A t \in Pid : Own(t) /\ HasMm(t) /\ t \notin blanked => page[Page(t)].content = want[t]

\* A file is in two tables only if it was in one that vfork has copied, and then one of them is the borrower's.
FilesInv ==
    /\ \A t \in Pid : task[t].state \in {"zombie", "reaped"} => Held(t) = {}
    /\ \A t \in Pid : \A fd, gd \in Fd : task[t].files[fd] = task[t].files[gd] => fd = gd \/ task[t].files[fd] = 0
    /\ \A t, u \in Pid : t # u /\ HasFiles(t) /\ HasFiles(u) =>
         Held(t) \cap Held(u) \subseteq IF Own(t) /\ Own(u) THEN {} ELSE lent
    /\ \A t \in Pid : HasFiles(t) => \A f \in Held(t) : filp[f].used \/ (f \in lent /\ (Own(t) => f \in pinched))
TwiceInv == \A x \in twice : x[1] = "file" /\ x[2] \in lent

\* Without nesting, what is in use has an owner that was not reaped.
OwnersInv ==
    ~nested =>
      /\ \A m \in DOMAIN mm : mm[m].used =>
           LET t == mm[m].by IN Own(t) /\ HasMm(t) /\ task[t].mm = m
      /\ ~reexec => \A p \in DOMAIN page : page[p].used => \E m \in DOMAIN mm : mm[m].used /\ mm[m].page = p
      /\ \A f \in DOMAIN filp : filp[f].used /\ ~filp[f].exec => \E t \in Pid : Own(t) /\ HasFiles(t) /\ f \in Held(t)

IInv == Types /\ PointersInv /\ ForkInv /\ CopyInv /\ MmInv /\ ProgramInv /\ FilesInv /\ TwiceInv /\ OwnersInv

----------------------------------------------------------------------------
(* What each call does to the tasks.                                        *)

LEMMA TaskFacts ==
    ASSUME Types
    PROVE  /\ Len(task) \in Nat /\ DOMAIN task = Pid /\ Len(mm) \in Nat /\ DOMAIN mm = 1 .. Len(mm)
           /\ Len(page) \in Nat /\ DOMAIN page = 1 .. Len(page) /\ Len(filp) \in Nat /\ DOMAIN filp = 1 .. Len(filp)
           /\ \A t \in Pid : task[t] \in TaskStructs
           /\ \A m \in DOMAIN mm : mm[m] \in MmStructs
           /\ \A p \in DOMAIN page : page[p] \in Pages
           /\ \A f \in DOMAIN filp : filp[f] \in FileStructs
BY DEF Types, Pid

LEMMA ForkDoes ==
    ASSUME Types, NEW t \in Pid, NEW vfork \in BOOLEAN, Fork(t, vfork)
    PROVE  LET c == Len(task) + 1 IN
           /\ Types' /\ Pid' = Pid \cup {c} /\ c \notin Pid
           /\ \A u \in Pid \ {t} : task'[u] = task[u]
           /\ task'[t] = [task[t] EXCEPT !.at = IF vfork THEN "vfork mm" ELSE "fork mm", !.child = c]
           /\ task'[c] = [task[t] EXCEPT !.state = "made", !.parent = t, !.vfork = (@ \/ vfork)]
           /\ \A u \in Pid : want'[u] = want[u]
           /\ want'[c] = want[t]
<1> DEFINE c == Len(task) + 1
           forker == [task[t] EXCEPT !.at = IF vfork THEN "vfork mm" ELSE "fork mm", !.child = c]
           made == [task[t] EXCEPT !.state = "made", !.parent = t, !.vfork = (@ \/ vfork)]
<1>1. Len(task) \in Nat /\ task[t] \in TaskStructs
  BY TaskFacts
<1>2. forker \in TaskStructs /\ made \in TaskStructs
  <2>1. c \in Nat /\ t \in Nat
    BY <1>1 DEF Pid
  <2>2. (task[t].vfork \/ vfork) \in BOOLEAN
    OBVIOUS
  <2>3. forker \in TaskStructs
    BY <1>1, <2>1 DEF TaskStructs
  <2>4. made \in TaskStructs
    BY <1>1, <2>1, <2>2 DEF TaskStructs
  <2> QED
    BY <2>3, <2>4
<1>3. task' = Append([task EXCEPT ![t] = forker], made)
  BY DEF Fork
<1> HIDE DEF forker, made
<1>4. [task EXCEPT ![t] = forker] \in Seq(TaskStructs) /\ Len([task EXCEPT ![t] = forker]) = Len(task)
  BY <1>2, ExceptSeq DEF Types, Pid
<1>5. /\ task' \in Seq(TaskStructs) /\ Len(task') = Len(task) + 1 /\ task'[c] = made
      /\ \A u \in Pid : task'[u] = [task EXCEPT ![t] = forker][u]
  BY <1>2, <1>3, <1>4, AppendProperties DEF Pid
<1>6. \A u \in Pid : task'[u] = IF u = t THEN forker ELSE task[u]
  BY <1>2, <1>5, ExceptSeq DEF Types, Pid
<1>7. want' = Append(want, want[t]) /\ want[t] \in Programs \cup {Init0}
  <2>1. want' = Append(want, want[t])
    BY DEF Fork
  <2> QED
    BY <2>1, ElementOfSeq DEF Types, Pid
<1>8. /\ want' \in Seq(Programs \cup {Init0}) /\ Len(want') = Len(task) + 1 /\ want'[c] = want[t]
      /\ \A u \in Pid : want'[u] = want[u]
  BY <1>7, AppendProperties DEF Types, Pid
<1>9. UNCHANGED <<mm, page, filp, reexec>> /\ nested' \in BOOLEAN
  BY <1>1 DEF Fork, Types, TaskStructs
<1> QED
  BY <1>1, <1>5, <1>6, <1>8, <1>9 DEF Types, Pid, forker, made

LEMMA OneTask ==
    ASSUME Types, NEW t \in Pid, NEW x \in TaskStructs, task' = [task EXCEPT ![t] = x]
    PROVE  /\ task' \in Seq(TaskStructs) /\ Len(task') = Len(task) /\ Pid' = Pid
           /\ task'[t] = x
           /\ \A u \in Pid \ {t} : task'[u] = task[u]
BY ExceptSeq DEF Types, Pid

LEMMA TwoTasks ==
    ASSUME Types, NEW t \in Pid, NEW c \in Pid, c # t, NEW x \in TaskStructs, NEW y \in TaskStructs,
           task' = [task EXCEPT ![t] = x, ![c] = y]
    PROVE  /\ task' \in Seq(TaskStructs) /\ Len(task') = Len(task) /\ Pid' = Pid
           /\ task'[t] = x /\ task'[c] = y
           /\ \A u \in Pid \ {t, c} : task'[u] = task[u]
<1> DEFINE s == [task EXCEPT ![t] = x]
<1>1. /\ s \in Seq(TaskStructs) /\ Len(s) = Len(task)
      /\ \A u \in Pid : s[u] = IF u = t THEN x ELSE task[u]
  BY ExceptSeq DEF Types, Pid
<1>2. task' = [s EXCEPT ![c] = y]
  OBVIOUS
<1> HIDE DEF s
<1>3. /\ task' \in Seq(TaskStructs) /\ Len(task') = Len(task)
      /\ \A u \in Pid : task'[u] = IF u = c THEN y ELSE s[u]
  <2>1. s \in Seq(TaskStructs) /\ c \in 1 .. Len(s) /\ Pid = 1 .. Len(s)
    BY <1>1 DEF Pid
  <2>2. /\ [s EXCEPT ![c] = y] \in Seq(TaskStructs) /\ Len([s EXCEPT ![c] = y]) = Len(s)
        /\ \A u \in 1 .. Len(s) : [s EXCEPT ![c] = y][u] = IF u = c THEN y ELSE s[u]
    BY <2>1, ExceptSeq
  <2> QED
    BY <1>1, <1>2, <2>1, <2>2
<1> QED
  BY <1>1, <1>3 DEF Pid

\* The parts of what most calls leave alone.
RestKept == UNCHANGED <<lent, pinched, want, blanked, reexec, nested>>

LEMMA CopyMmDoes ==
    ASSUME Types, PointersInv, ForkInv, MmInv, NEW t \in Pid, copy_mm(t)
    PROVE  LET c == task[t].child old == mm[task[t].mm] m == Len(mm) + 1 p == Len(page) + 1 IN
           /\ t # c /\ c \in Pid /\ Types' /\ Pid' = Pid /\ RestKept /\ UNCHANGED <<filp, twice>>
           /\ \A u \in Pid \ {t, c} : task'[u] = task[u]
           /\ \/ /\ task[t].at = "vfork mm" /\ task'[t] = [task[t] EXCEPT !.at = "wake"]
                 /\ task'[c] = [task[c] EXCEPT !.mm = task[t].mm]
                 /\ UNCHANGED <<mm, page>>
              \/ /\ task[t].at = "fork mm" /\ task'[t] = [task[t] EXCEPT !.at = "fork files"]
                 /\ task'[c] = [task[c] EXCEPT !.mm = m]
                 /\ Len(mm') = m /\ (\A n \in DOMAIN mm : mm'[n] = mm[n])
                 /\ mm'[m] = [old EXCEPT !.used = TRUE, !.page = IF old.sized THEN p ELSE 0, !.by = c]
                 /\ IF old.sized
                    THEN /\ Len(page') = p /\ (\A q \in DOMAIN page : page'[q] = page[q])
                         /\ page'[p] = [page[old.page] EXCEPT !.used = TRUE]
                    ELSE UNCHANGED page
<1> DEFINE c == task[t].child
           old == mm[task[t].mm]
           m == Len(mm) + 1
           p == Len(page) + 1
<1>1. t # c /\ c \in Pid /\ task[t] \in TaskStructs /\ task[c] \in TaskStructs
      /\ task[t].mm \in DOMAIN mm /\ Len(mm) \in Nat /\ Len(page) \in Nat
  <2>1. task[t].at # "user"
    BY DEF copy_mm
  <2>2. Runs(t) /\ c \in Pid /\ Made(c)
    BY <2>1 DEF ForkInv
  <2> QED
    BY <2>2, TaskFacts DEF Runs, Made, PointersInv
<1>2. RestKept /\ UNCHANGED <<filp, twice>>
  BY DEF copy_mm, hvars, RestKept
<1>3. CASE /\ task[t].at = "vfork mm"
           /\ task' = [task EXCEPT ![t].at = "wake", ![c].mm = task[t].mm] /\ UNCHANGED <<mm, page>>
  <2> DEFINE x == [task[t] EXCEPT !.at = "wake"]
             y == [task[c] EXCEPT !.mm = task[t].mm]
  <2>1. x \in TaskStructs /\ y \in TaskStructs
    BY <1>1 DEF TaskStructs
  <2>2. task' = [task EXCEPT ![t] = x, ![c] = y]
    BY <1>1, <1>3
  <2> HIDE DEF x, y
  <2>3. /\ task' \in Seq(TaskStructs) /\ Len(task') = Len(task) /\ Pid' = Pid
        /\ task'[t] = x /\ task'[c] = y
        /\ \A u \in Pid \ {t, c} : task'[u] = task[u]
    BY <1>1, <2>1, <2>2, TwoTasks
  <2>4. Types'
    BY <1>2, <1>3, <2>3 DEF Types, RestKept
  <2> QED
    BY <1>1, <1>2, <1>3, <2>3, <2>4 DEF x, y
<1>4. CASE /\ task[t].at = "fork mm"
           /\ IF old.sized
              THEN /\ mm' = Append(mm, [old EXCEPT !.used = TRUE, !.page = p, !.by = c])
                   /\ page' = Append(page, [page[old.page] EXCEPT !.used = TRUE])
              ELSE mm' = Append(mm, [old EXCEPT !.used = TRUE, !.page = 0, !.by = c]) /\ UNCHANGED page
           /\ task' = [task EXCEPT ![t].at = "fork files", ![c].mm = m]
  <2> DEFINE x == [task[t] EXCEPT !.at = "fork files"]
             y == [task[c] EXCEPT !.mm = m]
             to == IF old.sized THEN p ELSE 0
             new == [old EXCEPT !.used = TRUE, !.page = to, !.by = c]
  <2>0. m \in Nat /\ to \in Nat
    BY <1>1
  <2>1. x \in TaskStructs /\ y \in TaskStructs
    <3> HIDE DEF m
    <3> QED
      BY <1>1, <2>0 DEF TaskStructs
  <2>2. task' = [task EXCEPT ![t] = x, ![c] = y]
    BY <1>1, <1>4
  <2>3. old \in MmStructs /\ c \in Nat
    BY <1>1, TaskFacts DEF Pid
  <2>4. new \in MmStructs
    <3> HIDE DEF to, old, c
    <3> QED
      BY <2>0, <2>3 DEF MmStructs
  <2>5. mm' = Append(mm, new)
    BY <1>4
  <2> HIDE DEF x, y, new
  <2>6. /\ task' \in Seq(TaskStructs) /\ Len(task') = Len(task) /\ Pid' = Pid
        /\ task'[t] = x /\ task'[c] = y
        /\ \A u \in Pid \ {t, c} : task'[u] = task[u]
    BY <1>1, <2>1, <2>2, TwoTasks
  <2>7. mm' \in Seq(MmStructs) /\ Len(mm') = m /\ (\A n \in DOMAIN mm : mm'[n] = mm[n]) /\ mm'[m] = new
    BY <2>4, <2>5, AppendProperties DEF Types
  <2>8. /\ page' \in Seq(Pages)
        /\ IF old.sized
           THEN /\ Len(page') = p /\ (\A q \in DOMAIN page : page'[q] = page[q])
                /\ page'[p] = [page[old.page] EXCEPT !.used = TRUE]
           ELSE UNCHANGED page
    <3>1. CASE old.sized
      <4>1. page[old.page] \in Pages
        BY <1>1, <3>1, TaskFacts DEF PointersInv, MmInv
      <4>2. [page[old.page] EXCEPT !.used = TRUE] \in Pages
        BY <4>1 DEF Pages
      <4> DEFINE z == [page[old.page] EXCEPT !.used = TRUE]
      <4>3. page' = Append(page, z) /\ page \in Seq(Pages) /\ z \in Pages
        BY <1>4, <3>1, <4>2 DEF Types
      <4> HIDE DEF z
      <4>4. /\ Append(page, z) \in Seq(Pages) /\ Len(Append(page, z)) = Len(page) + 1
            /\ Append(page, z)[Len(page) + 1] = z /\ \A q0 \in 1 .. Len(page) : Append(page, z)[q0] = page[q0]
        BY <4>3, AppendProperties
      <4>5. DOMAIN page = 1 .. Len(page)
        BY TaskFacts
      <4> QED
        BY <3>1, <4>3, <4>4, <4>5 DEF z
    <3>2. CASE ~old.sized
      BY <1>4, <3>2 DEF Types
    <3> QED
      BY <3>1, <3>2
  <2>9. Types'
    BY <1>2, <2>6, <2>7, <2>8 DEF Types, RestKept
  <2> QED
    BY <1>1, <1>2, <1>4, <2>6, <2>7, <2>8, <2>9 DEF x, y, new, to
<1> QED
  BY <1>3, <1>4 DEF copy_mm


LEMMA ChildFacts ==
    ASSUME Types, ForkInv, NEW t \in Pid, task[t].at # "user"
    PROVE  LET c == task[t].child IN
           /\ Runs(t) /\ c \in Pid /\ c # t /\ Made(c) /\ task[c].parent = t
           /\ task[t] \in TaskStructs /\ task[c] \in TaskStructs
BY TaskFacts DEF ForkInv, Runs, Made

LEMMA OpenedFacts ==
    ASSUME NEW t \in Pid
    PROVE  Opened(t) \subseteq Fd /\ Cardinality(Opened(t)) \in Nat
<1>1. IsFiniteSet(Fd)
  BY FS_Interval, TaskMmAssumption DEF Fd
<1>2. Opened(t) \subseteq Fd
  BY DEF Opened
<1> QED
  BY <1>1, <1>2, FS_Subset, FS_CardinalityType

LEMMA CopyFilesDoes ==
    ASSUME Types, ForkInv, NEW t \in Pid, copy_files(t)
    PROVE  LET c == task[t].child IN
           /\ t # c /\ c \in Pid /\ Types' /\ Pid' = Pid /\ RestKept /\ UNCHANGED <<mm, page, twice>>
           /\ \A u \in Pid \ {t, c} : task'[u] = task[u]
           /\ task[t].at = "fork files" /\ task'[t] = [task[t] EXCEPT !.at = "wake"]
           /\ \E fs \in [Fd -> {0} \cup Places(t)] :
                /\ task'[c] = [task[c] EXCEPT !.files = fs]
                /\ \A fd, gd \in Fd : fs[fd] = fs[gd] => fd = gd \/ fs[fd] = 0
                /\ \A f \in Places(t) : \E fd \in Fd : fs[fd] = f
           /\ Places(t) \cap ({0} \cup DOMAIN filp) = {} /\ DOMAIN filp' = DOMAIN filp \cup Places(t)
           /\ \A f \in DOMAIN filp : filp'[f] = filp[f]
           /\ \A f \in Places(t) : filp'[f] = [used |-> TRUE, exec |-> FALSE]
<1> DEFINE c == task[t].child
           n == Cardinality(Opened(t))
           new == [used |-> TRUE, exec |-> FALSE]
           news == [i \in 1 .. n |-> new]
<1>1. task[t].at = "fork files" /\ n \in Nat /\ Opened(t) \subseteq Fd /\ Len(filp) \in Nat
  BY OpenedFacts, TaskFacts DEF copy_files
<1>0. Places(t) = Len(filp) + 1 .. Len(filp) + n /\ DOMAIN filp = 1 .. Len(filp)
  BY TaskFacts DEF Places
<1>a. filp' = filp \o news
  BY DEF copy_files
<1>b. n \in Nat /\ Len(filp) \in Nat
  BY <1>1
<1> HIDE DEF n
<1>2. t # c /\ c \in Pid /\ task[t] \in TaskStructs /\ task[c] \in TaskStructs
  BY <1>1, ChildFacts
<1>3. RestKept /\ UNCHANGED <<mm, page, twice>>
  BY DEF copy_files, hvars, RestKept
<1>4. PICK g \in Copies(t) :
         task' = [task EXCEPT ![t].at = "wake", ![c].files = [fd \in Fd |-> IF fd \in Opened(t) THEN g[fd] ELSE 0]]
  BY DEF copy_files
<1> DEFINE fs == [fd \in Fd |-> IF fd \in Opened(t) THEN g[fd] ELSE 0]
           x == [task[t] EXCEPT !.at = "wake"]
           y == [task[c] EXCEPT !.files = fs]
<1>5. /\ g \in [Opened(t) -> Places(t)]
      /\ \A fd, gd \in Opened(t) : g[fd] = g[gd] => fd = gd
      /\ \A f \in Places(t) : \E fd \in Opened(t) : g[fd] = f
  BY DEF Copies
<1>6. Places(t) \subseteq Nat \ {0} /\ Places(t) \cap DOMAIN filp = {}
  BY <1>0, <1>b
<1>7. fs \in [Fd -> {0} \cup Places(t)]
  BY <1>5
<1>8. \A fd, gd \in Fd : fs[fd] = fs[gd] => fd = gd \/ fs[fd] = 0
  BY <1>5, <1>6
<1>9. \A f \in Places(t) : \E fd \in Fd : fs[fd] = f
  BY <1>1, <1>5
<1> HIDE DEF fs
<1>10. x \in TaskStructs /\ y \in TaskStructs
  <2>1. fs \in [Fd -> Nat]
    BY <1>6, <1>7
  <2> QED
    BY <1>2, <2>1 DEF TaskStructs
<1>11. task' = [task EXCEPT ![t] = x, ![c] = y]
  BY <1>2, <1>4 DEF fs
<1> HIDE DEF x, y
<1>12. /\ task' \in Seq(TaskStructs) /\ Len(task') = Len(task) /\ Pid' = Pid
       /\ task'[t] = x /\ task'[c] = y
       /\ \A u \in Pid \ {t, c} : task'[u] = task[u]
  BY <1>2, <1>10, <1>11, TwoTasks
<1>13. /\ filp' \in Seq(FileStructs) /\ Len(filp') = Len(filp) + n
       /\ \A f \in 1 .. Len(filp) + n : filp'[f] = IF f <= Len(filp) THEN filp[f] ELSE new
  <2>1. new \in FileStructs
    BY DEF FileStructs
  <2> HIDE DEF new
  <2>2. news \in Seq(FileStructs) /\ Len(news) = n /\ \A i \in 1 .. n : news[i] = new
    <3>1. news \in [1 .. n -> FileStructs] /\ \A i \in 1 .. n : news[i] = new
      BY <2>1
    <3> HIDE DEF news
    <3>2. news \in Seq(FileStructs)
      BY <1>1, <3>1, SeqDef
    <3> QED
      BY <1>b, <3>1, <3>2, LenProperties
  <2>3. filp' = filp \o news
    BY <1>a DEF new
  <2> HIDE DEF news
  <2>4. /\ filp \o news \in Seq(FileStructs) /\ Len(filp \o news) = Len(filp) + Len(news)
        /\ \A i \in 1 .. Len(filp) + Len(news) : (filp \o news)[i] = IF i <= Len(filp) THEN filp[i] ELSE news[i - Len(filp)]
    <3>1. filp \in Seq(FileStructs) /\ news \in Seq(FileStructs)
      BY <2>2 DEF Types
    <3> QED
      BY <3>1, ConcatProperties
  <2>5. ASSUME NEW f \in 1 .. Len(filp) + n PROVE filp'[f] = IF f <= Len(filp) THEN filp[f] ELSE new
    <3>1. CASE f <= Len(filp)
      BY <1>1, <2>2, <2>3, <2>4, <3>1
    <3>2. CASE ~(f <= Len(filp))
      <4>1. f - Len(filp) \in 1 .. n
        BY <1>b, <3>2
      <4> QED
        BY <1>1, <2>2, <2>3, <2>4, <3>2, <4>1
    <3> QED
      BY <3>1, <3>2
  <2> QED
    BY <2>2, <2>3, <2>4, <2>5
<1>14. /\ DOMAIN filp' = DOMAIN filp \cup Places(t)
       /\ \A f \in DOMAIN filp : filp'[f] = filp[f]
       /\ \A f \in Places(t) : filp'[f] = new
  <2>1. DOMAIN filp = 1 .. Len(filp) /\ DOMAIN filp' = 1 .. Len(filp')
    BY <1>13, TaskFacts, LenProperties
  <2> HIDE DEF new
  <2> QED
    BY <1>0, <1>b, <1>13, <2>1
<1>15. Types'
  BY <1>3, <1>12, <1>13 DEF Types, RestKept
<1> QED
  BY <1>1, <1>2, <1>3, <1>6, <1>7, <1>8, <1>9, <1>12, <1>14, <1>15 DEF x, y

LEMMA WakeDoes ==
    ASSUME Types, ForkInv, NEW t \in Pid, Wake(t)
    PROVE  LET c == task[t].child IN
           /\ t # c /\ c \in Pid /\ Types' /\ Pid' = Pid /\ RestKept /\ UNCHANGED <<mm, page, filp, twice>>
           /\ \A u \in Pid \ {t, c} : task'[u] = task[u]
           /\ task[t].at = "wake" /\ task'[t] = [task[t] EXCEPT !.at = "user", !.child = 0]
           /\ task'[c] = [task[c] EXCEPT !.state = "running", !.at = "user"]
<1> DEFINE c == task[t].child
           x == [task[t] EXCEPT !.at = "user", !.child = 0]
           y == [task[c] EXCEPT !.state = "running", !.at = "user"]
<1>1. task[t].at = "wake" /\ t # c /\ c \in Pid /\ task[t] \in TaskStructs /\ task[c] \in TaskStructs
  BY ChildFacts DEF Wake
<1>2. RestKept /\ UNCHANGED <<mm, page, filp, twice>>
  BY DEF Wake, hvars, RestKept
<1>3. x \in TaskStructs /\ y \in TaskStructs
  BY <1>1 DEF TaskStructs
<1>4. task' = [task EXCEPT ![t] = x, ![c] = y]
  BY <1>1 DEF Wake
<1> HIDE DEF x, y
<1>5. /\ task' \in Seq(TaskStructs) /\ Len(task') = Len(task) /\ Pid' = Pid
      /\ task'[t] = x /\ task'[c] = y
      /\ \A u \in Pid \ {t, c} : task'[u] = task[u]
  BY <1>1, <1>3, <1>4, TwoTasks
<1> QED
  BY <1>1, <1>2, <1>5 DEF x, y, Types, RestKept

Freed(fs) == [f \in DOMAIN filp |-> IF f \in fs THEN [filp[f] EXCEPT !.used = FALSE] ELSE filp[f]]
LEMMA FreedFacts ==
    ASSUME Types, NEW fs
    PROVE  /\ Freed(fs) \in Seq(FileStructs) /\ Len(Freed(fs)) = Len(filp) /\ DOMAIN Freed(fs) = DOMAIN filp
           /\ \A f \in DOMAIN filp : /\ f \in fs => Freed(fs)[f] = [filp[f] EXCEPT !.used = FALSE] /\ ~Freed(fs)[f].used
                                     /\ f \notin fs => Freed(fs)[f] = filp[f]
                                     /\ Freed(fs)[f].exec = filp[f].exec
<1>1. DOMAIN filp = 1 .. Len(filp) /\ Len(filp) \in Nat /\ \A f \in DOMAIN filp : filp[f] \in FileStructs
  BY TaskFacts
<1>2. \A f \in DOMAIN filp : [filp[f] EXCEPT !.used = FALSE] \in FileStructs
  BY <1>1 DEF FileStructs
<1>3. Freed(fs) \in [1 .. Len(filp) -> FileStructs]
  BY <1>1, <1>2 DEF Freed
<1>4. Freed(fs) \in Seq(FileStructs)
  BY <1>1, <1>3, SeqDef
<1>5. Len(Freed(fs)) = Len(filp)
  BY <1>1, <1>3, <1>4, LenProperties
<1> QED
  BY <1>1, <1>3, <1>4, <1>5 DEF Freed, FileStructs

LEMMA ExecDoes ==
    ASSUME Types, PointersInv, NEW t \in Pid, NEW c \in Programs \cup {"blank"}, do_execve(t, c)
    PROVE  LET m == NewMm(t) p == Len(page) + 1 IN
           /\ task' \in Seq(TaskStructs) /\ Len(task') = Len(task) /\ Pid' = Pid
           /\ \A u \in Pid \ {t} : task'[u] = task[u]
           /\ task'[t] = IF c = "blank" THEN [task[t] EXCEPT !.mm = m]
                         ELSE [task[t] EXCEPT !.mm = m, !.vfork = FALSE, !.files = NoFiles]
           /\ page' \in Seq(Pages) /\ Len(page') = p /\ (\A q \in DOMAIN page : page'[q] = page[q])
           /\ page'[p].used /\ page'[p].content = c
           /\ mm' \in Seq(MmStructs) /\ DOMAIN mm' = DOMAIN mm \cup {m}
           /\ \A n \in DOMAIN mm \ {m} : mm'[n] = mm[n]
           /\ mm'[m].page = p
           /\ IF task[t].vfork THEN m \notin DOMAIN mm /\ mm'[m].used /\ mm'[m].by = t /\ (mm'[m].sized <=> c # "blank")
              ELSE /\ m = task[t].mm /\ mm'[m].used = mm[m].used /\ mm'[m].by = mm[m].by
                   /\ mm'[m].sized <=> mm[m].sized \/ c # "blank"
<1> DEFINE m == NewMm(t)
           p == Len(page) + 1
           x == IF c = "blank" THEN [task[t] EXCEPT !.mm = m]
                ELSE [task[t] EXCEPT !.mm = m, !.vfork = FALSE, !.files = NoFiles]
           old == IF task[t].vfork THEN [used |-> TRUE, sized |-> FALSE, page |-> 0, by |-> t, brk |-> 0] ELSE mm[task[t].mm]
           new == [old EXCEPT !.page = p, !.sized = (@ \/ c # "blank"), !.brk = IF c = "blank" THEN @ ELSE 0]
           fresh == [used |-> TRUE, content |-> c]
<1>1. /\ task[t] \in TaskStructs /\ task[t].mm \in DOMAIN mm /\ mm[task[t].mm] \in MmStructs /\ t \in Nat
      /\ Len(mm) \in Nat /\ Len(page) \in Nat /\ DOMAIN mm = 1 .. Len(mm) /\ DOMAIN page = 1 .. Len(page)
  BY TaskFacts DEF PointersInv, Pid
<1>2. m \in Nat /\ p \in Nat
  BY <1>1 DEF NewMm
<1>3. x \in TaskStructs
  <2>1. NoFiles \in [Fd -> Nat]
    BY DEF NoFiles
  <2> HIDE DEF m
  <2>2. [task[t] EXCEPT !.mm = m] \in TaskStructs
    BY <1>1, <1>2 DEF TaskStructs
  <2>3. [task[t] EXCEPT !.mm = m, !.vfork = FALSE, !.files = NoFiles] \in TaskStructs
    BY <1>1, <1>2, <2>1 DEF TaskStructs
  <2> QED
    BY <2>2, <2>3
<1>4. task' = [task EXCEPT ![t] = x]
  BY DEF do_execve
<1>5. page' = Append(page, fresh)
  BY DEF do_execve, Load, Fresh
<1>6. mm' = IF task[t].vfork THEN Append(mm, new) ELSE [mm EXCEPT ![task[t].mm] = new]
  BY DEF do_execve, Load
<1>7. old \in MmStructs
  BY <1>1 DEF MmStructs
<1>8. new \in MmStructs /\ new.page = p /\ new.used = old.used /\ new.by = old.by /\ (new.sized <=> old.sized \/ c # "blank")
  <2> HIDE DEF old, p
  <2> DEFINE sized == old.sized \/ c # "blank"
             brk == IF c = "blank" THEN old.brk ELSE 0
  <2>1. sized \in BOOLEAN /\ brk \in {0, 1}
    BY <1>7 DEF MmStructs
  <2>2. new = [old EXCEPT !.page = p, !.sized = sized, !.brk = brk]
    OBVIOUS
  <2> HIDE DEF sized, brk, new
  <2>3. new \in MmStructs /\ new.page = p /\ new.used = old.used /\ new.by = old.by /\ new.sized = sized
    BY <1>2, <1>7, <2>1, <2>2 DEF MmStructs
  <2> QED
    BY <2>3 DEF sized
<1>9. fresh \in Pages
  BY DEF Pages
<1> HIDE DEF x, new, fresh
<1>10. /\ task' \in Seq(TaskStructs) /\ Len(task') = Len(task) /\ Pid' = Pid
       /\ task'[t] = x /\ \A u \in Pid \ {t} : task'[u] = task[u]
  BY <1>3, <1>4, OneTask
<1>11. /\ page' \in Seq(Pages) /\ Len(page') = p /\ (\A q \in DOMAIN page : page'[q] = page[q]) /\ page'[p] = fresh
  BY <1>1, <1>5, <1>9, AppendProperties DEF Types
<1>12. /\ mm' \in Seq(MmStructs) /\ DOMAIN mm' = DOMAIN mm \cup {m}
       /\ mm'[m] = new /\ \A n \in DOMAIN mm \ {m} : mm'[n] = mm[n]
  <2>1. CASE task[t].vfork
    <3>1. m = Len(mm) + 1 /\ mm' = Append(mm, new) /\ mm \in Seq(MmStructs)
      BY <1>6, <2>1 DEF NewMm, Types
    <3> HIDE DEF m
    <3>2. /\ Append(mm, new) \in Seq(MmStructs) /\ Len(Append(mm, new)) = Len(mm) + 1
          /\ Append(mm, new)[Len(mm) + 1] = new /\ \A n \in 1 .. Len(mm) : Append(mm, new)[n] = mm[n]
      BY <1>8, <3>1, AppendProperties
    <3>3. DOMAIN mm' = 1 .. Len(mm) + 1
      BY <3>1, <3>2, LenProperties
    <3> QED
      BY <1>1, <3>1, <3>2, <3>3
  <2>2. CASE ~task[t].vfork
    <3>1. m = task[t].mm /\ mm' = [mm EXCEPT ![m] = new] /\ mm \in Seq(MmStructs)
      BY <1>6, <2>2 DEF NewMm, Types
    <3> HIDE DEF m
    <3>2. /\ [mm EXCEPT ![m] = new] \in Seq(MmStructs)
          /\ \A n \in 1 .. Len(mm) : [mm EXCEPT ![m] = new][n] = IF n = m THEN new ELSE mm[n]
      BY <1>1, <1>8, <3>1, ExceptSeq
    <3> QED
      BY <1>1, <3>1, <3>2
  <2> QED
    BY <2>1, <2>2
<1>13. IF task[t].vfork THEN m \notin DOMAIN mm /\ old.used /\ old.by = t /\ ~old.sized
       ELSE m = task[t].mm /\ old = mm[m]
  BY <1>1 DEF NewMm
<1>14. page'[p].used /\ page'[p].content = c
  BY <1>11 DEF fresh
<1>15. task'[t] = IF c = "blank" THEN [task[t] EXCEPT !.mm = m]
                  ELSE [task[t] EXCEPT !.mm = m, !.vfork = FALSE, !.files = NoFiles]
  BY <1>10 DEF x
<1> HIDE DEF m, p, old
<1> QED
  BY <1>8, <1>10, <1>11, <1>12, <1>13, <1>14, <1>15 DEF m, p

LEMMA ExecveDoes ==
    ASSUME Types, PointersInv, NEW t \in Pid, NEW c \in Programs \cup {"blank"}, do_execve(t, c), nested' \in BOOLEAN, reexec' \in BOOLEAN,
           want' = IF c = "blank" THEN want ELSE [want EXCEPT ![t] = c]
    PROVE  /\ Types'
           /\ \A u \in Pid : want'[u] = IF u = t /\ c # "blank" THEN c ELSE want[u]
           /\ IF c = "blank" THEN UNCHANGED <<filp, twice>>
              ELSE LET f == Len(filp) + 1 IN
                   /\ DOMAIN filp' = DOMAIN filp \cup {f} /\ f \notin DOMAIN filp /\ filp'[f] = [used |-> TRUE, exec |-> TRUE]
                   /\ \A g \in DOMAIN filp : filp'[g] = Freed(ToFree(t))[g]
                   /\ twice' = twice \cup {<<"file", g>> : g \in {h \in ToFree(t) : ~filp[h].used}}
<1>1. /\ task' \in Seq(TaskStructs) /\ Len(task') = Len(task)
      /\ page' \in Seq(Pages) /\ mm' \in Seq(MmStructs)
  BY ExecDoes
<1>2. want \in Seq(Programs \cup {Init0}) /\ t \in 1 .. Len(want) /\ Pid = 1 .. Len(want)
  BY DEF Types, Pid
<1>3. /\ want' \in Seq(Programs \cup {Init0}) /\ Len(want') = Len(want)
      /\ \A u \in Pid : want'[u] = IF u = t /\ c # "blank" THEN c ELSE want[u]
  <2>1. CASE c = "blank"
    BY <1>2, <2>1
  <2>2. CASE c # "blank"
    BY <1>2, <2>2, ExceptSeq
  <2> QED
    BY <2>1, <2>2
<1>4. /\ filp' \in Seq(FileStructs)
      /\ IF c = "blank" THEN UNCHANGED <<filp, twice>>
         ELSE LET f == Len(filp) + 1 IN
              /\ DOMAIN filp' = DOMAIN filp \cup {f} /\ f \notin DOMAIN filp /\ filp'[f] = [used |-> TRUE, exec |-> TRUE]
              /\ \A g \in DOMAIN filp : filp'[g] = Freed(ToFree(t))[g]
              /\ twice' = twice \cup {<<"file", g>> : g \in {h \in ToFree(t) : ~filp[h].used}}
  <2>1. CASE c = "blank"
    BY <2>1 DEF do_execve, Types
  <2>2. CASE c # "blank"
    <3> DEFINE s == Freed(ToFree(t))
               new == [used |-> TRUE, exec |-> TRUE]
    <3>1. filp' = Append(s, new)
      BY <2>2 DEF do_execve, Freed
    <3>2. twice' = twice \cup {<<"file", g>> : g \in {h \in ToFree(t) : ~filp[h].used}}
      BY <2>2 DEF do_execve
    <3>3. /\ s \in Seq(FileStructs) /\ Len(s) = Len(filp) /\ Len(filp) \in Nat
          /\ DOMAIN filp = 1 .. Len(filp) /\ DOMAIN s = DOMAIN filp
      BY FreedFacts, TaskFacts
    <3>4. new \in FileStructs
      BY DEF FileStructs
    <3> HIDE DEF s, new
    <3>5. /\ Append(s, new) \in Seq(FileStructs) /\ Len(Append(s, new)) = Len(s) + 1
          /\ Append(s, new)[Len(s) + 1] = new /\ \A g \in 1 .. Len(s) : Append(s, new)[g] = s[g]
      BY <3>3, <3>4, AppendProperties
    <3>6. DOMAIN filp' = 1 .. Len(filp) + 1
      BY <3>1, <3>3, <3>5, LenProperties
    <3> QED
      BY <2>2, <3>1, <3>2, <3>3, <3>5, <3>6 DEF s, new
  <2> QED
    BY <2>1, <2>2
<1> QED
  BY <1>1, <1>3, <1>4 DEF Types

LEMMA OpenDoes ==
    ASSUME Types, NEW t \in Pid, sys_open(t)
    PROVE  LET f == Len(filp) + 1 IN
           /\ Types' /\ Pid' = Pid /\ InUser(t) /\ UNCHANGED <<mm, page, twice, lent, pinched, want, blanked, reexec>>
           /\ nested' = (nested \/ task[t].vfork)
           /\ \A u \in Pid \ {t} : task'[u] = task[u]
           /\ \E fd \in Fd : task[t].files[fd] = 0 /\ task'[t] = [task[t] EXCEPT !.files[fd] = f]
           /\ f \notin DOMAIN filp /\ f # 0 /\ DOMAIN filp' = DOMAIN filp \cup {f} /\ filp'[f] = [used |-> TRUE, exec |-> FALSE]
           /\ \A g \in DOMAIN filp : filp'[g] = filp[g]
<1> DEFINE f == Len(filp) + 1
           new == [used |-> TRUE, exec |-> FALSE]
<1>1. PICK fd \in Fd :
        /\ InUser(t) /\ task[t].files[fd] = 0
        /\ task' = [task EXCEPT ![t].files[fd] = f] /\ filp' = Append(filp, new)
        /\ nested' = (nested \/ task[t].vfork)
        /\ UNCHANGED <<mm, page, twice, lent, pinched, want, blanked, reexec>>
  BY DEF sys_open
<1>2. task[t] \in TaskStructs /\ Len(filp) \in Nat /\ DOMAIN filp = 1 .. Len(filp)
  BY TaskFacts
<1> DEFINE x == [task[t] EXCEPT !.files[fd] = f]
<1>3. x \in TaskStructs
  <2> DEFINE fs == [task[t].files EXCEPT ![fd] = f]
  <2>1. fs \in [Fd -> Nat]
    <3>1. task[t].files \in [Fd -> Nat]
      BY <1>2 DEF TaskStructs
    <3>2. f \in Nat
      BY <1>2
    <3> HIDE DEF f
    <3> QED
      BY <3>1, <3>2
  <2>2. x = [task[t] EXCEPT !.files = fs]
    OBVIOUS
  <2> HIDE DEF fs, x
  <2> QED
    BY <1>2, <2>1, <2>2 DEF TaskStructs
<1>4. task' = [task EXCEPT ![t] = x]
  BY <1>1
<1>5. new \in FileStructs
  BY DEF FileStructs
<1> HIDE DEF x, new
<1>6. /\ task' \in Seq(TaskStructs) /\ Len(task') = Len(task) /\ Pid' = Pid
      /\ task'[t] = x /\ \A u \in Pid \ {t} : task'[u] = task[u]
  BY <1>3, <1>4, OneTask
<1>7. /\ filp' \in Seq(FileStructs) /\ Len(filp') = f /\ filp'[f] = new
      /\ \A g \in DOMAIN filp : filp'[g] = filp[g]
  BY <1>1, <1>2, <1>5, AppendProperties DEF Types
<1>8. DOMAIN filp' = DOMAIN filp \cup {f} /\ f \notin DOMAIN filp
  BY <1>2, <1>7, LenProperties
<1>9. Types'
  BY <1>1, <1>6, <1>7 DEF Types
<1>10. \E d \in Fd : task[t].files[d] = 0 /\ task'[t] = [task[t] EXCEPT !.files[d] = f]
  BY <1>1, <1>6 DEF x
<1> QED
  <2>1. f # 0
    BY <1>2
  <2>2. filp'[f] = [used |-> TRUE, exec |-> FALSE]
    BY <1>7 DEF new
  <2> HIDE DEF f
  <2> QED
    BY <1>1, <2>1, <1>6, <1>7, <1>8, <1>9, <1>10, <2>2, Zenon DEF f

LEMMA CloseDoes ==
    ASSUME Types, NEW t \in Pid, sys_close(t)
    PROVE  /\ Types' /\ Pid' = Pid /\ InUser(t) /\ UNCHANGED <<mm, page, lent, want, blanked, reexec, nested>>
           /\ \A u \in Pid \ {t} : task'[u] = task[u]
           /\ \E fd \in Fd : LET f == task[t].files[fd] IN
                /\ f # 0 /\ task'[t] = [task[t] EXCEPT !.files[fd] = 0]
                /\ filp' = Freed({f})
                /\ twice' = twice \cup {<<"file", g>> : g \in {h \in {f} : ~filp[h].used}}
                /\ pinched' = IF task[t].vfork THEN pinched \cup {f} ELSE pinched
<1>1. PICK fd \in Fd : LET f == task[t].files[fd] IN
        /\ InUser(t) /\ f # 0 /\ task' = [task EXCEPT ![t].files[fd] = 0]
        /\ FreeFiles({f})
        /\ pinched' = IF task[t].vfork THEN pinched \cup {f} ELSE pinched
        /\ UNCHANGED <<mm, page, lent, want, blanked, reexec, nested>>
  BY DEF sys_close
<1> DEFINE f == task[t].files[fd]
           x == [task[t] EXCEPT !.files[fd] = 0]
<1>2. task[t] \in TaskStructs
  BY TaskFacts
<1>3. x \in TaskStructs
  <2> DEFINE fs == [task[t].files EXCEPT ![fd] = 0]
  <2>1. fs \in [Fd -> Nat]
    <3>1. task[t].files \in [Fd -> Nat]
      BY <1>2 DEF TaskStructs
    <3> QED
      BY <3>1
  <2>2. x = [task[t] EXCEPT !.files = fs]
    OBVIOUS
  <2> HIDE DEF fs, x
  <2> QED
    BY <1>2, <2>1, <2>2 DEF TaskStructs
<1>4. task' = [task EXCEPT ![t] = x]
  BY <1>1
<1> HIDE DEF x
<1>5. /\ task' \in Seq(TaskStructs) /\ Len(task') = Len(task) /\ Pid' = Pid
      /\ task'[t] = x /\ \A u \in Pid \ {t} : task'[u] = task[u]
  BY <1>3, <1>4, OneTask
<1>6. filp' = Freed({f}) /\ twice' = twice \cup {<<"file", g>> : g \in {h \in {f} : ~filp[h].used}}
  BY <1>1 DEF FreeFiles, Freed
<1>7. filp' \in Seq(FileStructs)
  BY <1>6, FreedFacts
<1>8. Types'
  BY <1>1, <1>5, <1>7 DEF Types
<1>9. f # 0 /\ task'[t] = [task[t] EXCEPT !.files[fd] = 0] /\ pinched' = IF task[t].vfork THEN pinched \cup {f} ELSE pinched
  BY <1>1, <1>5 DEF x
<1> QED
  BY <1>1, <1>5, <1>6, <1>8, <1>9, Zenon

LEMMA BrkDoes ==
    ASSUME Types, PointersInv, NEW t \in Pid, sys_brk(t)
    PROVE  Types' /\ UNCHANGED <<task, page, filp, twice, mm>> /\ RestKept
<1> DEFINE m == task[t].mm
           new == [mm[m] EXCEPT !.brk = do_brk(@, 1 - @)]
<1>1. m \in DOMAIN mm /\ mm[m] \in MmStructs
  BY TaskFacts DEF PointersInv
<1>2. mm' = [mm EXCEPT ![m] = new] /\ UNCHANGED <<task, page, filp, twice>> /\ RestKept
  BY DEF sys_brk, RestKept
<1>3. new = mm[m]
  BY <1>1 DEF do_brk, MmStructs
<1>4. mm' = mm
  BY <1>1, <1>2, <1>3, TaskFacts DEF Types
<1> QED
  BY <1>2, <1>4 DEF Types, RestKept

LEMMA ExitDoes ==
    ASSUME Types, NEW t \in Pid, do_exit(t)
    PROVE  /\ Types' /\ Pid' = Pid /\ InUser(t) /\ UNCHANGED <<mm, page>> /\ RestKept
           /\ \A u \in Pid \ {t} : task'[u] = task[u]
           /\ task'[t] = [task[t] EXCEPT !.state = "zombie", !.files = NoFiles]
           /\ filp' = Freed(ToFree(t))
           /\ twice' = twice \cup {<<"file", g>> : g \in {h \in ToFree(t) : ~filp[h].used}}
<1> DEFINE x == [task[t] EXCEPT !.state = "zombie", !.files = NoFiles]
<1>1. task' = [task EXCEPT ![t] = x] /\ InUser(t) /\ UNCHANGED <<mm, page>> /\ RestKept
  BY DEF do_exit, RestKept
<1>2. filp' = Freed(ToFree(t)) /\ twice' = twice \cup {<<"file", g>> : g \in {h \in ToFree(t) : ~filp[h].used}}
  BY DEF do_exit, FreeFiles, Freed
<1>3. x \in TaskStructs
  <2>1. task[t] \in TaskStructs /\ NoFiles \in [Fd -> Nat]
    BY TaskFacts DEF NoFiles
  <2> QED
    BY <2>1 DEF TaskStructs
<1> HIDE DEF x
<1>4. /\ task' \in Seq(TaskStructs) /\ Len(task') = Len(task) /\ Pid' = Pid
      /\ task'[t] = x /\ \A u \in Pid \ {t} : task'[u] = task[u]
  BY <1>1, <1>3, OneTask
<1>5. Types'
  BY <1>1, <1>2, <1>4, FreedFacts DEF Types, RestKept
<1> QED
  BY <1>1, <1>2, <1>4, <1>5 DEF x

LEMMA WaitDoes ==
    ASSUME Types, PointersInv, MmInv, NEW t \in Pid, sys_wait4(t)
    PROVE  /\ Types' /\ Pid' = Pid /\ UNCHANGED <<filp, twice>> /\ RestKept
           /\ \E c \in Pid : LET m == task[c].mm p == mm[m].page IN
                /\ task[c].state = "zombie" /\ task'[c] = [task[c] EXCEPT !.state = "reaped"]
                /\ \A u \in Pid \ {c} : task'[u] = task[u]
                /\ IF task[c].vfork THEN UNCHANGED <<mm, page>>
                   ELSE /\ m \in DOMAIN mm /\ mm[m].by = c /\ p \in DOMAIN page
                        /\ DOMAIN mm' = DOMAIN mm /\ mm'[m] = [mm[m] EXCEPT !.used = FALSE]
                        /\ \A n \in DOMAIN mm \ {m} : mm'[n] = mm[n]
                        /\ DOMAIN page' = DOMAIN page /\ page'[p] = [page[p] EXCEPT !.used = FALSE]
                        /\ \A q \in DOMAIN page \ {p} : page'[q] = page[q]
<1>1. PICK c \in Pid :
        /\ InUser(t) /\ task[c].state = "zombie"
        /\ exit_mm(c) /\ task' = [task EXCEPT ![c].state = "reaped"]
        /\ UNCHANGED <<filp, lent, pinched, want, blanked, reexec, nested>>
  BY DEF sys_wait4
<1> DEFINE x == [task[c] EXCEPT !.state = "reaped"]
           m == task[c].mm
           p == mm[m].page
           newMm == [mm[m] EXCEPT !.used = FALSE]
           newPage == [page[p] EXCEPT !.used = FALSE]
<1>2. x \in TaskStructs
  <2>1. task[c] \in TaskStructs
    BY TaskFacts
  <2> QED
    BY <2>1 DEF TaskStructs
<1>3. task' = [task EXCEPT ![c] = x]
  BY <1>1
<1> HIDE DEF x
<1>4. /\ task' \in Seq(TaskStructs) /\ Len(task') = Len(task) /\ Pid' = Pid
      /\ task'[c] = x /\ \A u \in Pid \ {c} : task'[u] = task[u]
  BY <1>2, <1>3, OneTask
<1>5. /\ task[c].vfork => UNCHANGED <<mm, page, twice>>
      /\ ~task[c].vfork =>
           /\ m \in DOMAIN mm /\ mm[m].by = c /\ p \in DOMAIN page /\ UNCHANGED twice
           /\ mm' = [mm EXCEPT ![m] = newMm] /\ page' = [page EXCEPT ![p] = newPage]
  <2>1. CASE task[c].vfork
    BY <1>1, <2>1 DEF exit_mm
  <2>2. CASE ~task[c].vfork
    <3>1. /\ mm' = [mm EXCEPT ![m].used = FALSE] /\ page' = [page EXCEPT ![p].used = FALSE]
          /\ twice' = twice \cup (IF mm[m].used THEN {} ELSE {<<"mm", m>>}) \cup (IF page[p].used THEN {} ELSE {<<"page", p>>})
      BY <1>1, <2>2 DEF exit_mm, Page
    <3>2. Own(c) /\ HasMm(c)
      BY <1>1, <2>2 DEF Own, HasMm
    <3>3. m \in DOMAIN mm /\ mm[m].used /\ mm[m].by = c /\ mm[m].sized
      BY <3>2 DEF MmInv, PointersInv
    <3>4. p # 0 /\ p \in DOMAIN page /\ page[p].used
      BY <3>3 DEF MmInv, PointersInv
    <3> QED
      BY <2>2, <3>1, <3>3, <3>4
  <2> QED
    BY <2>1, <2>2
<1>6. CASE task[c].vfork
  <2>1. Types' /\ RestKept
    BY <1>1, <1>4, <1>5, <1>6 DEF Types, RestKept
  <2> QED
    BY <1>1, <1>4, <1>5, <1>6, <2>1 DEF x
<1>7. CASE ~task[c].vfork
  <2>1. m \in DOMAIN mm /\ p \in DOMAIN page /\ mm[m] \in MmStructs /\ page[p] \in Pages
    BY <1>5, <1>7, TaskFacts
  <2>2. newMm \in MmStructs /\ newPage \in Pages
    BY <2>1 DEF MmStructs, Pages
  <2>3. DOMAIN mm = 1 .. Len(mm) /\ DOMAIN page = 1 .. Len(page) /\ mm \in Seq(MmStructs) /\ page \in Seq(Pages)
    BY TaskFacts DEF Types
  <2>4. mm' = [mm EXCEPT ![m] = newMm] /\ page' = [page EXCEPT ![p] = newPage]
    BY <1>5, <1>7
  <2> HIDE DEF newMm, newPage
  <2>5. /\ mm' \in Seq(MmStructs) /\ DOMAIN mm' = DOMAIN mm /\ mm'[m] = newMm
        /\ \A n \in DOMAIN mm \ {m} : mm'[n] = mm[n]
    BY <2>1, <2>2, <2>3, <2>4, ExceptSeq
  <2>6. /\ page' \in Seq(Pages) /\ DOMAIN page' = DOMAIN page /\ page'[p] = newPage
        /\ \A q \in DOMAIN page \ {p} : page'[q] = page[q]
    BY <2>1, <2>2, <2>3, <2>4, ExceptSeq
  <2>7. Types' /\ RestKept
    BY <1>1, <1>4, <2>5, <2>6 DEF Types, RestKept
  <2> QED
    BY <1>1, <1>4, <1>5, <1>7, <2>1, <2>5, <2>6, <2>7 DEF x, newMm, newPage
<1> QED
  BY <1>6, <1>7

----------------------------------------------------------------------------
(* What stays true while nothing that it is about changes.                  *)

LEMMA MemoryUntouched ==
    ASSUME PointersInv, MmInv, ProgramInv, UNCHANGED <<mm, page>>,
           \A u \in Pid' : Own(u)' /\ HasMm(u)' =>
             /\ u \in Pid /\ Own(u) /\ HasMm(u) /\ task'[u].mm = task[u].mm
             /\ want'[u] = want[u] /\ (u \in blanked => u \in blanked'),
           \A u \in Pid : task[u].state = "reaped" => task'[u].state = "reaped"
    PROVE  MmInv' /\ ProgramInv'
<1>1. MmInv'
  BY DEF MmInv, PointersInv
<1>2. ProgramInv'
  BY DEF ProgramInv, Page
<1> QED
  BY <1>1, <1>2

LEMMA FilesUntouched ==
    ASSUME FilesInv, TwiceInv, UNCHANGED <<filp, twice>>, lent \subseteq lent', pinched \subseteq pinched',
           \A u \in Pid' : task'[u].state \in {"zombie", "reaped"} =>
             u \in Pid /\ task[u].state \in {"zombie", "reaped"} /\ task'[u].files = task[u].files,
           \A u \in Pid' : \E v \in Pid : task'[u].files = task[v].files,
           \A u \in Pid' : HasFiles(u)' =>
             u \in Pid /\ HasFiles(u) /\ task'[u].files = task[u].files /\ (Own(u)' <=> Own(u))
    PROVE  FilesInv' /\ TwiceInv'
<1>1. \A u \in Pid' : task'[u].state \in {"zombie", "reaped"} => Held(u)' = {}
  BY DEF FilesInv, Held
<1>2. \A u \in Pid' : \A fd, gd \in Fd : task'[u].files[fd] = task'[u].files[gd] => fd = gd \/ task'[u].files[fd] = 0
  BY DEF FilesInv
<1>3. \A u \in Pid' : HasFiles(u)' => u \in Pid /\ HasFiles(u) /\ Held(u)' = Held(u) /\ (Own(u)' <=> Own(u))
  BY DEF Held
<1>4. \A u, v \in Pid' : u # v /\ HasFiles(u)' /\ HasFiles(v)' =>
        Held(u)' \cap Held(v)' \subseteq IF Own(u)' /\ Own(v)' THEN {} ELSE lent'
  BY <1>3 DEF FilesInv
<1>5. \A u \in Pid' : HasFiles(u)' => \A f \in Held(u)' : filp'[f].used \/ (f \in lent' /\ (Own(u)' => f \in pinched'))
  BY <1>3 DEF FilesInv
<1>6. TwiceInv'
  BY DEF TwiceInv
<1> QED
  BY <1>1, <1>2, <1>4, <1>5, <1>6 DEF FilesInv

LEMMA OwnersUntouched ==
    ASSUME PointersInv, OwnersInv, UNCHANGED <<mm, page, filp>>, ~nested' => ~nested, ~reexec' => ~reexec,
           \A u \in Pid : Own(u) /\ HasMm(u) => u \in Pid' /\ Own(u)' /\ HasMm(u)' /\ task'[u].mm = task[u].mm,
           \A u \in Pid : Own(u) /\ HasFiles(u) => u \in Pid' /\ Own(u)' /\ HasFiles(u)' /\ task'[u].files = task[u].files
    PROVE  OwnersInv'
<1> SUFFICES ASSUME ~nested' PROVE OwnersInv'
  BY DEF OwnersInv
<1>1. ASSUME NEW m \in DOMAIN mm, mm[m].used
      PROVE  LET u == mm[m].by IN Own(u)' /\ HasMm(u)' /\ task'[u].mm = m
  BY <1>1 DEF OwnersInv, PointersInv
<1>2. ASSUME NEW f \in DOMAIN filp, filp[f].used, ~filp[f].exec
      PROVE  \E u \in Pid' : Own(u)' /\ HasFiles(u)' /\ f \in Held(u)'
  <2>1. PICK u \in Pid : Own(u) /\ HasFiles(u) /\ f \in Held(u)
    BY <1>2 DEF OwnersInv
  <2>2. Held(u)' = Held(u)
    BY <2>1 DEF Held
  <2> QED
    BY <2>1, <2>2
<1>3. ~reexec' => \A p \in DOMAIN page : page[p].used => \E m \in DOMAIN mm : mm[m].used /\ mm[m].page = p
  BY DEF OwnersInv
<1> QED
  BY <1>1, <1>2, <1>3 DEF OwnersInv

----------------------------------------------------------------------------
(* Every step keeps the invariant.                                          *)

LEMMA InitInv == Init => IInv
<1> SUFFICES ASSUME Init PROVE IInv
  OBVIOUS
<1> DEFINE one == [state |-> "running", at |-> "user", vfork |-> FALSE, mm |-> 1, files |-> NoFiles, parent |-> 0, child |-> 0]
           m == [used |-> TRUE, sized |-> TRUE, page |-> 1, by |-> 1, brk |-> 0]
           p == [used |-> TRUE, content |-> Init0]
<1>1. task = <<one>> /\ mm = <<m>> /\ page = <<p>> /\ filp = <<>> /\ want = <<Init0>>
      /\ nested = FALSE /\ reexec = FALSE /\ twice = {}
  BY DEF Init
<1>2. one \in TaskStructs /\ m \in MmStructs /\ p \in Pages
  BY DEF TaskStructs, MmStructs, Pages, NoFiles
<1>3. one.state = "running" /\ one.at = "user" /\ one.mm = 1 /\ one.files = NoFiles /\ one.vfork = FALSE
      /\ m.used /\ m.sized /\ m.page = 1 /\ m.by = 1 /\ p.used /\ p.content = Init0
  OBVIOUS
<1> HIDE DEF one, m, p
<1>4. /\ DOMAIN task = {1} /\ Pid = {1} /\ task[1] = one /\ DOMAIN mm = {1} /\ mm[1] = m
      /\ DOMAIN page = {1} /\ page[1] = p /\ DOMAIN filp = {} /\ want[1] = Init0 /\ Len(want) = Len(task)
  BY <1>1 DEF Pid
<1>5. Types
  <2>1. task \in Seq(TaskStructs) /\ mm \in Seq(MmStructs) /\ page \in Seq(Pages)
    BY <1>1, <1>2
  <2>2. filp \in Seq(FileStructs) /\ want \in Seq(Programs \cup {Init0})
    BY <1>1
  <2> QED
    BY <1>1, <1>4, <2>1, <2>2 DEF Types
<1>6. Held(1) = {} /\ \A fd \in Fd : task[1].files[fd] = 0
  BY <1>3, <1>4 DEF Held, NoFiles
<1>7. PointersInv /\ ForkInv /\ CopyInv
  BY <1>3, <1>4, <1>6 DEF PointersInv, ForkInv, CopyInv, Made, Forker
<1>8. MmInv /\ ProgramInv
  BY <1>3, <1>4 DEF MmInv, ProgramInv, Page
<1>9. FilesInv /\ TwiceInv
  BY <1>1, <1>3, <1>4, <1>6 DEF FilesInv, TwiceInv
<1>10. OwnersInv
  BY <1>3, <1>4 DEF OwnersInv, Own, HasMm
<1> QED
  BY <1>5, <1>7, <1>8, <1>9, <1>10 DEF IInv

\* A step of one task that neither is being made nor makes another.
LEMMA Aside ==
    ASSUME Types, ForkInv, CopyInv, NEW t \in Pid, ~Made(t), task[t].at = "user",
           Pid' = Pid, \A u \in Pid \ {t} : task'[u] = task[u],
           task'[t].state # "made", task'[t].at = "user",
           \A u \in Pid \ {t} : want'[u] = want[u] /\ (u \in blanked' <=> u \in blanked), ~nested' => ~nested
    PROVE  /\ ForkInv' /\ CopyInv'
           /\ \A u \in Pid \ {t} : (HasMm(u)' <=> HasMm(u)) /\ (HasFiles(u)' <=> HasFiles(u))
                                   /\ (Own(u)' <=> Own(u)) /\ Held(u)' = Held(u)
<1>1. ASSUME NEW c \in Pid, Made(c)
      PROVE  task[c].parent \in Pid \ {t} /\ c # t
  BY <1>1 DEF ForkInv, Made, Forker
<1>2. ForkInv'
  BY <1>1 DEF ForkInv, Made, Forker, Runs
<1>3. CopyInv'
  <2> SUFFICES ASSUME NEW c \in Pid', Made(c)'
               PROVE  LET p == task'[c].parent IN
                      /\ Forker(c).at' \in {"fork mm", "fork files"} => task'[c].vfork = task'[p].vfork
                      /\ Forker(c).at' = "vfork mm" => task'[c].vfork
                      /\ want'[c] = want'[p] /\ (p \in blanked' => c \in blanked')
                      /\ ~nested' => ~task'[p].vfork
    BY Zenon DEF CopyInv
  <2> DEFINE p == task[c].parent
  <2>1. c \in Pid \ {t} /\ Made(c) /\ task'[c] = task[c]
    BY DEF Made
  <2>2. p \in Pid \ {t} /\ task'[p] = task[p]
    BY <1>1, <2>1
  <2>3. /\ Forker(c).at \in {"fork mm", "fork files"} => task[c].vfork = task[p].vfork
        /\ Forker(c).at = "vfork mm" => task[c].vfork
        /\ want[c] = want[p] /\ (p \in blanked => c \in blanked)
        /\ ~nested => ~task[p].vfork
    BY <2>1 DEF CopyInv
  <2>4. Forker(c)' = Forker(c)
    BY <2>1, <2>2 DEF Forker
  <2> QED
    BY <2>1, <2>2, <2>3, <2>4
<1>4. \A u \in Pid \ {t} : (HasMm(u)' <=> HasMm(u)) /\ (HasFiles(u)' <=> HasFiles(u))
  BY <1>1 DEF HasMm, HasFiles, Made, Forker, Runs
<1>5. \A u \in Pid \ {t} : (Own(u)' <=> Own(u)) /\ Held(u)' = Held(u)
  BY DEF Own, Held
<1> QED
  BY <1>2, <1>3, <1>4, <1>5

LEMMA ForkKeeps == ASSUME IInv, NEW t \in Pid, NEW vfork \in BOOLEAN, Fork(t, vfork) PROVE IInv'
<1> USE DEF IInv
<1>1. PICK c : c = Len(task) + 1
  OBVIOUS
<1>a. /\ Types' /\ Pid' = Pid \cup {c} /\ c \notin Pid
      /\ \A u \in Pid \ {t} : task'[u] = task[u]
      /\ task'[t] = [task[t] EXCEPT !.at = IF vfork THEN "vfork mm" ELSE "fork mm", !.child = c]
      /\ task'[c] = [task[t] EXCEPT !.state = "made", !.parent = t, !.vfork = (@ \/ vfork)]
      /\ \A u \in Pid : want'[u] = want[u]
      /\ want'[c] = want[t]
  <2>1. Types
    OBVIOUS
  <2> QED
    BY <1>1, <2>1, ForkDoes, ZenonT(60)
<1>2. /\ Runs(t) /\ task[t].at = "user" /\ UNCHANGED <<mm, page, filp, twice, pinched, reexec>>
      /\ lent' = (IF vfork THEN lent \cup Held(t) ELSE lent) /\ (~nested' => ~nested /\ ~task[t].vfork)
      /\ blanked' = IF t \in blanked THEN blanked \cup {c} ELSE blanked
  BY <1>1 DEF Fork, InUser
<1> HIDE DEF IInv
<1>3. task[t] \in TaskStructs /\ Types /\ PointersInv /\ ForkInv /\ CopyInv
  BY TaskFacts DEF IInv
<1>4. /\ task'[t].state = "running" /\ task'[t].at = (IF vfork THEN "vfork mm" ELSE "fork mm") /\ task'[t].child = c
      /\ task'[t].vfork = task[t].vfork /\ task'[t].mm = task[t].mm /\ task'[t].files = task[t].files
      /\ task'[c].state = "made" /\ task'[c].at = "user" /\ task'[c].parent = t /\ task'[c].vfork = (task[t].vfork \/ vfork)
      /\ task'[c].mm = task[t].mm /\ task'[c].files = task[t].files
  BY <1>a, <1>2, <1>3 DEF TaskStructs, Runs
<1>b. Pid' = Pid \cup {c} /\ c \notin Pid /\ \A u \in Pid \ {t} : task'[u] = task[u]
  BY <1>a
<1>c. \A u \in Pid : /\ task'[u].vfork = task[u].vfork /\ task'[u].mm = task[u].mm
                     /\ task'[u].files = task[u].files /\ task'[u].state = task[u].state
  BY <1>b, <1>2, <1>4 DEF Runs
<1>5. PointersInv'
  <2>1. \A u \in Pid' : \E v \in Pid : task'[u].mm = task[v].mm /\ task'[u].files = task[v].files
    BY <1>b, <1>c, <1>4
  <2> QED
    BY <1>b, <1>2, <1>3, <2>1 DEF PointersInv
<1>6. ASSUME NEW d \in Pid, Made(d)
      PROVE  /\ d # t /\ task[d].parent \in Pid \ {t}
             /\ task'[d] = task[d] /\ Forker(d)' = Forker(d)
  <2>1. d # t
    BY <1>2, <1>6 DEF Made, Runs
  <2>2. task[d].parent \in Pid \ {t}
    BY <1>2, <1>3, <1>6 DEF ForkInv, Made, Forker
  <2> QED
    BY <1>b, <2>1, <2>2 DEF Forker
<1>d. ASSUME NEW d \in Pid', Made(d)'
      PROVE  d = c \/ (d \in Pid /\ Made(d))
  BY <1>b, <1>c, <1>d DEF Made
<1>e. Made(c)' /\ Forker(c)' = task'[t]
  BY <1>4 DEF Made, Forker
<1>7. ForkInv'
  <2>1. ASSUME NEW u \in Pid', task'[u].at # "user"
        PROVE  Runs(u)' /\ task'[u].child \in Pid' /\ Made(task[u].child)' /\ task'[task'[u].child].parent = u
    <3>1. CASE u = t
      BY <1>b, <1>2, <1>4, <1>e, <3>1 DEF Runs, Made
    <3>2. CASE u # t
      <4>1. u \in Pid /\ task'[u] = task[u]
        BY <1>b, <1>4, <2>1, <3>2
      <4>2. Runs(u) /\ task[u].child \in Pid /\ Made(task[u].child) /\ task[task[u].child].parent = u
        BY <1>3, <2>1, <4>1 DEF ForkInv
      <4>3. task'[task[u].child] = task[task[u].child]
        BY <1>6, <4>2
      <4> QED
        BY <1>b, <4>1, <4>2, <4>3 DEF Runs, Made
    <3> QED
      BY <3>1, <3>2
  <2>2. ASSUME NEW d \in Pid', Made(d)'
        PROVE  task'[d].parent \in Pid' /\ Forker(d)'.at # "user" /\ Forker(d)'.child = d /\ task'[d].at = "user"
    <3>1. CASE d = c
      BY <1>b, <1>4, <1>e, <3>1
    <3>2. CASE d # c
      <4>1. d \in Pid /\ Made(d)
        BY <1>d, <2>2, <3>2
      <4>2. task[d].parent \in Pid /\ Forker(d).at # "user" /\ Forker(d).child = d /\ task[d].at = "user"
        BY <1>3, <4>1 DEF ForkInv
      <4> QED
        BY <1>b, <1>6, <4>1, <4>2
    <3> QED
      BY <3>1, <3>2
  <2> QED
    BY <2>1, <2>2 DEF ForkInv
<1>8. CopyInv'
  <2> SUFFICES ASSUME NEW d \in Pid', Made(d)'
               PROVE  LET p == task'[d].parent IN
                      /\ Forker(d)'.at \in {"fork mm", "fork files"} => task'[d].vfork = task'[p].vfork
                      /\ Forker(d)'.at = "vfork mm" => task'[d].vfork
                      /\ want'[d] = want'[p] /\ (p \in blanked' => d \in blanked')
                      /\ ~nested' => ~task'[p].vfork
    BY Zenon DEF CopyInv
  <2>1. CASE d = c
    <3>1. want'[c] = want'[t] /\ (t \in blanked' => c \in blanked')
      BY <1>a, <1>2
    <3>2. task'[c].vfork \in BOOLEAN
      BY <1>3, <1>4 DEF TaskStructs
    <3>3. /\ task'[t].at = (IF vfork THEN "vfork mm" ELSE "fork mm") /\ task'[t].vfork = task[t].vfork
          /\ task'[c].parent = t /\ task'[c].vfork = (task[t].vfork \/ vfork) /\ task[t].vfork \in BOOLEAN
      BY <1>3, <1>4 DEF TaskStructs
    <3>4. ~nested' => ~task'[t].vfork
      BY <1>2, <3>3
    <3>5. /\ Forker(c)'.at \in {"fork mm", "fork files"} => task'[c].vfork = task'[t].vfork
          /\ Forker(c)'.at = "vfork mm" => task'[c].vfork
      BY <1>e, <3>3
    <3> QED
      BY <2>1, <3>1, <3>3, <3>4, <3>5
  <2>2. CASE d # c
    <3>1. d \in Pid /\ Made(d)
      BY <1>d, <2>2
    <3> DEFINE p == task[d].parent
    <3>2. /\ Forker(d).at \in {"fork mm", "fork files"} => task[d].vfork = task[p].vfork
          /\ Forker(d).at = "vfork mm" => task[d].vfork
          /\ want[d] = want[p] /\ (p \in blanked => d \in blanked)
          /\ ~nested => ~task[p].vfork
      BY <1>3, <3>1 DEF CopyInv
    <3>3. p \in Pid /\ task'[d] = task[d] /\ Forker(d)' = Forker(d) /\ task'[p] = task[p]
      BY <1>6, <1>b, <3>1
    <3>4. want'[d] = want[d] /\ want'[p] = want[p]
      BY <1>a, <3>1, <3>3
    <3>5. p \in blanked' => p \in blanked
      BY <1>2, <1>b, <3>3
    <3> QED
      BY <1>2, <3>2, <3>3, <3>4, <3>5
  <2> QED
    BY <2>1, <2>2
<1>9. /\ \A u \in Pid : (HasMm(u)' <=> HasMm(u)) /\ (HasFiles(u)' <=> HasFiles(u))
      /\ ~HasMm(c)' /\ (HasFiles(c)' <=> vfork)
  <2>1. \A u \in Pid : (Made(u)' <=> Made(u)) /\ (Made(u) => Forker(u)' = Forker(u)) /\ (Runs(u)' <=> Runs(u))
    BY <1>c, <1>6 DEF Made, Runs
  <2>2. ~HasMm(c)' /\ (HasFiles(c)' <=> vfork)
    BY <1>4, <1>e DEF HasMm, HasFiles, Runs
  <2> QED
    BY <1>c, <2>1, <2>2 DEF HasMm, HasFiles
<1>10. /\ \A u \in Pid : /\ (Own(u)' <=> Own(u)) /\ task'[u].mm = task[u].mm
                         /\ task'[u].files = task[u].files /\ task'[u].state = task[u].state
       /\ vfork => ~Own(c)'
  BY <1>4, <1>c DEF Own
<1>11. MmInv' /\ ProgramInv'
  <2>1. \A u \in Pid' : Own(u)' /\ HasMm(u)' =>
          /\ u \in Pid /\ Own(u) /\ HasMm(u) /\ task'[u].mm = task[u].mm
          /\ want'[u] = want[u] /\ (u \in blanked => u \in blanked')
    <3>1. \A u \in Pid : want'[u] = want[u] /\ (u \in blanked => u \in blanked')
      BY <1>a, <1>2
    <3> QED
      BY <1>b, <1>9, <1>10, <3>1
  <2>2. \A u \in Pid : task[u].state = "reaped" => task'[u].state = "reaped"
    BY <1>10
  <2>3. MmInv /\ ProgramInv
    BY DEF IInv
  <2> QED
    BY <1>2, <1>3, <2>1, <2>2, <2>3, MemoryUntouched
<1>12. FilesInv' /\ TwiceInv'
  <2>1. FilesInv /\ TwiceInv
    BY DEF IInv
  <2>2. \A u \in Pid : Held(u)' = Held(u)
    BY <1>10 DEF Held
  <2>3. Held(c)' = Held(t)
    BY <1>4 DEF Held
  <2>4. lent \subseteq lent'
    BY <1>2
  <2>5. \A u \in Pid' : task'[u].state \in {"zombie", "reaped"} => Held(u)' = {}
    <3>1. \A u \in Pid : task'[u].state \in {"zombie", "reaped"} => Held(u)' = {}
      BY <1>c, <2>1, <2>2 DEF FilesInv
    <3> QED
      BY <1>b, <1>4, <3>1
  <2>6. \A u \in Pid' : \A fd, gd \in Fd : task'[u].files[fd] = task'[u].files[gd] => fd = gd \/ task'[u].files[fd] = 0
    <3>1. \A u \in Pid' : \E v \in Pid : task'[u].files = task[v].files
      BY <1>b, <1>c, <1>4
    <3> QED
      BY <2>1, <3>1 DEF FilesInv
  <2>7. \A u, v \in Pid' : u # v /\ HasFiles(u)' /\ HasFiles(v)' =>
          Held(u)' \cap Held(v)' \subseteq IF Own(u)' /\ Own(v)' THEN {} ELSE lent'
    <3>1. HasFiles(t)
      BY <1>2 DEF HasFiles
    <3>2. \A u, v \in Pid : u # v /\ HasFiles(u) /\ HasFiles(v) =>
            Held(u) \cap Held(v) \subseteq lent /\ (Own(u) /\ Own(v) => Held(u) \cap Held(v) = {})
      <4>1. \A A, B, C : (A \cap B \subseteq {} => A \cap B \subseteq C)
        OBVIOUS
      <4> QED
        BY <2>1, <4>1 DEF FilesInv
    <3>3. \A u \in Pid : HasFiles(u)' /\ HasFiles(c)' => Held(u)' \cap Held(c)' \subseteq lent'
      BY <1>2, <1>9, <2>2, <2>3, <3>1, <3>2
    <3>4. \A u, v \in Pid : u # v /\ HasFiles(u)' /\ HasFiles(v)' =>
            Held(u)' \cap Held(v)' \subseteq lent' /\ (Own(u)' /\ Own(v)' => Held(u)' \cap Held(v)' = {})
      BY <1>9, <1>10, <2>2, <2>4, <3>2
    <3>5. HasFiles(c)' => ~Own(c)'
      BY <1>9, <1>10
    <3> QED
      BY <1>b, <3>3, <3>4, <3>5
  <2>8. \A u \in Pid' : HasFiles(u)' => \A f \in Held(u)' : filp'[f].used \/ (f \in lent' /\ (Own(u)' => f \in pinched'))
    <3>1. \A u \in Pid : HasFiles(u)' => \A f \in Held(u)' : filp'[f].used \/ (f \in lent' /\ (Own(u)' => f \in pinched'))
      BY <1>2, <1>9, <1>10, <2>1, <2>2, <2>4 DEF FilesInv
    <3>2. HasFiles(c)' => ~Own(c)' /\ Held(c)' \subseteq lent'
      BY <1>2, <1>9, <1>10, <2>3
    <3> QED
      BY <1>b, <3>1, <3>2
  <2>9. TwiceInv'
    BY <1>2, <2>1, <2>4 DEF TwiceInv
  <2> QED
    BY <2>5, <2>6, <2>7, <2>8, <2>9 DEF FilesInv
<1>13. OwnersInv'
  <2>1. OwnersInv
    BY DEF IInv
  <2>2. \A u \in Pid : /\ Own(u) /\ HasMm(u) => u \in Pid' /\ Own(u)' /\ HasMm(u)' /\ task'[u].mm = task[u].mm
                       /\ Own(u) /\ HasFiles(u) => u \in Pid' /\ Own(u)' /\ HasFiles(u)' /\ task'[u].files = task[u].files
    BY <1>b, <1>9, <1>10
  <2> QED
    BY <1>2, <1>3, <2>1, <2>2, OwnersUntouched
<1> QED
  BY <1>a, <1>5, <1>7, <1>8, <1>11, <1>12, <1>13 DEF IInv

\* A step in do_fork(), between the copy of the task and its start.
LEMMA Making ==
    ASSUME Types, ForkInv, CopyInv, NEW t \in Pid, NEW c \in Pid, c = task[t].child, task[t].at # "user",
           Pid' = Pid, RestKept, \A u \in Pid \ {t, c} : task'[u] = task[u],
           task'[t].at = "wake" \/ (task'[t].at = "fork files" /\ task[t].at = "fork mm"),
           task'[t].state = task[t].state, task'[t].child = c, task'[t].vfork = task[t].vfork,
           task'[c].state = task[c].state, task'[c].at = task[c].at, task'[c].parent = task[c].parent,
           task'[c].vfork = task[c].vfork
    PROVE  /\ ForkInv' /\ CopyInv' /\ Runs(t) /\ t # c /\ Made(c) /\ task[c].parent = t
           /\ Runs(t)' /\ Made(c)' /\ Forker(c)' = task'[t]
           /\ \A u \in Pid \ {c} : (HasMm(u)' <=> HasMm(u)) /\ (HasFiles(u)' <=> HasFiles(u))
           /\ \A u \in Pid : Own(u)' <=> Own(u)
<1>1. Runs(t) /\ t # c /\ Made(c) /\ task[c].parent = t
  BY ChildFacts
<1>2. Runs(t)' /\ Made(c)' /\ Forker(c)' = task'[t] /\ task'[c].parent = t
  BY <1>1 DEF Runs, Made, Forker
<1>3. ASSUME NEW d \in Pid \ {c}, Made(d)
      PROVE  /\ d # t /\ task[d].parent \in Pid \ {t, c} /\ task'[d] = task[d]
             /\ task'[task[d].parent] = task[task[d].parent] /\ Forker(d)' = Forker(d)
  <2>1. d # t
    BY <1>1, <1>3 DEF Made, Runs
  <2>2. task[d].parent \in Pid /\ Forker(d).at # "user" /\ Forker(d).child = d
    BY <1>3 DEF ForkInv
  <2>3. task[d].parent # t /\ task[d].parent # c
    <3>1. task[c].at = "user"
      BY <1>1 DEF ForkInv
    <3> QED
      BY <2>2, <3>1 DEF Forker
  <2> QED
    BY <2>1, <2>2, <2>3 DEF Forker
<1>4. \A u \in Pid : (Made(u)' <=> Made(u)) /\ (Runs(u)' <=> Runs(u)) /\ task'[u].state = task[u].state
  BY DEF Made, Runs
<1>5. ForkInv'
  <2>1. ASSUME NEW u \in Pid, task'[u].at # "user"
        PROVE  Runs(u)' /\ task'[u].child \in Pid /\ Made(task[u].child)' /\ task'[task'[u].child].parent = u
    <3>1. CASE u = t
      BY <1>2, <3>1
    <3>2. CASE u # t
      <4>0. task[c].at = "user"
        BY <1>1 DEF ForkInv
      <4>1. u # c /\ task'[u] = task[u]
        BY <2>1, <3>2, <4>0
      <4>2. Runs(u) /\ task[u].child \in Pid /\ Made(task[u].child) /\ task[task[u].child].parent = u
        BY <2>1, <4>1 DEF ForkInv
      <4>3. task[u].child # c
        BY <1>1, <3>2, <4>2
      <4>4. task'[task[u].child] = task[task[u].child]
        BY <1>3, <4>2, <4>3
      <4> QED
        BY <1>4, <4>1, <4>2, <4>4
    <3> QED
      BY <3>1, <3>2
  <2>2. ASSUME NEW d \in Pid, Made(d)'
        PROVE  task'[d].parent \in Pid /\ Forker(d)'.at # "user" /\ Forker(d)'.child = d /\ task'[d].at = "user"
    <3>1. CASE d = c
      <4>1. task[c].at = "user"
        BY <1>1 DEF ForkInv
      <4> QED
        BY <1>2, <3>1, <4>1
    <3>2. CASE d # c
      <4>1. Made(d)
        BY <1>4, <2>2
      <4>2. task[d].parent \in Pid /\ Forker(d).at # "user" /\ Forker(d).child = d /\ task[d].at = "user"
        BY <4>1 DEF ForkInv
      <4> QED
        BY <1>3, <3>2, <4>1, <4>2
    <3> QED
      BY <3>1, <3>2
  <2> QED
    BY <2>1, <2>2 DEF ForkInv
<1>6. CopyInv'
  <2> SUFFICES ASSUME NEW d \in Pid', Made(d)'
               PROVE  LET p == task'[d].parent IN
                      /\ Forker(d)'.at \in {"fork mm", "fork files"} => task'[d].vfork = task'[p].vfork
                      /\ Forker(d)'.at = "vfork mm" => task'[d].vfork
                      /\ want'[d] = want'[p] /\ (p \in blanked' => d \in blanked')
                      /\ ~nested' => ~task'[p].vfork
    BY Zenon DEF CopyInv
  <2> DEFINE p == task[d].parent
  <2>1. Made(d)
    BY <1>4
  <2>2. /\ Forker(d).at \in {"fork mm", "fork files"} => task[d].vfork = task[p].vfork
        /\ Forker(d).at = "vfork mm" => task[d].vfork
        /\ want[d] = want[p] /\ (p \in blanked => d \in blanked)
        /\ ~nested => ~task[p].vfork
    BY <2>1 DEF CopyInv
  <2>3. UNCHANGED <<want, blanked, nested>>
    BY DEF RestKept
  <2>4. CASE d = c
    <3>1. p = t /\ task'[d].parent = t /\ Forker(d) = task[t] /\ Forker(d)' = task'[t]
      BY <1>1, <1>2, <2>4 DEF Forker
    <3> QED
      BY <2>2, <2>3, <2>4, <3>1
  <2>5. CASE d # c
    <3>1. task'[d] = task[d] /\ task'[p] = task[p] /\ Forker(d)' = Forker(d)
      BY <1>3, <2>1, <2>5
    <3> QED
      BY <2>2, <2>3, <3>1
  <2> QED
    BY <2>4, <2>5
<1>7. \A u \in Pid \ {c} : (HasMm(u)' <=> HasMm(u)) /\ (HasFiles(u)' <=> HasFiles(u))
  BY <1>3, <1>4 DEF HasMm, HasFiles
<1>8. \A u \in Pid : Own(u)' <=> Own(u)
  BY DEF Own
<1> QED
  BY <1>1, <1>2, <1>5, <1>6, <1>7, <1>8

LEMMA WakeKeeps == ASSUME IInv, NEW t \in Pid, Wake(t) PROVE IInv'
<1>0. Types /\ PointersInv /\ ForkInv /\ CopyInv /\ MmInv /\ ProgramInv /\ FilesInv /\ TwiceInv /\ OwnersInv
  BY DEF IInv
<1>1. PICK c : c = task[t].child
  OBVIOUS
<1>2. /\ t # c /\ c \in Pid /\ Types' /\ Pid' = Pid /\ RestKept /\ UNCHANGED <<mm, page, filp, twice>>
      /\ \A u \in Pid \ {t, c} : task'[u] = task[u]
      /\ task[t].at = "wake" /\ task'[t] = [task[t] EXCEPT !.at = "user", !.child = 0]
      /\ task'[c] = [task[c] EXCEPT !.state = "running", !.at = "user"]
  BY <1>0, <1>1, WakeDoes
<1>3. Runs(t) /\ Made(c) /\ task[c].parent = t /\ task[t] \in TaskStructs /\ task[c] \in TaskStructs
      /\ task[c].at = "user"
  <2>1. Runs(t) /\ Made(c) /\ task[c].parent = t /\ task[t] \in TaskStructs /\ task[c] \in TaskStructs
    BY <1>0, <1>1, <1>2, ChildFacts
  <2> QED
    BY <1>0, <1>2, <2>1 DEF ForkInv
<1>4. /\ task'[t].at = "user" /\ task'[t].state = "running" /\ task'[c].at = "user" /\ task'[c].state = "running"
      /\ \A u \in Pid : task'[u].mm = task[u].mm /\ task'[u].files = task[u].files /\ task'[u].vfork = task[u].vfork
  <2>1. \A x : [x EXCEPT !.at = "user", !.child = 0] = [[x EXCEPT !.at = "user"] EXCEPT !.child = 0]
    OBVIOUS
  <2>2. /\ task'[t].at = "user" /\ task'[t].state = "running"
        /\ task'[t].mm = task[t].mm /\ task'[t].files = task[t].files /\ task'[t].vfork = task[t].vfork
    BY <1>2, <1>3 DEF TaskStructs, Runs
  <2>3. /\ task'[c].at = "user" /\ task'[c].state = "running"
        /\ task'[c].mm = task[c].mm /\ task'[c].files = task[c].files /\ task'[c].vfork = task[c].vfork
    BY <1>2, <1>3 DEF TaskStructs
  <2> QED
    BY <1>2, <2>2, <2>3
<1>5. PointersInv'
  BY <1>0, <1>2, <1>4 DEF PointersInv
<1>6. ASSUME NEW d \in Pid \ {c}, Made(d)
      PROVE  /\ d # t /\ task[d].parent \in Pid \ {t, c} /\ task'[d] = task[d]
             /\ task'[task[d].parent] = task[task[d].parent] /\ Forker(d)' = Forker(d)
  <2>1. d # t
    BY <1>3, <1>6 DEF Made, Runs
  <2>2. task[d].parent \in Pid /\ Forker(d).at # "user" /\ Forker(d).child = d
    BY <1>0, <1>6 DEF ForkInv
  <2>3. task[d].parent # t /\ task[d].parent # c
    BY <1>1, <1>3, <2>2 DEF Forker
  <2> QED
    BY <1>2, <2>1, <2>2, <2>3 DEF Forker
<1>7. /\ \A u \in Pid \ {t, c} : task'[u].state = task[u].state
      /\ \A u \in Pid : (Runs(u)' <=> Runs(u) \/ u = c) /\ (Made(u)' <=> Made(u) /\ u # c)
  <2>1. \A u \in Pid \ {t, c} : task'[u] = task[u]
    BY <1>2
  <2>2. ~Runs(c) /\ ~Made(t) /\ Runs(c)' /\ ~Made(c)' /\ Runs(t)' /\ ~Made(t)'
    BY <1>3, <1>4 DEF Runs, Made
  <2> QED
    BY <1>3, <2>1, <2>2 DEF Runs, Made
<1>8. ForkInv'
  <2>1. ASSUME NEW u \in Pid, task'[u].at # "user"
        PROVE  Runs(u)' /\ task'[u].child \in Pid /\ Made(task[u].child)' /\ task'[task'[u].child].parent = u
    <3>1. u # t /\ u # c /\ task'[u] = task[u]
      BY <1>2, <1>4, <2>1
    <3>2. Runs(u) /\ task[u].child \in Pid /\ Made(task[u].child) /\ task[task[u].child].parent = u
      BY <1>0, <2>1, <3>1 DEF ForkInv
    <3>3. task[u].child # c
      BY <1>3, <3>1, <3>2
    <3> QED
      BY <1>6, <1>7, <3>1, <3>2, <3>3
  <2>2. ASSUME NEW d \in Pid, Made(d)'
        PROVE  task'[d].parent \in Pid /\ Forker(d)'.at # "user" /\ Forker(d)'.child = d /\ task'[d].at = "user"
    <3>1. Made(d) /\ d # c
      BY <1>7, <2>2
    <3>2. task[d].parent \in Pid /\ Forker(d).at # "user" /\ Forker(d).child = d /\ task[d].at = "user"
      BY <1>0, <3>1 DEF ForkInv
    <3> QED
      BY <1>6, <3>1, <3>2
  <2> QED
    BY <1>2, <2>1, <2>2 DEF ForkInv
<1>9. CopyInv'
  <2> SUFFICES ASSUME NEW d \in Pid', Made(d)'
               PROVE  LET p == task'[d].parent IN
                      /\ Forker(d)'.at \in {"fork mm", "fork files"} => task'[d].vfork = task'[p].vfork
                      /\ Forker(d)'.at = "vfork mm" => task'[d].vfork
                      /\ want'[d] = want'[p] /\ (p \in blanked' => d \in blanked')
                      /\ ~nested' => ~task'[p].vfork
    BY Zenon DEF CopyInv
  <2> DEFINE p == task[d].parent
  <2>1. d \in Pid /\ Made(d) /\ d # c
    BY <1>2, <1>7
  <2>2. /\ Forker(d).at \in {"fork mm", "fork files"} => task[d].vfork = task[p].vfork
        /\ Forker(d).at = "vfork mm" => task[d].vfork
        /\ want[d] = want[p] /\ (p \in blanked => d \in blanked)
        /\ ~nested => ~task[p].vfork
    BY <1>0, <2>1 DEF CopyInv
  <2>3. UNCHANGED <<want, blanked, nested>>
    BY <1>2 DEF RestKept
  <2>4. task'[d] = task[d] /\ task'[p] = task[p] /\ Forker(d)' = Forker(d)
    BY <1>6, <2>1
  <2> QED
    BY <2>2, <2>3, <2>4
<1>10. \A u \in Pid : (HasMm(u)' <=> HasMm(u)) /\ (HasFiles(u)' <=> HasFiles(u)) /\ (Own(u)' <=> Own(u))
  <2>1. \A u \in Pid \ {c} : (HasMm(u)' <=> HasMm(u)) /\ (HasFiles(u)' <=> HasFiles(u))
    <3>1. \A u \in Pid \ {c} : (Made(u) => Forker(u)' = Forker(u)) /\ task'[u].state = task[u].state
      BY <1>3, <1>4, <1>6, <1>7 DEF Runs
    <3> QED
      BY <1>7, <3>1 DEF HasMm, HasFiles
  <2>2. HasMm(c) /\ HasFiles(c) /\ HasMm(c)' /\ HasFiles(c)'
    BY <1>2, <1>3, <1>4, <1>7 DEF HasMm, HasFiles, Forker, Runs
  <2>3. \A u \in Pid : Own(u)' <=> Own(u)
    BY <1>4 DEF Own
  <2> QED
    BY <2>1, <2>2, <2>3
<1>11. UNCHANGED <<lent, pinched, want, blanked, reexec, nested>>
  BY <1>2 DEF RestKept
<1>12. \A u \in Pid : task'[u].state \in {"zombie", "reaped"} <=> task[u].state \in {"zombie", "reaped"}
  BY <1>3, <1>4, <1>7 DEF Runs, Made
<1>13. MmInv' /\ ProgramInv'
  <2>1. \A u \in Pid' : Own(u)' /\ HasMm(u)' =>
          /\ u \in Pid /\ Own(u) /\ HasMm(u) /\ task'[u].mm = task[u].mm
          /\ want'[u] = want[u] /\ (u \in blanked => u \in blanked')
    BY <1>2, <1>4, <1>10, <1>11
  <2>2. \A u \in Pid : task[u].state = "reaped" => task'[u].state = "reaped"
    BY <1>3, <1>7 DEF Runs, Made
  <2> QED
    BY <1>0, <1>2, <2>1, <2>2, MemoryUntouched
<1>14. FilesInv' /\ TwiceInv'
  BY <1>0, <1>2, <1>4, <1>10, <1>11, <1>12, FilesUntouched
<1>15. OwnersInv'
  BY <1>0, <1>2, <1>4, <1>10, <1>11, OwnersUntouched
<1> QED
  BY <1>2, <1>5, <1>8, <1>9, <1>13, <1>14, <1>15 DEF IInv

LEMMA CopyMmKeeps == ASSUME IInv, NEW t \in Pid, copy_mm(t) PROVE IInv'
<1>0. Types /\ PointersInv /\ ForkInv /\ CopyInv /\ MmInv /\ ProgramInv /\ FilesInv /\ TwiceInv /\ OwnersInv
  BY DEF IInv
<1>1. PICK c, old, m, p : c = task[t].child /\ old = mm[task[t].mm] /\ m = Len(mm) + 1 /\ p = Len(page) + 1
  OBVIOUS
<1>2. /\ t # c /\ c \in Pid /\ Types' /\ Pid' = Pid /\ RestKept /\ UNCHANGED <<filp, twice>>
      /\ \A u \in Pid \ {t, c} : task'[u] = task[u]
      /\ \/ /\ task[t].at = "vfork mm" /\ task'[t] = [task[t] EXCEPT !.at = "wake"]
            /\ task'[c] = [task[c] EXCEPT !.mm = task[t].mm]
            /\ UNCHANGED <<mm, page>>
         \/ /\ task[t].at = "fork mm" /\ task'[t] = [task[t] EXCEPT !.at = "fork files"]
            /\ task'[c] = [task[c] EXCEPT !.mm = m]
            /\ Len(mm') = m /\ (\A n \in DOMAIN mm : mm'[n] = mm[n])
            /\ mm'[m] = [old EXCEPT !.used = TRUE, !.page = IF old.sized THEN p ELSE 0, !.by = c]
            /\ IF old.sized
               THEN /\ Len(page') = p /\ (\A q \in DOMAIN page : page'[q] = page[q])
                    /\ page'[p] = [page[old.page] EXCEPT !.used = TRUE]
               ELSE UNCHANGED page
  BY <1>0, <1>1, CopyMmDoes
<1>3. task[t].at \in {"vfork mm", "fork mm"} /\ task[t].at # "user" /\ task[t] \in TaskStructs /\ task[c] \in TaskStructs
  <2>1. task[t].at \in {"vfork mm", "fork mm"}
    BY <1>2
  <2> QED
    BY <1>0, <1>2, <2>1, TaskFacts
<1>4. /\ task'[t].at = (IF task[t].at = "vfork mm" THEN "wake" ELSE "fork files")
      /\ task'[t].state = task[t].state /\ task'[t].child = c /\ task'[t].mm = task[t].mm
      /\ task'[t].vfork = task[t].vfork /\ task'[t].files = task[t].files
      /\ task'[c].state = task[c].state /\ task'[c].at = task[c].at /\ task'[c].parent = task[c].parent
      /\ task'[c].vfork = task[c].vfork /\ task'[c].files = task[c].files
  BY <1>1, <1>2, <1>3 DEF TaskStructs
<1>5. /\ ForkInv' /\ CopyInv' /\ Runs(t) /\ Made(c) /\ task[c].parent = t
      /\ Runs(t)' /\ Made(c)' /\ Forker(c)' = task'[t]
      /\ \A u \in Pid \ {c} : (HasMm(u)' <=> HasMm(u)) /\ (HasFiles(u)' <=> HasFiles(u))
      /\ \A u \in Pid : Own(u)' <=> Own(u)
  <2>1. task'[t].at = "wake" \/ (task'[t].at = "fork files" /\ task[t].at = "fork mm")
    BY <1>3, <1>4
  <2>2. c \in Pid /\ Pid' = Pid /\ RestKept /\ \A u \in Pid \ {t, c} : task'[u] = task[u]
    BY <1>2
  <2>3. Types /\ ForkInv /\ CopyInv /\ c = task[t].child /\ task[t].at # "user"
    BY <1>0, <1>1, <1>3
  <2>4. /\ task'[t].state = task[t].state /\ task'[t].child = c /\ task'[t].vfork = task[t].vfork
        /\ task'[c].state = task[c].state /\ task'[c].at = task[c].at /\ task'[c].parent = task[c].parent
        /\ task'[c].vfork = task[c].vfork
    BY <1>4
  <2> QED
    BY <2>1, <2>2, <2>3, <2>4, Making, ZenonT(60)
<1>6. \A u \in Pid : task'[u].state = task[u].state /\ task'[u].files = task[u].files
  BY <1>2, <1>4
<1>7. \A u \in Pid \ {c} : task'[u].mm = task[u].mm
  BY <1>2, <1>4
<1>8. UNCHANGED <<lent, pinched, want, blanked, reexec, nested>>
  BY <1>2 DEF RestKept
<1>9. Forker(c) = task[t] /\ ~Runs(c) /\ ~Runs(c)' /\ (HasFiles(c)' <=> HasFiles(c)) /\ ~HasMm(c)
  <2>1. Forker(c) = task[t] /\ ~Runs(c) /\ ~Runs(c)' /\ task[c].state = "made"
    BY <1>5 DEF Forker, Made, Runs
  <2>2. ~HasMm(c)
    BY <1>3, <2>1 DEF HasMm
  <2>3. HasFiles(c)' <=> HasFiles(c)
    BY <1>3, <1>4, <1>5, <2>1 DEF HasFiles
  <2> QED
    BY <2>1, <2>2, <2>3
<1>10. FilesInv' /\ TwiceInv'
  BY <1>0, <1>2, <1>5, <1>6, <1>8, <1>9, FilesUntouched
<1>11. CASE task[t].at = "vfork mm"
  <2>1. UNCHANGED <<mm, page>> /\ task'[c].mm = task[t].mm
    BY <1>2, <1>3, <1>11 DEF TaskStructs
  <2>2. ~Own(c)
    <3>1. Forker(c).at = "vfork mm"
      BY <1>9, <1>11
    <3> QED
      BY <1>0, <1>2, <1>5, <3>1 DEF CopyInv, Own
  <2>3. PointersInv'
    BY <1>0, <1>2, <1>6, <1>7, <2>1 DEF PointersInv
  <2>4. MmInv' /\ ProgramInv'
    <3>1. \A u \in Pid' : Own(u)' /\ HasMm(u)' =>
            /\ u \in Pid /\ Own(u) /\ HasMm(u) /\ task'[u].mm = task[u].mm
            /\ want'[u] = want[u] /\ (u \in blanked => u \in blanked')
      BY <1>2, <1>5, <1>7, <1>8, <2>2
    <3> QED
      BY <1>0, <1>6, <2>1, <3>1, MemoryUntouched
  <2>5. OwnersInv'
    <3>1. \A u \in Pid : /\ Own(u) /\ HasMm(u) => u \in Pid' /\ Own(u)' /\ HasMm(u)' /\ task'[u].mm = task[u].mm
                         /\ Own(u) /\ HasFiles(u) => u \in Pid' /\ Own(u)' /\ HasFiles(u)' /\ task'[u].files = task[u].files
      BY <1>2, <1>5, <1>6, <1>7, <1>9
    <3> QED
      BY <1>0, <1>2, <1>8, <2>1, <3>1, OwnersUntouched
  <2> QED
    BY <1>2, <1>5, <1>10, <2>3, <2>4, <2>5 DEF IInv
<1>12. CASE task[t].at = "fork mm"
  <2>1. /\ Len(mm') = m /\ (\A n \in DOMAIN mm : mm'[n] = mm[n])
        /\ mm'[m] = [old EXCEPT !.used = TRUE, !.page = IF old.sized THEN p ELSE 0, !.by = c]
        /\ IF old.sized
           THEN /\ Len(page') = p /\ (\A q \in DOMAIN page : page'[q] = page[q])
                /\ page'[p] = [page[old.page] EXCEPT !.used = TRUE]
           ELSE UNCHANGED page
        /\ task'[c].mm = m
    BY <1>2, <1>3, <1>12 DEF TaskStructs
  <2>2. /\ Len(mm) \in Nat /\ DOMAIN mm = 1 .. Len(mm) /\ DOMAIN mm' = 1 .. Len(mm')
        /\ Len(page) \in Nat /\ DOMAIN page = 1 .. Len(page) /\ DOMAIN page' = 1 .. Len(page')
    <3>1. mm \in Seq(MmStructs) /\ mm' \in Seq(MmStructs) /\ page \in Seq(Pages) /\ page' \in Seq(Pages)
      BY <1>0, <1>2 DEF Types
    <3> QED
      BY <3>1, LenProperties
  <2>3. DOMAIN mm' = DOMAIN mm \cup {m} /\ m \notin DOMAIN mm
    <3>1. Len(mm') = Len(mm) + 1 /\ m = Len(mm) + 1
      BY <1>1, <2>1
    <3> QED
      BY <2>2, <3>1
  <2>4. /\ DOMAIN page \subseteq DOMAIN page' /\ p \notin DOMAIN page /\ p # 0
        /\ old.sized => DOMAIN page' = DOMAIN page \cup {p}
    <3>1. p = Len(page) + 1 /\ (old.sized => Len(page') = p) /\ (~old.sized => page' = page)
      BY <1>1, <2>1
    <3>2. Len(page) \in Nat /\ DOMAIN page = 1 .. Len(page) /\ DOMAIN page' = 1 .. Len(page')
      BY <2>2
    <3>3. old.sized => DOMAIN page' = 1 .. Len(page) + 1
      BY <3>1, <3>2
    <3>4. ~old.sized => DOMAIN page' = DOMAIN page
      BY <3>1
    <3>5. DOMAIN page \subseteq 1 .. Len(page) + 1 /\ Len(page) + 1 \notin DOMAIN page /\ Len(page) + 1 # 0
          /\ 1 .. Len(page) + 1 = DOMAIN page \cup {Len(page) + 1}
      BY <3>2
    <3> QED
      BY <3>1, <3>3, <3>4, <3>5
  <2>5. task[t].mm \in DOMAIN mm /\ old \in MmStructs
    BY <1>0, <1>1, TaskFacts DEF PointersInv
  <2>6. mm'[m].used /\ mm'[m].sized = old.sized /\ mm'[m].page = (IF old.sized THEN p ELSE 0) /\ mm'[m].by = c
    BY <2>1, <2>5 DEF MmStructs
  <2>7. old.sized => old.page \in DOMAIN page /\ page[old.page] \in Pages
    BY <1>0, <1>1, <2>5, TaskFacts DEF PointersInv, MmInv
  <2>8. old.sized => page'[p].used /\ page'[p].content = page[old.page].content
    BY <2>1, <2>7 DEF Pages
  <2>9. \A q \in DOMAIN page : page'[q] = page[q]
    BY <2>1
  <2>10. (Own(c) <=> Own(t)) /\ (Own(t) => old.used /\ old.sized) /\ (~nested => Own(c)) /\ HasMm(t) /\ HasMm(c)'
    <3>1. Own(c) <=> Own(t)
      <4>1. Made(c) /\ task[c].parent = t /\ Forker(c).at = "fork mm" /\ c \in Pid
        BY <1>2, <1>5, <1>9, <1>12
      <4>2. task[c].vfork = task[t].vfork
        BY <1>0, <4>1 DEF CopyInv
      <4> QED
        BY <4>2 DEF Own
    <3>2. HasMm(t) /\ HasMm(c)'
      BY <1>4, <1>5, <1>12 DEF HasMm, Runs
    <3>3. Own(t) => old.used /\ old.sized
      BY <1>0, <1>1, <3>2 DEF MmInv
    <3>4. ~nested => Own(t)
      BY <1>0, <1>2, <1>5 DEF CopyInv, Own
    <3> QED
      BY <3>1, <3>2, <3>3, <3>4
  <2>11. \A n \in DOMAIN mm : mm[n].page \in {0} \cup DOMAIN page /\ mm[n].by \in Pid
    BY <1>0 DEF PointersInv
  <2>12. PointersInv'
    <3>1. \A u \in Pid : task'[u].mm \in DOMAIN mm'
      BY <1>0, <1>7, <2>1, <2>3 DEF PointersInv
    <3>2. \A u \in Pid : \A fd \in Fd : task'[u].files[fd] \in {0} \cup DOMAIN filp'
      BY <1>0, <1>2, <1>6 DEF PointersInv
    <3>3. \A n \in DOMAIN mm' : mm'[n].page \in {0} \cup DOMAIN page' /\ mm'[n].by \in Pid
      <4>1. mm'[m].page \in {0} \cup DOMAIN page' /\ mm'[m].by \in Pid
        BY <1>2, <2>4, <2>6
      <4>2. \A n \in DOMAIN mm : mm'[n] = mm[n]
        BY <2>1
      <4> QED
        BY <2>3, <2>4, <2>11, <4>1, <4>2
    <3> QED
      BY <1>2, <3>1, <3>2, <3>3 DEF PointersInv
  <2>13. MmInv'
    <3>1. ASSUME NEW u \in Pid, Own(u)', HasMm(u)'
          PROVE  mm'[task'[u].mm].used /\ mm'[task'[u].mm].by = u /\ mm'[task'[u].mm].sized
      <4>1. CASE u = c
        BY <1>5, <2>1, <2>6, <2>10, <3>1, <4>1
      <4>2. CASE u # c
        <5>1. Own(u) /\ HasMm(u) /\ task'[u].mm = task[u].mm /\ task[u].mm \in DOMAIN mm
          BY <1>0, <1>5, <1>7, <3>1, <4>2 DEF PointersInv
        <5> QED
          BY <1>0, <2>1, <5>1 DEF MmInv
      <4> QED
        BY <4>1, <4>2
    <3>2. ASSUME NEW n \in DOMAIN mm'
          PROVE  /\ mm'[n].sized => mm'[n].page # 0
                 /\ mm'[n].used /\ mm'[n].page # 0 => page'[mm'[n].page].used
                 /\ ~mm'[n].used => task'[mm'[n].by].state = "reaped"
      <4>1. CASE n = m
        BY <2>4, <2>6, <2>8, <4>1
      <4>2. CASE n # m
        <5>1. n \in DOMAIN mm /\ mm'[n] = mm[n]
          BY <2>1, <2>3, <4>2
        <5>2. /\ mm[n].sized => mm[n].page # 0
              /\ mm[n].used /\ mm[n].page # 0 => page[mm[n].page].used
              /\ ~mm[n].used => task[mm[n].by].state = "reaped"
          BY <1>0, <5>1 DEF MmInv
        <5> QED
          BY <1>6, <2>9, <2>11, <5>1, <5>2
      <4> QED
        BY <4>1, <4>2
    <3>3. ASSUME NEW n \in DOMAIN mm', NEW k \in DOMAIN mm', n # k, mm'[n].page # 0
          PROVE  mm'[n].page # mm'[k].page
      <4>1. CASE n # m /\ k # m
        <5>1. n \in DOMAIN mm /\ mm'[n] = mm[n] /\ k \in DOMAIN mm /\ mm'[k] = mm[k]
          BY <2>1, <2>3, <4>1
        <5> QED
          BY <1>0, <3>3, <5>1 DEF MmInv
      <4>2. CASE n = m
        <5>1. k \in DOMAIN mm /\ mm'[k] = mm[k] /\ mm'[n].page = p
          BY <2>1, <2>3, <2>6, <3>3, <4>2
        <5> QED
          BY <2>4, <2>11, <5>1
      <4>3. CASE k = m
        <5>1. n \in DOMAIN mm /\ mm'[n] = mm[n] /\ mm'[k].page \in {0, p}
          BY <2>1, <2>3, <2>6, <3>3, <4>3
        <5> QED
          BY <2>4, <2>11, <3>3, <5>1
      <4> QED
        BY <4>1, <4>2, <4>3
    <3> QED
      BY <1>2, <3>1, <3>2, <3>3 DEF MmInv
  <2>14. ProgramInv'
    <3> SUFFICES ASSUME NEW u \in Pid, Own(u)', HasMm(u)', u \notin blanked'
                 PROVE  page'[mm'[task'[u].mm].page].content = want'[u]
      BY <1>2 DEF ProgramInv, Page
    <3>1. CASE u = c
      <4>1. Own(t) /\ t \notin blanked /\ want[c] = want[t]
        BY <1>0, <1>2, <1>5, <1>8, <2>10, <3>1 DEF CopyInv
      <4>2. page[old.page].content = want[t]
        BY <1>0, <1>1, <2>10, <4>1 DEF ProgramInv, Page
      <4> QED
        <5>1. mm'[m].page = p /\ page'[p].content = page[old.page].content
          BY <2>6, <2>8, <2>10, <4>1
        <5>2. task'[c].mm = m /\ want'[c] = want[c]
          BY <1>8, <2>1
        <5> QED
          BY <3>1, <4>1, <4>2, <5>1, <5>2
    <3>2. CASE u # c
      <4>1. Own(u) /\ HasMm(u) /\ task'[u].mm = task[u].mm /\ task[u].mm \in DOMAIN mm /\ u \notin blanked
        BY <1>0, <1>5, <1>7, <1>8, <3>2 DEF PointersInv
      <4>2. page[mm[task[u].mm].page].content = want[u]
        BY <1>0, <4>1 DEF ProgramInv, Page
      <4>3. mm[task[u].mm].page \in DOMAIN page
        BY <1>0, <2>11, <4>1 DEF MmInv
      <4> QED
        BY <1>8, <2>1, <2>9, <4>1, <4>2, <4>3
    <3> QED
      BY <3>1, <3>2
  <2>15. OwnersInv'
    <3> SUFFICES ASSUME ~nested' PROVE OwnersInv'
      BY DEF OwnersInv
    <3>1. ~nested /\ Own(c) /\ Own(t)
      BY <1>8, <2>10
    <3>2. ASSUME NEW n \in DOMAIN mm', mm'[n].used
          PROVE  \E u \in Pid : u = mm'[n].by /\ Own(u)' /\ HasMm(u)' /\ task'[u].mm = n
      <4>1. CASE n = m
        BY <1>2, <1>5, <2>1, <2>6, <2>10, <3>1, <4>1
      <4>2. CASE n # m
        <5>1. n \in DOMAIN mm /\ mm'[n] = mm[n] /\ mm[n].by \in Pid
          BY <2>1, <2>3, <2>11, <4>2
        <5>2. Own(mm[n].by) /\ HasMm(mm[n].by) /\ task[mm[n].by].mm = n
          BY <1>0, <3>1, <3>2, <5>1 DEF OwnersInv
        <5> QED
          BY <1>5, <1>7, <1>9, <5>1, <5>2
      <4> QED
        BY <4>1, <4>2
    <3>3. ASSUME ~reexec', NEW q \in DOMAIN page', page'[q].used
          PROVE  \E n \in DOMAIN mm' : mm'[n].used /\ mm'[n].page = q
      <4>1. CASE q = p
        BY <2>3, <2>6, <2>10, <3>1, <4>1
      <4>2. CASE q # p
        <5>1. q \in DOMAIN page /\ page'[q] = page[q]
          BY <2>4, <2>9, <2>10, <3>1, <3>3, <4>2
        <5>2. PICK n \in DOMAIN mm : mm[n].used /\ mm[n].page = q
          BY <1>0, <1>8, <3>1, <3>3, <5>1 DEF OwnersInv
        <5> QED
          BY <2>1, <2>3, <5>2
      <4> QED
        BY <4>1, <4>2
    <3>4. ASSUME NEW f \in DOMAIN filp', filp'[f].used, ~filp'[f].exec
          PROVE  \E u \in Pid : Own(u)' /\ HasFiles(u)' /\ f \in Held(u)'
      <4>1. PICK u \in Pid : Own(u) /\ HasFiles(u) /\ f \in Held(u)
        BY <1>0, <1>2, <3>1, <3>4 DEF OwnersInv
      <4>2. Own(u)' /\ HasFiles(u)' /\ Held(u)' = Held(u)
        BY <1>5, <1>6, <1>9, <4>1 DEF Held
      <4> QED
        BY <4>1, <4>2
    <3> QED
      BY <1>2, <3>2, <3>3, <3>4 DEF OwnersInv
  <2> QED
    BY <1>2, <1>5, <1>10, <2>12, <2>13, <2>14, <2>15 DEF IInv
<1> QED
  BY <1>2, <1>11, <1>12

LEMMA CopyFilesKeeps == ASSUME IInv, NEW t \in Pid, copy_files(t) PROVE IInv'
<1>0. Types /\ PointersInv /\ ForkInv /\ CopyInv /\ MmInv /\ ProgramInv /\ FilesInv /\ TwiceInv /\ OwnersInv
  BY DEF IInv
<1>1. PICK c, places : c = task[t].child /\ places = Places(t)
  OBVIOUS
<1>2. /\ t # c /\ c \in Pid /\ Types' /\ Pid' = Pid /\ RestKept /\ UNCHANGED <<mm, page, twice>>
      /\ \A u \in Pid \ {t, c} : task'[u] = task[u]
      /\ task[t].at = "fork files" /\ task'[t] = [task[t] EXCEPT !.at = "wake"]
      /\ \E fs \in [Fd -> {0} \cup places] :
           /\ task'[c] = [task[c] EXCEPT !.files = fs]
           /\ \A fd, gd \in Fd : fs[fd] = fs[gd] => fd = gd \/ fs[fd] = 0
           /\ \A f \in places : \E fd \in Fd : fs[fd] = f
      /\ places \cap ({0} \cup DOMAIN filp) = {} /\ DOMAIN filp' = DOMAIN filp \cup places
      /\ \A f \in DOMAIN filp : filp'[f] = filp[f]
      /\ \A f \in places : filp'[f] = [used |-> TRUE, exec |-> FALSE]
  <2>1. Types /\ ForkInv
    BY <1>0
  <2>2. /\ t # task[t].child /\ task[t].child \in Pid /\ Types' /\ Pid' = Pid /\ RestKept /\ UNCHANGED <<mm, page, twice>>
        /\ \A u \in Pid \ {t, task[t].child} : task'[u] = task[u]
        /\ task[t].at = "fork files" /\ task'[t] = [task[t] EXCEPT !.at = "wake"]
    BY <2>1, CopyFilesDoes
  <2>3. \E fs \in [Fd -> {0} \cup Places(t)] :
           /\ task'[task[t].child] = [task[task[t].child] EXCEPT !.files = fs]
           /\ \A fd, gd \in Fd : fs[fd] = fs[gd] => fd = gd \/ fs[fd] = 0
           /\ \A f \in Places(t) : \E fd \in Fd : fs[fd] = f
    BY <2>1, CopyFilesDoes, Zenon
  <2>4. /\ Places(t) \cap ({0} \cup DOMAIN filp) = {} /\ DOMAIN filp' = DOMAIN filp \cup Places(t)
        /\ \A f \in DOMAIN filp : filp'[f] = filp[f]
        /\ \A f \in Places(t) : filp'[f] = [used |-> TRUE, exec |-> FALSE]
    BY <2>1, CopyFilesDoes
  <2> QED
    BY <1>1, <2>2, <2>3, <2>4, Zenon
<1>3. task[t].at = "fork files" /\ task[t] \in TaskStructs /\ task[c] \in TaskStructs
  BY <1>0, <1>2, TaskFacts
<1>4. PICK fs \in [Fd -> {0} \cup places] :
        /\ task'[c] = [task[c] EXCEPT !.files = fs]
        /\ \A fd, gd \in Fd : fs[fd] = fs[gd] => fd = gd \/ fs[fd] = 0
        /\ \A f \in places : \E fd \in Fd : fs[fd] = f
  BY <1>2
<1>5. /\ task'[t].at = "wake" /\ task'[t].state = task[t].state /\ task'[t].child = c /\ task'[t].mm = task[t].mm
      /\ task'[t].vfork = task[t].vfork /\ task'[t].files = task[t].files
  BY <1>1, <1>2, <1>3 DEF TaskStructs
<1>6. /\ task'[c].state = task[c].state /\ task'[c].at = task[c].at /\ task'[c].parent = task[c].parent
      /\ task'[c].vfork = task[c].vfork /\ task'[c].mm = task[c].mm /\ task'[c].files = fs
  BY <1>3, <1>4 DEF TaskStructs
<1>7. /\ ForkInv' /\ CopyInv' /\ Runs(t) /\ Made(c) /\ task[c].parent = t
      /\ Runs(t)' /\ Made(c)' /\ Forker(c)' = task'[t]
      /\ \A u \in Pid \ {c} : (HasMm(u)' <=> HasMm(u)) /\ (HasFiles(u)' <=> HasFiles(u))
      /\ \A u \in Pid : Own(u)' <=> Own(u)
  <2>1. task[t].at # "user" /\ task'[t].at = "wake"
    BY <1>3, <1>5
  <2>2. c \in Pid /\ Pid' = Pid /\ RestKept /\ \A u \in Pid \ {t, c} : task'[u] = task[u]
    BY <1>2
  <2>3. Types /\ ForkInv /\ CopyInv /\ c = task[t].child
    BY <1>0, <1>1
  <2>4. task'[t].state = task[t].state /\ task'[t].child = c /\ task'[t].vfork = task[t].vfork
    BY <1>5
  <2>5. /\ task'[c].state = task[c].state /\ task'[c].at = task[c].at /\ task'[c].parent = task[c].parent
        /\ task'[c].vfork = task[c].vfork
    BY <1>6
  <2> QED
    BY <2>1, <2>2, <2>3, <2>4, <2>5, Making, ZenonT(60)
<1>8. \A u \in Pid : task'[u].state = task[u].state /\ task'[u].mm = task[u].mm
  BY <1>2, <1>5, <1>6
<1>9. \A u \in Pid \ {c} : task'[u].files = task[u].files /\ Held(u)' = Held(u)
  <2>1. \A u \in Pid \ {t, c} : task'[u] = task[u]
    BY <1>2
  <2>2. \A u \in Pid \ {c} : task'[u].files = task[u].files
    BY <1>5, <2>1
  <2> QED
    BY <2>2 DEF Held
<1>10. UNCHANGED <<lent, pinched, want, blanked, reexec, nested>>
  BY <1>2 DEF RestKept
<1>11. Held(c)' = places /\ HasFiles(c)' /\ HasMm(c) /\ HasMm(c)' /\ ~HasFiles(c)
  <2>1. Held(c)' = places
    <3>1. places \cap {0} = {} /\ \A fd \in Fd : fs[fd] \in {0} \cup places
      BY <1>2, <1>4
    <3>2. \A f \in places : \E fd \in Fd : fs[fd] = f
      BY <1>4
    <3>3. Held(c)' = {fs[fd] : fd \in Fd} \ {0}
      BY <1>6 DEF Held
    <3> QED
      BY <3>1, <3>2, <3>3
  <2>2. Forker(c).at = "fork files" /\ Forker(c)'.at = "wake" /\ task[c].state = "made" /\ task'[c].state = "made"
    BY <1>3, <1>5, <1>6, <1>7 DEF Forker, Made
  <2> QED
    BY <1>7, <2>1, <2>2 DEF HasFiles, HasMm, Runs
<1>12. PointersInv'
  <2>1. \A fd \in Fd : task'[c].files[fd] \in {0} \cup DOMAIN filp'
    BY <1>2, <1>4, <1>6
  <2>2. \A u \in Pid \ {c} : \A fd \in Fd : task'[u].files[fd] \in {0} \cup DOMAIN filp'
    BY <1>0, <1>2, <1>9 DEF PointersInv
  <2>3. \A u \in Pid : task'[u].mm \in DOMAIN mm'
    BY <1>0, <1>2, <1>8 DEF PointersInv
  <2>4. \A m \in DOMAIN mm' : mm'[m].page \in {0} \cup DOMAIN page' /\ mm'[m].by \in Pid
    BY <1>0, <1>2 DEF PointersInv
  <2> QED
    BY <1>2, <2>1, <2>2, <2>3, <2>4 DEF PointersInv
<1>13. MmInv' /\ ProgramInv'
  <2>1. \A u \in Pid' : Own(u)' /\ HasMm(u)' =>
          /\ u \in Pid /\ Own(u) /\ HasMm(u) /\ task'[u].mm = task[u].mm
          /\ want'[u] = want[u] /\ (u \in blanked => u \in blanked')
    BY <1>2, <1>7, <1>8, <1>10, <1>11
  <2>2. UNCHANGED <<mm, page>> /\ \A u \in Pid : task[u].state = "reaped" => task'[u].state = "reaped"
    BY <1>2, <1>8
  <2> QED
    BY <1>0, <2>1, <2>2, MemoryUntouched
<1>14. \A u \in Pid : Held(u) \subseteq DOMAIN filp
  BY <1>0 DEF PointersInv, Held
<1>15. FilesInv'
  <2>1. \A u \in Pid : task'[u].state \in {"zombie", "reaped"} => Held(u)' = {}
    <3>1. task'[c].state = "made"
      BY <1>7 DEF Made
    <3> QED
      BY <1>0, <1>8, <1>9, <3>1 DEF FilesInv
  <2>2. \A u \in Pid : \A fd, gd \in Fd : task'[u].files[fd] = task'[u].files[gd] => fd = gd \/ task'[u].files[fd] = 0
    <3>1. \A u \in Pid \ {c} : \A fd, gd \in Fd : task'[u].files[fd] = task'[u].files[gd] => fd = gd \/ task'[u].files[fd] = 0
      BY <1>0, <1>9 DEF FilesInv
    <3>2. \A fd, gd \in Fd : task'[c].files[fd] = task'[c].files[gd] => fd = gd \/ task'[c].files[fd] = 0
      BY <1>4, <1>6
    <3> QED
      BY <3>1, <3>2
  <2>3. \A u, v \in Pid : u # v /\ HasFiles(u)' /\ HasFiles(v)' =>
          Held(u)' \cap Held(v)' \subseteq IF Own(u)' /\ Own(v)' THEN {} ELSE lent'
    <3>1. \A u, v \in Pid \ {c} : u # v /\ HasFiles(u)' /\ HasFiles(v)' =>
            Held(u)' \cap Held(v)' \subseteq IF Own(u)' /\ Own(v)' THEN {} ELSE lent'
      BY <1>0, <1>7, <1>9, <1>10 DEF FilesInv
    <3>2. \A u \in Pid \ {c} : Held(u)' \cap Held(c)' = {}
      <4>1. places \cap DOMAIN filp = {}
        BY <1>2
      <4> QED
        BY <1>9, <1>11, <1>14, <4>1
    <3> QED
      BY <3>1, <3>2
  <2>4. \A u \in Pid : HasFiles(u)' => \A f \in Held(u)' : filp'[f].used \/ (f \in lent' /\ (Own(u)' => f \in pinched'))
    <3>1. \A u \in Pid \ {c} : HasFiles(u)' => \A f \in Held(u)' : filp'[f].used \/ (f \in lent' /\ (Own(u)' => f \in pinched'))
      <4>1. \A u \in Pid : HasFiles(u) => \A f \in Held(u) : f \in DOMAIN filp /\ (filp[f].used \/ (f \in lent /\ (Own(u) => f \in pinched)))
        BY <1>0, <1>14 DEF FilesInv
      <4>2. \A u \in Pid \ {c} : (HasFiles(u)' <=> HasFiles(u)) /\ (Own(u)' <=> Own(u)) /\ Held(u)' = Held(u)
        BY <1>7, <1>9
      <4>3. \A f \in DOMAIN filp : filp'[f] = filp[f]
        BY <1>2
      <4> QED
        BY <1>10, <4>1, <4>2, <4>3
    <3>2. \A f \in Held(c)' : filp'[f].used
      <4>1. \A f \in places : filp'[f] = [used |-> TRUE, exec |-> FALSE]
        BY <1>2
      <4> QED
        BY <1>11, <4>1
    <3> QED
      BY <3>1, <3>2
  <2> QED
    BY <1>2, <2>1, <2>2, <2>3, <2>4 DEF FilesInv
<1>16. TwiceInv'
  BY <1>0, <1>2, <1>10 DEF TwiceInv
<1>17. OwnersInv'
  <2> SUFFICES ASSUME ~nested' PROVE OwnersInv'
    BY DEF OwnersInv
  <2>1. ~nested /\ Own(c)
    <3>1. Forker(c).at = "fork files" /\ task[c].parent = t
      BY <1>3, <1>7 DEF Forker
    <3> QED
      BY <1>0, <1>2, <1>7, <1>10, <3>1 DEF CopyInv, Own
  <2>2. ASSUME NEW n \in DOMAIN mm', mm'[n].used
        PROVE  \E u \in Pid : u = mm'[n].by /\ Own(u)' /\ HasMm(u)' /\ task'[u].mm = n
    <3>1. n \in DOMAIN mm /\ mm'[n] = mm[n] /\ mm[n].by \in Pid
      BY <1>0, <1>2 DEF PointersInv
    <3>2. Own(mm[n].by) /\ HasMm(mm[n].by) /\ task[mm[n].by].mm = n
      BY <1>0, <2>1, <2>2, <3>1 DEF OwnersInv
    <3> QED
      BY <1>7, <1>8, <1>11, <3>1, <3>2
  <2>3. ~reexec' => \A p \in DOMAIN page' : page'[p].used => \E m \in DOMAIN mm' : mm'[m].used /\ mm'[m].page = p
    BY <1>0, <1>2, <1>10, <2>1 DEF OwnersInv
  <2>4. ASSUME NEW f \in DOMAIN filp', filp'[f].used, ~filp'[f].exec
        PROVE  \E u \in Pid : Own(u)' /\ HasFiles(u)' /\ f \in Held(u)'
    <3>1. CASE f \in places
      BY <1>2, <1>7, <1>11, <2>1, <3>1
    <3>2. CASE f \notin places
      <4>1. f \in DOMAIN filp /\ filp'[f] = filp[f]
        BY <1>2, <3>2
      <4>2. PICK u \in Pid : Own(u) /\ HasFiles(u) /\ f \in Held(u)
        BY <1>0, <2>1, <2>4, <4>1 DEF OwnersInv
      <4> QED
        BY <1>7, <1>9, <1>11, <4>2
    <3> QED
      BY <3>1, <3>2
  <2> QED
    <3>1. Pid' = Pid
      BY <1>2
    <3> QED
      BY <2>2, <2>3, <2>4, <3>1 DEF OwnersInv
<1> QED
  BY <1>2, <1>7, <1>12, <1>13, <1>15, <1>16, <1>17 DEF IInv

\* A task gives its files up, as exit and execve do.
LEMMA Leaving ==
    ASSUME PointersInv, FilesInv, TwiceInv, NEW t \in Pid, HasFiles(t),
           Pid' = Pid, \A fd \in Fd : task'[t].files[fd] = 0,
           \A u \in Pid \ {t} : /\ (HasFiles(u)' <=> HasFiles(u)) /\ (Own(u)' <=> Own(u)) /\ Held(u)' = Held(u)
                                /\ task'[u].files = task[u].files /\ task'[u].state = task[u].state,
           UNCHANGED <<lent, pinched>>, \A g \in DOMAIN filp : filp'[g] = Freed(ToFree(t))[g],
           twice' = twice \cup {<<"file", g>> : g \in {h \in ToFree(t) : ~filp[h].used}}
    PROVE  FilesInv' /\ TwiceInv'
<1>1. Held(t)' = {}
  BY DEF Held
<1>2. \A u \in Pid : Held(u) \subseteq DOMAIN filp
  BY DEF PointersInv, Held
<1>3. \A g \in DOMAIN filp : g \notin ToFree(t) => filp'[g] = filp[g]
  BY DEF Freed
<1>4. ToFree(t) \subseteq Held(t) /\ (ToFree(t) # {} => Own(t))
  BY DEF ToFree, Own
<1>5. \A u \in Pid : task'[u].state \in {"zombie", "reaped"} => Held(u)' = {}
  BY <1>1 DEF FilesInv
<1>6. \A u \in Pid : \A fd, gd \in Fd : task'[u].files[fd] = task'[u].files[gd] => fd = gd \/ task'[u].files[fd] = 0
  <2>1. \A u \in Pid \ {t} : \A fd, gd \in Fd : task'[u].files[fd] = task'[u].files[gd] => fd = gd \/ task'[u].files[fd] = 0
    BY DEF FilesInv
  <2> QED
    BY <2>1
<1>7. \A u, v \in Pid : u # v /\ HasFiles(u)' /\ HasFiles(v)' =>
        Held(u)' \cap Held(v)' \subseteq IF Own(u)' /\ Own(v)' THEN {} ELSE lent'
  <2>1. \A u, v \in Pid \ {t} : u # v /\ HasFiles(u)' /\ HasFiles(v)' =>
          Held(u)' \cap Held(v)' \subseteq IF Own(u)' /\ Own(v)' THEN {} ELSE lent'
    BY DEF FilesInv
  <2> QED
    BY <1>1, <2>1
<1>8. \A u \in Pid : HasFiles(u)' => \A f \in Held(u)' : filp'[f].used \/ (f \in lent' /\ (Own(u)' => f \in pinched'))
  <2> SUFFICES ASSUME NEW u \in Pid \ {t}, HasFiles(u), NEW f \in Held(u)
               PROVE  filp'[f].used \/ (f \in lent /\ (Own(u) => f \in pinched))
    BY <1>1
  <2>1. f \in DOMAIN filp /\ (filp[f].used \/ (f \in lent /\ (Own(u) => f \in pinched)))
    BY <1>2 DEF FilesInv
  <2>2. CASE f \in ToFree(t)
    <3>1. Own(t) /\ f \in Held(t)
      BY <1>4, <2>2
    <3>2. Held(u) \cap Held(t) \subseteq IF Own(u) /\ Own(t) THEN {} ELSE lent
      BY DEF FilesInv
    <3> QED
      BY <3>1, <3>2
  <2>3. CASE f \notin ToFree(t)
    BY <1>3, <2>1, <2>3
  <2> QED
    BY <2>2, <2>3
<1>9. TwiceInv'
  <2>1. \A f \in ToFree(t) : ~filp[f].used => f \in lent
    BY <1>4 DEF FilesInv
  <2> QED
    BY <2>1 DEF TwiceInv
<1> QED
  BY <1>5, <1>6, <1>7, <1>8, <1>9 DEF FilesInv

LEMMA FilesLeft ==
    ASSUME Types, PointersInv, OwnersInv, ~nested, NEW t \in Pid,
           \A u \in Pid \ {t} : (HasFiles(u)' <=> HasFiles(u)) /\ (Own(u)' <=> Own(u)) /\ Held(u)' = Held(u),
           \A g \in DOMAIN filp : filp'[g] = Freed(ToFree(t))[g],
           \A g \in DOMAIN filp' : g \in DOMAIN filp \/ filp'[g].exec
    PROVE  \A f \in DOMAIN filp' : filp'[f].used /\ ~filp'[f].exec => \E u \in Pid : Own(u)' /\ HasFiles(u)' /\ f \in Held(u)'
<1> SUFFICES ASSUME NEW f \in DOMAIN filp', filp'[f].used, ~filp'[f].exec
             PROVE  \E u \in Pid : Own(u)' /\ HasFiles(u)' /\ f \in Held(u)'
  OBVIOUS
<1>1. f \in DOMAIN filp /\ filp'[f] = Freed(ToFree(t))[f]
  OBVIOUS
<1>2. CASE f \in ToFree(t)
  BY <1>1, <1>2, FreedFacts
<1>3. CASE f \notin ToFree(t)
  <2>1. filp'[f] = filp[f]
    BY <1>1, <1>3 DEF Freed
  <2>2. PICK u \in Pid : Own(u) /\ HasFiles(u) /\ f \in Held(u)
    BY <1>1, <2>1 DEF OwnersInv
  <2>3. u # t
    BY <1>3, <2>2 DEF ToFree, Own
  <2> QED
    BY <2>2, <2>3
<1> QED
  BY <1>2, <1>3

LEMMA ExecveKeeps == ASSUME IInv, NEW t \in Pid, sys_execve(t) PROVE IInv'
<1>0. Types /\ PointersInv /\ ForkInv /\ CopyInv /\ MmInv /\ ProgramInv /\ FilesInv /\ TwiceInv /\ OwnersInv
  BY DEF IInv
<1>1. PICK c \in Programs \cup {"blank"} :
        /\ InUser(t) /\ do_execve(t, c)
        /\ want' = IF c = "blank" THEN want ELSE [want EXCEPT ![t] = c]
        /\ blanked' = IF c = "blank" THEN blanked \cup {t} ELSE blanked \ {t}
        /\ reexec' = (reexec \/ ~task[t].vfork) /\ nested' = (nested \/ (task[t].vfork /\ c = "blank"))
        /\ UNCHANGED <<lent, pinched>>
  BY DEF sys_execve
<1>2. PICK m, p : m = NewMm(t) /\ p = Len(page) + 1
  OBVIOUS
<1>3. /\ Pid' = Pid /\ \A u \in Pid \ {t} : task'[u] = task[u]
      /\ task'[t] = IF c = "blank" THEN [task[t] EXCEPT !.mm = m]
                    ELSE [task[t] EXCEPT !.mm = m, !.vfork = FALSE, !.files = NoFiles]
  BY <1>0, <1>1, <1>2, ExecDoes
<1>4. /\ DOMAIN page' = DOMAIN page \cup {p} /\ p \notin DOMAIN page /\ p # 0
      /\ \A q \in DOMAIN page : page'[q] = page[q]
      /\ page'[p].used /\ page'[p].content = c
  <2>1. /\ page' \in Seq(Pages) /\ Len(page') = p /\ (\A q \in DOMAIN page : page'[q] = page[q])
        /\ page'[p].used /\ page'[p].content = c
    BY <1>0, <1>1, <1>2, ExecDoes
  <2>2. DOMAIN page' = 1 .. p /\ DOMAIN page = 1 .. Len(page) /\ Len(page) \in Nat
    BY <1>0, <2>1, TaskFacts, LenProperties
  <2>3. 1 .. Len(page) + 1 = 1 .. Len(page) \cup {Len(page) + 1} /\ Len(page) + 1 \notin 1 .. Len(page) /\ Len(page) + 1 # 0
    BY <2>2
  <2> QED
    BY <1>2, <2>1, <2>2, <2>3
<1>5. /\ DOMAIN mm' = DOMAIN mm \cup {m}
      /\ \A n \in DOMAIN mm \ {m} : mm'[n] = mm[n]
      /\ mm'[m].page = p
      /\ IF task[t].vfork THEN m \notin DOMAIN mm /\ mm'[m].used /\ mm'[m].by = t /\ (mm'[m].sized <=> c # "blank")
         ELSE /\ m = task[t].mm /\ mm'[m].used = mm[m].used /\ mm'[m].by = mm[m].by
              /\ mm'[m].sized <=> mm[m].sized \/ c # "blank"
  <2>1. Types /\ PointersInv /\ do_execve(t, c)
    BY <1>0, <1>1
  <2> QED
    BY <1>2, <2>1, ExecDoes, ZenonT(60)
<1>6. nested' \in BOOLEAN /\ reexec' \in BOOLEAN
  <2>1. nested \in BOOLEAN /\ reexec \in BOOLEAN /\ task[t].vfork \in BOOLEAN
    BY <1>0, TaskFacts DEF Types, TaskStructs
  <2> QED
    BY <1>1, <2>1
<1>7. /\ Types'
      /\ \A u \in Pid : want'[u] = IF u = t /\ c # "blank" THEN c ELSE want[u]
      /\ c = "blank" => UNCHANGED <<filp, twice>>
      /\ c # "blank" => /\ DOMAIN filp \subseteq DOMAIN filp'
                        /\ \A g \in DOMAIN filp' : g \in DOMAIN filp \/ filp'[g].exec
                        /\ \A g \in DOMAIN filp : filp'[g] = Freed(ToFree(t))[g]
                        /\ twice' = twice \cup {<<"file", g>> : g \in {h \in ToFree(t) : ~filp[h].used}}
  <2>1. /\ Types'
        /\ \A u \in Pid : want'[u] = IF u = t /\ c # "blank" THEN c ELSE want[u]
        /\ IF c = "blank" THEN UNCHANGED <<filp, twice>>
           ELSE LET f == Len(filp) + 1 IN
                /\ DOMAIN filp' = DOMAIN filp \cup {f} /\ f \notin DOMAIN filp /\ filp'[f] = [used |-> TRUE, exec |-> TRUE]
                /\ \A g \in DOMAIN filp : filp'[g] = Freed(ToFree(t))[g]
                /\ twice' = twice \cup {<<"file", g>> : g \in {h \in ToFree(t) : ~filp[h].used}}
    BY <1>0, <1>1, <1>6, ExecveDoes
  <2> QED
    BY <2>1
<1>8. Runs(t) /\ task[t].at = "user" /\ ~Made(t) /\ task[t] \in TaskStructs /\ HasMm(t) /\ HasFiles(t)
  BY <1>0, <1>1, TaskFacts DEF InUser, Runs, Made, HasMm, HasFiles
<1>9. task'[t].state = "running" /\ task'[t].at = "user" /\ task'[t].mm = m
      /\ IF c = "blank" THEN task'[t].vfork = task[t].vfork /\ task'[t].files = task[t].files
         ELSE task'[t].vfork = FALSE /\ task'[t].files = NoFiles
  <2>1. CASE c = "blank"
    BY <1>3, <1>8, <2>1 DEF TaskStructs, Runs
  <2>2. CASE c # "blank"
    BY <1>3, <1>8, <2>2 DEF TaskStructs, Runs
  <2> QED
    BY <2>1, <2>2
<1>10. /\ ForkInv' /\ CopyInv'
       /\ \A u \in Pid \ {t} : (HasMm(u)' <=> HasMm(u)) /\ (HasFiles(u)' <=> HasFiles(u))
                               /\ (Own(u)' <=> Own(u)) /\ Held(u)' = Held(u)
  <2>1. \A u \in Pid \ {t} : want'[u] = want[u] /\ (u \in blanked' <=> u \in blanked)
    BY <1>1, <1>7
  <2>2. ~nested' => ~nested
    BY <1>1
  <2>3. task'[t].state # "made" /\ task'[t].at = "user"
    BY <1>9
  <2> QED
    BY <1>0, <1>3, <1>8, <2>1, <2>2, <2>3, Aside
<1>11. HasMm(t)' /\ HasFiles(t)'
  BY <1>9 DEF HasMm, HasFiles, Runs
<1>12. (Own(t) => m = task[t].mm /\ m \in DOMAIN mm) /\ (~Own(t) => m \notin DOMAIN mm) /\ mm'[m].by = t /\ mm'[m].used
  <2>1. CASE Own(t)
    BY <1>0, <1>5, <1>8, <2>1 DEF Own, MmInv, PointersInv
  <2>2. CASE ~Own(t)
    BY <1>5, <2>2 DEF Own
  <2> QED
    BY <2>1, <2>2
<1>13. Own(t)' => mm'[m].sized /\ (~Own(t) => c # "blank")
  <2>1. CASE Own(t)
    BY <1>0, <1>5, <1>8, <2>1 DEF Own, MmInv
  <2>2. CASE ~Own(t)
    BY <1>5, <1>9, <2>2 DEF Own
  <2> QED
    BY <2>1, <2>2
<1>14. \A u \in Pid \ {t} : Own(u) /\ HasMm(u) => task[u].mm \in DOMAIN mm \ {m}
  <2>1. \A u \in Pid : task[u].mm \in DOMAIN mm
    BY <1>0 DEF PointersInv
  <2>2. ASSUME NEW u \in Pid \ {t}, Own(u), HasMm(u), task[u].mm = m PROVE FALSE
    <3>1. Own(t) /\ m = task[t].mm
      BY <1>12, <2>1, <2>2
    <3>2. mm[m].by = t /\ mm[m].by = u
      BY <1>0, <1>8, <2>2, <3>1 DEF MmInv
    <3> QED
      BY <3>2
  <2> QED
    BY <2>1, <2>2
<1>15. \A n \in DOMAIN mm : mm[n].page \in {0} \cup DOMAIN page /\ mm[n].by \in Pid
  BY <1>0 DEF PointersInv
<1>16. \A u \in Pid \ {t} : task'[u].state = task[u].state /\ task'[u].mm = task[u].mm /\ task'[u].files = task[u].files
  BY <1>3
<1>17. PointersInv'
  <2>1. \A u \in Pid : task'[u].mm \in DOMAIN mm'
    <3>1. \A u \in Pid : task[u].mm \in DOMAIN mm
      BY <1>0 DEF PointersInv
    <3> QED
      BY <1>5, <1>9, <1>16, <3>1
  <2>2. \A u \in Pid : \A fd \in Fd : task'[u].files[fd] \in {0} \cup DOMAIN filp'
    <3>1. DOMAIN filp \subseteq DOMAIN filp'
      BY <1>7
    <3>2. \A u \in Pid : \A fd \in Fd : task'[u].files[fd] \in {0, task[u].files[fd]}
      BY <1>9, <1>16 DEF NoFiles
    <3>3. \A u \in Pid : \A fd \in Fd : task[u].files[fd] \in {0} \cup DOMAIN filp
      BY <1>0 DEF PointersInv
    <3> QED
      BY <3>1, <3>2, <3>3
  <2>3. \A n \in DOMAIN mm' : mm'[n].page \in {0} \cup DOMAIN page' /\ mm'[n].by \in Pid
    BY <1>4, <1>5, <1>12, <1>15
  <2> QED
    BY <1>3, <2>1, <2>2, <2>3 DEF PointersInv
<1>18. MmInv'
  <2>1. ASSUME NEW u \in Pid, Own(u)', HasMm(u)'
        PROVE  mm'[task'[u].mm].used /\ mm'[task'[u].mm].by = u /\ mm'[task'[u].mm].sized
    <3>1. CASE u = t
      BY <1>9, <1>12, <1>13, <2>1, <3>1
    <3>2. CASE u # t
      <4>1. Own(u) /\ HasMm(u)
        BY <1>10, <2>1, <3>2
      <4>2. mm[task[u].mm].used /\ mm[task[u].mm].by = u /\ mm[task[u].mm].sized
        BY <1>0, <4>1 DEF MmInv
      <4>3. mm'[task[u].mm] = mm[task[u].mm]
        BY <1>5, <1>14, <3>2, <4>1
      <4> QED
        BY <1>16, <3>2, <4>2, <4>3
    <3> QED
      BY <3>1, <3>2
  <2>2. ASSUME NEW n \in DOMAIN mm'
        PROVE  /\ mm'[n].sized => mm'[n].page # 0
               /\ mm'[n].used /\ mm'[n].page # 0 => page'[mm'[n].page].used
               /\ ~mm'[n].used => task'[mm'[n].by].state = "reaped"
    <3>1. CASE n = m
      BY <1>4, <1>5, <1>12, <3>1
    <3>2. CASE n # m
      <4>1. n \in DOMAIN mm /\ mm'[n] = mm[n]
        BY <1>5, <3>2
      <4>2. /\ mm[n].sized => mm[n].page # 0
            /\ mm[n].used /\ mm[n].page # 0 => page[mm[n].page].used
            /\ ~mm[n].used => task[mm[n].by].state = "reaped"
        BY <1>0, <4>1 DEF MmInv
      <4>3. ~mm[n].used => task'[mm[n].by].state = "reaped"
        BY <1>8, <1>15, <1>16, <4>1, <4>2 DEF Runs
      <4> QED
        BY <1>4, <1>15, <4>1, <4>2, <4>3
    <3> QED
      BY <3>1, <3>2
  <2>3. ASSUME NEW n \in DOMAIN mm', NEW k \in DOMAIN mm', n # k, mm'[n].page # 0
        PROVE  mm'[n].page # mm'[k].page
    <3>1. CASE n # m /\ k # m
      <4>1. n \in DOMAIN mm /\ mm'[n] = mm[n] /\ k \in DOMAIN mm /\ mm'[k] = mm[k]
        BY <1>5, <3>1
      <4> QED
        BY <1>0, <2>3, <4>1 DEF MmInv
    <3>2. CASE n = m
      <4>1. k \in DOMAIN mm /\ mm'[k] = mm[k] /\ mm'[n].page = p
        BY <1>5, <2>3, <3>2
      <4> QED
        BY <1>4, <1>15, <4>1
    <3>3. CASE k = m
      <4>1. n \in DOMAIN mm /\ mm'[n] = mm[n] /\ mm'[k].page = p
        BY <1>5, <2>3, <3>3
      <4> QED
        BY <1>4, <1>15, <4>1
    <3> QED
      BY <3>1, <3>2, <3>3
  <2> QED
    BY <1>3, <2>1, <2>2, <2>3 DEF MmInv
<1>19. ProgramInv'
  <2> SUFFICES ASSUME NEW u \in Pid, Own(u)', HasMm(u)', u \notin blanked'
               PROVE  page'[mm'[task'[u].mm].page].content = want'[u]
    BY <1>3 DEF ProgramInv, Page
  <2>1. CASE u = t
    <3>1. c # "blank"
      BY <1>1, <2>1
    <3> QED
      BY <1>4, <1>5, <1>7, <1>9, <2>1, <3>1
  <2>2. CASE u # t
    <3>1. Own(u) /\ HasMm(u) /\ u \notin blanked
      BY <1>1, <1>10, <2>2
    <3>2. task[u].mm \in DOMAIN mm /\ mm'[task[u].mm] = mm[task[u].mm]
      BY <1>5, <1>14, <2>2, <3>1
    <3>3. page[mm[task[u].mm].page].content = want[u]
      BY <1>0, <3>1 DEF ProgramInv, Page
    <3>4. mm[task[u].mm].page \in DOMAIN page
      BY <1>0, <1>15, <3>1, <3>2 DEF MmInv
    <3>5. want'[u] = want[u]
      BY <1>7, <2>2
    <3> QED
      BY <1>4, <1>16, <2>2, <3>2, <3>3, <3>4, <3>5
  <2> QED
    BY <2>1, <2>2
<1>20. FilesInv' /\ TwiceInv'
  <2>1. CASE c = "blank"
    <3>1. \A u \in Pid : task'[u].files = task[u].files /\ (HasFiles(u)' <=> HasFiles(u)) /\ (Own(u)' <=> Own(u))
      BY <1>8, <1>9, <1>10, <1>11, <1>16, <2>1 DEF Own
    <3>2. \A u \in Pid : task'[u].state = task[u].state
      BY <1>8, <1>9, <1>16 DEF Runs
    <3>3. UNCHANGED <<filp, twice, lent, pinched>>
      BY <1>1, <1>7, <2>1
    <3> QED
      BY <1>0, <1>3, <3>1, <3>2, <3>3, FilesUntouched
  <2>2. CASE c # "blank"
    <3>1. /\ \A g \in DOMAIN filp : filp'[g] = Freed(ToFree(t))[g]
          /\ twice' = twice \cup {<<"file", g>> : g \in {h \in ToFree(t) : ~filp[h].used}}
      BY <1>7, <2>2
    <3>2. \A fd \in Fd : task'[t].files[fd] = 0
      BY <1>9, <2>2 DEF NoFiles
    <3>3. UNCHANGED <<lent, pinched>>
      BY <1>1
    <3>4. \A u \in Pid \ {t} : /\ (HasFiles(u)' <=> HasFiles(u)) /\ (Own(u)' <=> Own(u)) /\ Held(u)' = Held(u)
                               /\ task'[u].files = task[u].files /\ task'[u].state = task[u].state
      BY <1>10, <1>16
    <3> QED
      BY <1>0, <1>3, <1>8, <3>1, <3>2, <3>3, <3>4, Leaving
  <2> QED
    BY <2>1, <2>2
<1>21. OwnersInv'
  <2> SUFFICES ASSUME ~nested' PROVE OwnersInv'
    BY DEF OwnersInv
  <2>1. ~nested /\ Own(t)'
    BY <1>1, <1>9 DEF Own
  <2>2. ASSUME NEW n \in DOMAIN mm', mm'[n].used
        PROVE  \E u \in Pid : u = mm'[n].by /\ Own(u)' /\ HasMm(u)' /\ task'[u].mm = n
    <3>1. CASE n = m
      BY <1>9, <1>11, <1>12, <2>1, <3>1
    <3>2. CASE n # m
      <4>1. n \in DOMAIN mm /\ mm'[n] = mm[n] /\ mm[n].by \in Pid
        BY <1>5, <1>15, <3>2
      <4>2. Own(mm[n].by) /\ HasMm(mm[n].by) /\ task[mm[n].by].mm = n
        BY <1>0, <2>1, <2>2, <4>1 DEF OwnersInv
      <4>3. mm[n].by # t
        BY <1>12, <3>2, <4>2
      <4> QED
        BY <1>10, <1>16, <4>1, <4>2, <4>3
    <3> QED
      BY <3>1, <3>2
  <2>3. ASSUME ~reexec', NEW q \in DOMAIN page', page'[q].used
        PROVE  \E n \in DOMAIN mm' : mm'[n].used /\ mm'[n].page = q
    <3>1. ~reexec /\ ~Own(t)
      BY <1>1, <2>3 DEF Own
    <3>2. CASE q = p
      BY <1>5, <1>12, <3>2
    <3>3. CASE q # p
      <4>1. q \in DOMAIN page /\ page'[q] = page[q]
        BY <1>4, <3>3
      <4>2. PICK n \in DOMAIN mm : mm[n].used /\ mm[n].page = q
        BY <1>0, <2>1, <2>3, <3>1, <4>1 DEF OwnersInv
      <4>3. n \in DOMAIN mm' /\ mm'[n] = mm[n]
        BY <1>5, <1>12, <3>1
      <4> QED
        BY <4>2, <4>3
    <3> QED
      BY <3>2, <3>3
  <2>4. \A f \in DOMAIN filp' : filp'[f].used /\ ~filp'[f].exec => \E u \in Pid : Own(u)' /\ HasFiles(u)' /\ f \in Held(u)'
    <3>1. CASE c = "blank"
      <4>1. \A u \in Pid : Own(u) /\ HasFiles(u) => Own(u)' /\ HasFiles(u)' /\ Held(u)' = Held(u)
        BY <1>9, <1>10, <1>11, <2>1, <3>1 DEF Held
      <4>2. UNCHANGED filp
        BY <1>7, <3>1
      <4> QED
        BY <1>0, <2>1, <4>1, <4>2 DEF OwnersInv
    <3>2. CASE c # "blank"
      <4>1. /\ \A g \in DOMAIN filp : filp'[g] = Freed(ToFree(t))[g]
            /\ \A g \in DOMAIN filp' : g \in DOMAIN filp \/ filp'[g].exec
        BY <1>7, <3>2
      <4> QED
        BY <1>0, <1>10, <2>1, <4>1, FilesLeft
    <3> QED
      BY <3>1, <3>2
  <2> QED
    BY <1>3, <2>2, <2>3, <2>4 DEF OwnersInv
<1> QED
  BY <1>7, <1>10, <1>17, <1>18, <1>19, <1>20, <1>21 DEF IInv

\* Memory and owners of a step that only changes the files of a task.
LEMMA MemoryAside ==
    ASSUME PointersInv, MmInv, ProgramInv, NEW t \in Pid, Pid' = Pid, UNCHANGED <<mm, page, want, blanked>>,
           \A u \in Pid : /\ (HasMm(u)' <=> HasMm(u)) /\ (Own(u)' <=> Own(u))
                          /\ task'[u].mm = task[u].mm /\ (task'[u].state = "reaped" <=> task[u].state = "reaped")
    PROVE  /\ MmInv' /\ ProgramInv'
           /\ OwnersInv /\ ~nested /\ (~reexec' => ~reexec)
              /\ (\A f \in DOMAIN filp' : filp'[f].used /\ ~filp'[f].exec => \E u \in Pid : Own(u)' /\ HasFiles(u)' /\ f \in Held(u)')
              => OwnersInv'
<1>1. MmInv' /\ ProgramInv'
  BY MemoryUntouched
<1>2. ASSUME OwnersInv, ~nested, ~reexec' => ~reexec,
             \A f \in DOMAIN filp' : filp'[f].used /\ ~filp'[f].exec => \E u \in Pid : Own(u)' /\ HasFiles(u)' /\ f \in Held(u)'
      PROVE  OwnersInv'
  <2>1. \A n \in DOMAIN mm : mm[n].used => mm[n].by \in Pid /\ Own(mm[n].by) /\ HasMm(mm[n].by) /\ task[mm[n].by].mm = n
    BY <1>2 DEF OwnersInv, PointersInv
  <2>2. \A n \in DOMAIN mm' : mm'[n].used => Own(mm[n].by)' /\ HasMm(mm[n].by)' /\ task'[mm'[n].by].mm = n
    BY <2>1
  <2>3. ~reexec' => \A p \in DOMAIN page' : page'[p].used => \E m \in DOMAIN mm' : mm'[m].used /\ mm'[m].page = p
    BY <1>2 DEF OwnersInv
  <2> QED
    BY <1>2, <2>2, <2>3 DEF OwnersInv
<1> QED
  BY <1>1, <1>2

LEMMA OpenKeeps == ASSUME IInv, NEW t \in Pid, sys_open(t) PROVE IInv'
<1>0. Types /\ PointersInv /\ ForkInv /\ CopyInv /\ MmInv /\ ProgramInv /\ FilesInv /\ TwiceInv /\ OwnersInv
  BY DEF IInv
<1>1. PICK f : f = Len(filp) + 1
  OBVIOUS
<1>2. /\ Types' /\ Pid' = Pid /\ InUser(t) /\ UNCHANGED <<mm, page, twice, lent, pinched, want, blanked, reexec>>
      /\ nested' = (nested \/ task[t].vfork)
      /\ \A u \in Pid \ {t} : task'[u] = task[u]
      /\ \E fd \in Fd : task[t].files[fd] = 0 /\ task'[t] = [task[t] EXCEPT !.files[fd] = f]
      /\ f \notin DOMAIN filp /\ f # 0 /\ DOMAIN filp' = DOMAIN filp \cup {f} /\ filp'[f] = [used |-> TRUE, exec |-> FALSE]
      /\ \A g \in DOMAIN filp : filp'[g] = filp[g]
  BY <1>0, <1>1, OpenDoes
<1>3. PICK fd \in Fd : task[t].files[fd] = 0 /\ task'[t] = [task[t] EXCEPT !.files[fd] = f]
  BY <1>2
<1>4. Runs(t) /\ task[t].at = "user" /\ ~Made(t) /\ task[t] \in TaskStructs
  BY <1>0, <1>2, TaskFacts DEF InUser, Runs, Made
<1>5. /\ task'[t].state = task[t].state /\ task'[t].at = task[t].at /\ task'[t].vfork = task[t].vfork /\ task'[t].mm = task[t].mm
      /\ task'[t].files[fd] = f /\ \A gd \in Fd \ {fd} : task'[t].files[gd] = task[t].files[gd]
  <2> DEFINE fs == [task[t].files EXCEPT ![fd] = f]
  <2>1. task'[t] = [task[t] EXCEPT !.files = fs]
    BY <1>3
  <2>2. task[t].files \in [Fd -> Nat]
    BY <1>4 DEF TaskStructs
  <2>3. fs[fd] = f /\ \A gd \in Fd \ {fd} : fs[gd] = task[t].files[gd]
    BY <2>2
  <2> HIDE DEF fs
  <2>4. /\ task'[t].state = task[t].state /\ task'[t].at = task[t].at /\ task'[t].vfork = task[t].vfork
        /\ task'[t].mm = task[t].mm /\ task'[t].files = fs
    BY <1>4, <2>1 DEF TaskStructs
  <2> QED
    BY <2>3, <2>4
<1>6. Held(t)' = Held(t) \cup {f}
  <2>1. \A g \in Held(t)' : g = f \/ g \in Held(t)
    BY <1>5 DEF Held
  <2>2. f \in Held(t)'
    BY <1>2, <1>5 DEF Held
  <2>3. \A g \in Held(t) : g \in Held(t)'
    BY <1>3, <1>5 DEF Held
  <2> QED
    BY <2>1, <2>2, <2>3
<1>7. /\ ForkInv' /\ CopyInv'
      /\ \A u \in Pid \ {t} : (HasMm(u)' <=> HasMm(u)) /\ (HasFiles(u)' <=> HasFiles(u))
                              /\ (Own(u)' <=> Own(u)) /\ Held(u)' = Held(u)
  <2>1. \A u \in Pid \ {t} : want'[u] = want[u] /\ (u \in blanked' <=> u \in blanked)
    BY <1>2
  <2>2. ~nested' => ~nested
    BY <1>2
  <2>3. task'[t].state # "made" /\ task'[t].at = "user"
    BY <1>4, <1>5 DEF Runs
  <2>4. Pid' = Pid /\ \A u \in Pid \ {t} : task'[u] = task[u]
    BY <1>2
  <2> QED
    BY <1>0, <1>4, <2>1, <2>2, <2>3, <2>4, Aside
<1>8. /\ HasMm(t)' /\ HasMm(t) /\ HasFiles(t)' /\ HasFiles(t) /\ (Own(t)' <=> Own(t))
      /\ \A u \in Pid : task'[u].state = task[u].state /\ task'[u].mm = task[u].mm
  <2>1. HasMm(t)' /\ HasMm(t) /\ HasFiles(t)' /\ HasFiles(t) /\ (Own(t)' <=> Own(t))
    BY <1>4, <1>5 DEF HasMm, HasFiles, Runs, Own
  <2>2. \A u \in Pid : task'[u].state = task[u].state /\ task'[u].mm = task[u].mm
    BY <1>2, <1>5
  <2> QED
    BY <2>1, <2>2
<1>9. \A u \in Pid : \A gd \in Fd : task[u].files[gd] \in {0} \cup DOMAIN filp /\ task[u].files[gd] # f
  BY <1>0, <1>2 DEF PointersInv
<1>10. \A u \in Pid : Held(u) \subseteq DOMAIN filp
  BY <1>9 DEF Held
<1>11. PointersInv'
  <2>1. \A u \in Pid : \A gd \in Fd : task'[u].files[gd] \in {f, task[u].files[gd]}
    BY <1>2, <1>5
  <2>2. \A u \in Pid : task[u].mm \in DOMAIN mm
    BY <1>0 DEF PointersInv
  <2>3. \A n \in DOMAIN mm : mm[n].page \in {0} \cup DOMAIN page /\ mm[n].by \in Pid
    BY <1>0 DEF PointersInv
  <2>4. DOMAIN filp' = DOMAIN filp \cup {f} /\ UNCHANGED <<mm, page>> /\ Pid' = Pid
    BY <1>2
  <2>5. \A u \in Pid : \A gd \in Fd : task'[u].files[gd] \in {0} \cup DOMAIN filp'
    BY <1>9, <2>1, <2>4
  <2> QED
    BY <1>8, <2>2, <2>3, <2>4, <2>5 DEF PointersInv
<1>12. FilesInv'
  <2>1. \A u \in Pid : task'[u].state \in {"zombie", "reaped"} => Held(u)' = {}
    BY <1>0, <1>4, <1>7, <1>8 DEF FilesInv, Runs
  <2>2. \A u \in Pid : \A gd, hd \in Fd : task'[u].files[gd] = task'[u].files[hd] => gd = hd \/ task'[u].files[gd] = 0
    <3>1. \A u \in Pid : \A gd, hd \in Fd : task[u].files[gd] = task[u].files[hd] => gd = hd \/ task[u].files[gd] = 0
      BY <1>0 DEF FilesInv
    <3>2. \A gd, hd \in Fd : task'[t].files[gd] = task'[t].files[hd] => gd = hd \/ task'[t].files[gd] = 0
      BY <1>5, <1>9, <3>1
    <3>3. \A u \in Pid \ {t} : task'[u] = task[u]
      BY <1>2
    <3> QED
      BY <3>1, <3>2, <3>3
  <2>3. \A u, v \in Pid : u # v /\ HasFiles(u)' /\ HasFiles(v)' =>
          Held(u)' \cap Held(v)' \subseteq IF Own(u)' /\ Own(v)' THEN {} ELSE lent'
    <3>1. \A u, v \in Pid : u # v => Held(u)' \cap Held(v)' = Held(u) \cap Held(v)
      <4>1. f \notin DOMAIN filp
        BY <1>2
      <4> QED
        BY <1>6, <1>7, <1>10, <4>1
    <3>2. \A u \in Pid : (HasFiles(u)' <=> HasFiles(u)) /\ (Own(u)' <=> Own(u))
      BY <1>7, <1>8
    <3>3. lent' = lent
      BY <1>2
    <3> QED
      BY <1>0, <3>1, <3>2, <3>3 DEF FilesInv
  <2>4. \A u \in Pid : HasFiles(u)' => \A g \in Held(u)' : filp'[g].used \/ (g \in lent' /\ (Own(u)' => g \in pinched'))
    <3>1. filp'[f].used /\ (\A g \in DOMAIN filp : filp'[g] = filp[g]) /\ UNCHANGED <<lent, pinched>>
      BY <1>2
    <3>2. \A u \in Pid : Held(u)' \subseteq Held(u) \cup {f} /\ (HasFiles(u)' <=> HasFiles(u)) /\ (Own(u)' <=> Own(u))
      BY <1>6, <1>7, <1>8
    <3>3. \A u \in Pid : HasFiles(u) => \A g \in Held(u) : g \in DOMAIN filp /\ (filp[g].used \/ (g \in lent /\ (Own(u) => g \in pinched)))
      BY <1>0, <1>10 DEF FilesInv
    <3> QED
      BY <3>1, <3>2, <3>3
  <2> QED
    BY <1>2, <2>1, <2>2, <2>3, <2>4 DEF FilesInv
<1>13. TwiceInv'
  BY <1>0, <1>2 DEF TwiceInv
<1>14. MmInv' /\ ProgramInv' /\ OwnersInv'
  <2>1. \A u \in Pid : /\ (HasMm(u)' <=> HasMm(u)) /\ (Own(u)' <=> Own(u))
                       /\ task'[u].mm = task[u].mm /\ (task'[u].state = "reaped" <=> task[u].state = "reaped")
    BY <1>7, <1>8
  <2>2. Pid' = Pid /\ UNCHANGED <<mm, page, want, blanked>> /\ (~reexec' => ~reexec)
    BY <1>2
  <2>3. CASE nested'
    BY <1>0, <2>1, <2>2, <2>3, MemoryAside DEF OwnersInv
  <2>4. CASE ~nested'
    <3>1. ~nested /\ Own(t)
      BY <1>2, <2>4 DEF Own
    <3>2. ASSUME NEW g \in DOMAIN filp', filp'[g].used, ~filp'[g].exec
          PROVE  \E u \in Pid : Own(u)' /\ HasFiles(u)' /\ g \in Held(u)'
      <4>1. CASE g = f
        BY <1>6, <1>8, <3>1, <4>1
      <4>2. CASE g # f
        <5>1. g \in DOMAIN filp /\ filp'[g] = filp[g]
          BY <1>2, <4>2
        <5>2. PICK u \in Pid : Own(u) /\ HasFiles(u) /\ g \in Held(u)
          BY <1>0, <3>1, <3>2, <5>1 DEF OwnersInv
        <5> QED
          BY <1>6, <1>7, <1>8, <5>2
      <4> QED
        BY <4>1, <4>2
    <3> QED
      BY <1>0, <2>1, <2>2, <3>1, <3>2, MemoryAside
  <2> QED
    BY <2>3, <2>4
<1> QED
  BY <1>2, <1>7, <1>11, <1>12, <1>13, <1>14 DEF IInv

LEMMA CloseKeeps == ASSUME IInv, NEW t \in Pid, sys_close(t) PROVE IInv'
<1>0. Types /\ PointersInv /\ ForkInv /\ CopyInv /\ MmInv /\ ProgramInv /\ FilesInv /\ TwiceInv /\ OwnersInv
  BY DEF IInv
<1>2. /\ Types' /\ Pid' = Pid /\ InUser(t) /\ UNCHANGED <<mm, page, lent, want, blanked, reexec, nested>>
      /\ \A u \in Pid \ {t} : task'[u] = task[u]
  BY <1>0, CloseDoes
<1>1. PICK fd \in Fd : LET f == task[t].files[fd] IN
        /\ f # 0 /\ task'[t] = [task[t] EXCEPT !.files[fd] = 0]
        /\ filp' = Freed({f})
        /\ twice' = twice \cup {<<"file", g>> : g \in {h \in {f} : ~filp[h].used}}
        /\ pinched' = IF task[t].vfork THEN pinched \cup {f} ELSE pinched
  BY <1>0, CloseDoes
<1>3. PICK f : f = task[t].files[fd]
  OBVIOUS
<1>4. Runs(t) /\ task[t].at = "user" /\ ~Made(t) /\ task[t] \in TaskStructs
  BY <1>0, <1>2, TaskFacts DEF InUser, Runs, Made
<1>5. /\ task'[t].state = task[t].state /\ task'[t].at = task[t].at /\ task'[t].vfork = task[t].vfork /\ task'[t].mm = task[t].mm
      /\ task'[t].files[fd] = 0 /\ \A gd \in Fd \ {fd} : task'[t].files[gd] = task[t].files[gd]
  <2> DEFINE fs == [task[t].files EXCEPT ![fd] = 0]
  <2>1. task'[t] = [task[t] EXCEPT !.files = fs]
    BY <1>1
  <2>2. task[t].files \in [Fd -> Nat]
    BY <1>4 DEF TaskStructs
  <2>3. fs[fd] = 0 /\ \A gd \in Fd \ {fd} : fs[gd] = task[t].files[gd]
    BY <2>2
  <2> HIDE DEF fs
  <2>4. /\ task'[t].state = task[t].state /\ task'[t].at = task[t].at /\ task'[t].vfork = task[t].vfork
        /\ task'[t].mm = task[t].mm /\ task'[t].files = fs
    BY <1>4, <2>1 DEF TaskStructs
  <2> QED
    BY <2>3, <2>4
<1>6. f \in Held(t) /\ Held(t)' = Held(t) \ {f}
  <2>1. \A gd \in Fd : task[t].files[gd] = f => gd = fd
    BY <1>0, <1>1, <1>3 DEF FilesInv
  <2>2. \A g \in Held(t)' : g # f /\ g \in Held(t)
    BY <1>3, <1>5, <2>1 DEF Held
  <2>3. \A g \in Held(t) \ {f} : g \in Held(t)'
    BY <1>3, <1>5 DEF Held
  <2>4. f \in Held(t)
    BY <1>1, <1>3 DEF Held
  <2> QED
    BY <2>2, <2>3, <2>4
<1>7. /\ ForkInv' /\ CopyInv'
      /\ \A u \in Pid \ {t} : (HasMm(u)' <=> HasMm(u)) /\ (HasFiles(u)' <=> HasFiles(u))
                              /\ (Own(u)' <=> Own(u)) /\ Held(u)' = Held(u)
  <2>1. \A u \in Pid \ {t} : want'[u] = want[u] /\ (u \in blanked' <=> u \in blanked)
    BY <1>2
  <2>2. ~nested' => ~nested
    BY <1>2
  <2>3. task'[t].state # "made" /\ task'[t].at = "user"
    BY <1>4, <1>5 DEF Runs
  <2>4. Pid' = Pid /\ \A u \in Pid \ {t} : task'[u] = task[u]
    BY <1>2
  <2> QED
    BY <1>0, <1>4, <2>1, <2>2, <2>3, <2>4, Aside
<1>8. /\ HasMm(t)' /\ HasMm(t) /\ HasFiles(t)' /\ HasFiles(t) /\ (Own(t)' <=> Own(t))
      /\ \A u \in Pid : task'[u].state = task[u].state /\ task'[u].mm = task[u].mm
  <2>1. HasMm(t)' /\ HasMm(t) /\ HasFiles(t)' /\ HasFiles(t) /\ (Own(t)' <=> Own(t))
    BY <1>4, <1>5 DEF HasMm, HasFiles, Runs, Own
  <2>2. \A u \in Pid : task'[u].state = task[u].state /\ task'[u].mm = task[u].mm
    BY <1>2, <1>5
  <2> QED
    BY <2>1, <2>2
<1>9. \A u \in Pid : \A gd \in Fd : task[u].files[gd] \in {0} \cup DOMAIN filp
  BY <1>0 DEF PointersInv
<1>10. \A u \in Pid : Held(u) \subseteq DOMAIN filp
  BY <1>9 DEF Held
<1>a. /\ DOMAIN filp' = DOMAIN filp /\ ~filp'[f].used
      /\ \A g \in DOMAIN filp \ {f} : filp'[g] = filp[g]
  <2>1. filp' = Freed({f}) /\ f \in DOMAIN filp
    BY <1>1, <1>3, <1>6, <1>10
  <2> QED
    BY <1>0, <2>1, FreedFacts
<1>b. pinched \subseteq pinched' /\ (~Own(t) => f \in pinched')
  BY <1>1, <1>3 DEF Own
<1>c. \A u \in Pid : (HasFiles(u)' <=> HasFiles(u)) /\ (Own(u)' <=> Own(u)) /\ Held(u)' \subseteq Held(u)
  BY <1>6, <1>7, <1>8
<1>d. \A u \in Pid : HasFiles(u) => \A g \in Held(u) : filp[g].used \/ (g \in lent /\ (Own(u) => g \in pinched))
  BY <1>0 DEF FilesInv
<1>e. \A u \in Pid : \A gd \in Fd : task'[u].files[gd] \in {0, task[u].files[gd]}
  BY <1>2, <1>5
<1>11. PointersInv'
  <2>2. \A u \in Pid : task[u].mm \in DOMAIN mm
    BY <1>0 DEF PointersInv
  <2>3. \A n \in DOMAIN mm : mm[n].page \in {0} \cup DOMAIN page /\ mm[n].by \in Pid
    BY <1>0 DEF PointersInv
  <2>4. UNCHANGED <<mm, page>> /\ Pid' = Pid
    BY <1>2
  <2>5. \A u \in Pid : \A gd \in Fd : task'[u].files[gd] \in {0} \cup DOMAIN filp'
    BY <1>9, <1>a, <1>e
  <2> QED
    BY <1>8, <2>2, <2>3, <2>4, <2>5 DEF PointersInv
<1>12. FilesInv'
  <2>1. \A u \in Pid : task'[u].state \in {"zombie", "reaped"} => Held(u)' = {}
    BY <1>0, <1>8, <1>c DEF FilesInv
  <2>2. \A u \in Pid : \A gd, hd \in Fd : task'[u].files[gd] = task'[u].files[hd] => gd = hd \/ task'[u].files[gd] = 0
    <3>1. \A u \in Pid : \A gd, hd \in Fd : task[u].files[gd] = task[u].files[hd] => gd = hd \/ task[u].files[gd] = 0
      BY <1>0 DEF FilesInv
    <3> QED
      BY <1>e, <3>1
  <2>3. \A u, v \in Pid : u # v /\ HasFiles(u)' /\ HasFiles(v)' =>
          Held(u)' \cap Held(v)' \subseteq IF Own(u)' /\ Own(v)' THEN {} ELSE lent'
    <3>1. \A u, v \in Pid : Held(u)' \cap Held(v)' \subseteq Held(u) \cap Held(v)
      BY <1>c
    <3>2. lent' = lent
      BY <1>2
    <3>3. \A u, v \in Pid : u # v /\ HasFiles(u) /\ HasFiles(v) =>
            Held(u) \cap Held(v) \subseteq IF Own(u) /\ Own(v) THEN {} ELSE lent
      BY <1>0 DEF FilesInv
    <3> QED
      BY <1>c, <3>1, <3>2, <3>3
  <2>4. \A u \in Pid : HasFiles(u)' => \A g \in Held(u)' : filp'[g].used \/ (g \in lent' /\ (Own(u)' => g \in pinched'))
    <3> SUFFICES ASSUME NEW u \in Pid, HasFiles(u), NEW g \in Held(u)'
                 PROVE  filp'[g].used \/ (g \in lent /\ (Own(u) => g \in pinched'))
      BY <1>2, <1>c
    <3>1. g \in Held(u) /\ g \in DOMAIN filp
      BY <1>10, <1>c
    <3>2. CASE g = f
      <4>1. u # t
        BY <1>6, <3>2
      <4>2. Held(u) \cap Held(t) \subseteq IF Own(u) /\ Own(t) THEN {} ELSE lent
        BY <1>0, <1>8, <4>1 DEF FilesInv
      <4>3. g \in lent /\ ~(Own(u) /\ Own(t))
        BY <1>6, <3>1, <3>2, <4>2
      <4> QED
        BY <1>b, <3>2, <4>3
    <3>3. CASE g # f
      BY <1>a, <1>b, <1>d, <3>1, <3>3
    <3> QED
      BY <3>2, <3>3
  <2> QED
    BY <1>2, <2>1, <2>2, <2>3, <2>4 DEF FilesInv
<1>13. TwiceInv'
  <2>1. ~filp[f].used => f \in lent
    BY <1>6, <1>8, <1>d
  <2>2. lent' = lent
    BY <1>2
  <2> QED
    BY <1>0, <1>1, <1>3, <2>1, <2>2 DEF TwiceInv
<1>14. MmInv' /\ ProgramInv' /\ OwnersInv'
  <2>1. \A u \in Pid : /\ (HasMm(u)' <=> HasMm(u)) /\ (Own(u)' <=> Own(u))
                       /\ task'[u].mm = task[u].mm /\ (task'[u].state = "reaped" <=> task[u].state = "reaped")
    BY <1>7, <1>8
  <2>2. Pid' = Pid /\ UNCHANGED <<mm, page, want, blanked, nested>> /\ (~reexec' => ~reexec)
    BY <1>2
  <2>3. CASE nested'
    BY <1>0, <2>1, <2>2, <2>3, MemoryAside DEF OwnersInv
  <2>4. CASE ~nested'
    <3>1. ~nested
      BY <2>2, <2>4
    <3>2. ASSUME NEW g \in DOMAIN filp', filp'[g].used, ~filp'[g].exec
          PROVE  \E u \in Pid : Own(u)' /\ HasFiles(u)' /\ g \in Held(u)'
      <4>1. g # f /\ g \in DOMAIN filp /\ filp'[g] = filp[g]
        BY <1>a, <3>2
      <4>2. PICK u \in Pid : Own(u) /\ HasFiles(u) /\ g \in Held(u)
        BY <1>0, <3>1, <3>2, <4>1 DEF OwnersInv
      <4>3. g \in Held(u)'
        BY <1>6, <1>7, <4>1, <4>2
      <4> QED
        BY <1>c, <4>2, <4>3
    <3> QED
      BY <1>0, <2>1, <2>2, <3>1, <3>2, MemoryAside
  <2> QED
    BY <2>3, <2>4
<1> QED
  BY <1>2, <1>7, <1>11, <1>12, <1>13, <1>14 DEF IInv

LEMMA BrkKeeps == ASSUME IInv, NEW t \in Pid, sys_brk(t) PROVE IInv'
<1>1. Types' /\ UNCHANGED <<task, page, filp, twice, mm>> /\ RestKept
  BY BrkDoes DEF IInv
<1>2. Pid' = Pid /\ UNCHANGED <<lent, pinched, want, blanked, reexec, nested>>
  BY <1>1 DEF Pid, RestKept
<1>3. \A u \in Pid : /\ (HasMm(u)' <=> HasMm(u)) /\ (HasFiles(u)' <=> HasFiles(u))
                     /\ (Own(u)' <=> Own(u)) /\ Held(u)' = Held(u)
  BY <1>1 DEF HasMm, HasFiles, Own, Held, Made, Forker, Runs
<1>4. PointersInv' /\ ForkInv' /\ CopyInv' /\ TwiceInv'
  BY <1>1, <1>2 DEF IInv, PointersInv, ForkInv, CopyInv, TwiceInv, Made, Forker, Runs
<1>5. MmInv' /\ ProgramInv'
  BY <1>1, <1>2, <1>3, MemoryUntouched DEF IInv
<1>6. FilesInv'
  BY <1>1, <1>2, <1>3, FilesUntouched DEF IInv
<1>7. OwnersInv'
  BY <1>1, <1>2, <1>3, OwnersUntouched DEF IInv
<1> QED
  BY <1>1, <1>4, <1>5, <1>6, <1>7 DEF IInv

LEMMA ExitKeeps == ASSUME IInv, NEW t \in Pid, do_exit(t) PROVE IInv'
<1>0. Types /\ PointersInv /\ ForkInv /\ CopyInv /\ MmInv /\ ProgramInv /\ FilesInv /\ TwiceInv /\ OwnersInv
  BY DEF IInv
<1>1. /\ Types' /\ Pid' = Pid /\ InUser(t) /\ UNCHANGED <<mm, page>> /\ RestKept
      /\ \A u \in Pid \ {t} : task'[u] = task[u]
      /\ task'[t] = [task[t] EXCEPT !.state = "zombie", !.files = NoFiles]
      /\ filp' = Freed(ToFree(t))
      /\ twice' = twice \cup {<<"file", g>> : g \in {h \in ToFree(t) : ~filp[h].used}}
  BY <1>0, ExitDoes
<1>2. UNCHANGED <<lent, pinched, want, blanked, reexec, nested>>
  BY <1>1 DEF RestKept
<1>3. Runs(t) /\ task[t].at = "user" /\ ~Made(t) /\ task[t] \in TaskStructs
  BY <1>0, <1>1, TaskFacts DEF InUser, Runs, Made
<1>4. /\ task'[t].state = "zombie" /\ task'[t].at = "user" /\ task'[t].vfork = task[t].vfork
      /\ task'[t].mm = task[t].mm /\ task'[t].files = NoFiles
  BY <1>1, <1>3 DEF TaskStructs
<1>5. /\ ForkInv' /\ CopyInv'
      /\ \A u \in Pid \ {t} : (HasMm(u)' <=> HasMm(u)) /\ (HasFiles(u)' <=> HasFiles(u))
                              /\ (Own(u)' <=> Own(u)) /\ Held(u)' = Held(u)
  <2>1. \A u \in Pid \ {t} : want'[u] = want[u] /\ (u \in blanked' <=> u \in blanked)
    BY <1>2
  <2>2. ~nested' => ~nested
    BY <1>2
  <2>3. task'[t].state # "made" /\ task'[t].at = "user"
    BY <1>4
  <2>4. Pid' = Pid /\ \A u \in Pid \ {t} : task'[u] = task[u]
    BY <1>1
  <2> QED
    BY <1>0, <1>3, <2>1, <2>2, <2>3, <2>4, Aside
<1>6. HasFiles(t) /\ HasMm(t) /\ HasMm(t)' /\ (Own(t)' <=> Own(t))
  BY <1>3, <1>4 DEF HasFiles, HasMm, Own, Runs
<1>7. /\ \A u \in Pid \ {t} : task'[u].state = task[u].state /\ task'[u].files = task[u].files
      /\ \A u \in Pid : task'[u].mm = task[u].mm /\ (task'[u].state = "reaped" <=> task[u].state = "reaped")
  <2>1. \A u \in Pid \ {t} : task'[u] = task[u]
    BY <1>1
  <2> QED
    BY <1>3, <1>4, <2>1 DEF Runs
<1>8. DOMAIN filp' = DOMAIN filp /\ \A g \in DOMAIN filp : filp'[g] = Freed(ToFree(t))[g]
  BY <1>1 DEF Freed
<1>9. PointersInv'
  <2>1. \A u \in Pid : \A gd \in Fd : task'[u].files[gd] \in {0, task[u].files[gd]}
    BY <1>4, <1>7 DEF NoFiles
  <2>2. \A u \in Pid : task[u].mm \in DOMAIN mm /\ \A gd \in Fd : task[u].files[gd] \in {0} \cup DOMAIN filp
    BY <1>0 DEF PointersInv
  <2>3. \A n \in DOMAIN mm : mm[n].page \in {0} \cup DOMAIN page /\ mm[n].by \in Pid
    BY <1>0 DEF PointersInv
  <2>4. UNCHANGED <<mm, page>> /\ Pid' = Pid
    BY <1>1
  <2>5. \A u \in Pid : \A gd \in Fd : task'[u].files[gd] \in {0} \cup DOMAIN filp'
    BY <1>8, <2>1, <2>2
  <2> QED
    BY <1>7, <2>2, <2>3, <2>4, <2>5 DEF PointersInv
<1>10. FilesInv' /\ TwiceInv'
  <2>1. \A fd \in Fd : task'[t].files[fd] = 0
    BY <1>4 DEF NoFiles
  <2>2. UNCHANGED <<lent, pinched>> /\ Pid' = Pid
    BY <1>1, <1>2
  <2>3. twice' = twice \cup {<<"file", g>> : g \in {h \in ToFree(t) : ~filp[h].used}}
    BY <1>1
  <2>4. \A u \in Pid \ {t} : /\ (HasFiles(u)' <=> HasFiles(u)) /\ (Own(u)' <=> Own(u)) /\ Held(u)' = Held(u)
                             /\ task'[u].files = task[u].files /\ task'[u].state = task[u].state
    BY <1>5, <1>7
  <2> QED
    BY <1>0, <1>6, <1>8, <2>1, <2>2, <2>3, <2>4, Leaving
<1>11. MmInv' /\ ProgramInv' /\ OwnersInv'
  <2>1. \A u \in Pid : /\ (HasMm(u)' <=> HasMm(u)) /\ (Own(u)' <=> Own(u))
                       /\ task'[u].mm = task[u].mm /\ (task'[u].state = "reaped" <=> task[u].state = "reaped")
    BY <1>5, <1>6, <1>7
  <2>2. Pid' = Pid /\ UNCHANGED <<mm, page, want, blanked, nested>> /\ (~reexec' => ~reexec)
    BY <1>1, <1>2
  <2>3. CASE nested'
    BY <1>0, <2>1, <2>2, <2>3, MemoryAside DEF OwnersInv
  <2>4. CASE ~nested'
    <3>1. ~nested
      BY <2>2, <2>4
    <3>2. \A f \in DOMAIN filp' : filp'[f].used /\ ~filp'[f].exec => \E u \in Pid : Own(u)' /\ HasFiles(u)' /\ f \in Held(u)'
      BY <1>0, <1>5, <1>8, <3>1, FilesLeft
    <3> QED
      BY <1>0, <2>1, <2>2, <3>1, <3>2, MemoryAside
  <2> QED
    BY <2>3, <2>4
<1> QED
  BY <1>1, <1>5, <1>9, <1>10, <1>11 DEF IInv

LEMMA WaitKeeps == ASSUME IInv, NEW t \in Pid, sys_wait4(t) PROVE IInv'
<1>0. Types /\ PointersInv /\ ForkInv /\ CopyInv /\ MmInv /\ ProgramInv /\ FilesInv /\ TwiceInv /\ OwnersInv
  BY DEF IInv
<1>1. /\ Types' /\ Pid' = Pid /\ UNCHANGED <<filp, twice>> /\ RestKept
      /\ \E c \in Pid : LET m == task[c].mm p == mm[m].page IN
           /\ task[c].state = "zombie" /\ task'[c] = [task[c] EXCEPT !.state = "reaped"]
           /\ \A u \in Pid \ {c} : task'[u] = task[u]
           /\ IF task[c].vfork THEN UNCHANGED <<mm, page>>
              ELSE /\ m \in DOMAIN mm /\ mm[m].by = c /\ p \in DOMAIN page
                   /\ DOMAIN mm' = DOMAIN mm /\ mm'[m] = [mm[m] EXCEPT !.used = FALSE]
                   /\ \A n \in DOMAIN mm \ {m} : mm'[n] = mm[n]
                   /\ DOMAIN page' = DOMAIN page /\ page'[p] = [page[p] EXCEPT !.used = FALSE]
                   /\ \A q \in DOMAIN page \ {p} : page'[q] = page[q]
  BY <1>0, WaitDoes
<1>2. PICK c \in Pid : LET m == task[c].mm p == mm[m].page IN
           /\ task[c].state = "zombie" /\ task'[c] = [task[c] EXCEPT !.state = "reaped"]
           /\ \A u \in Pid \ {c} : task'[u] = task[u]
           /\ IF task[c].vfork THEN UNCHANGED <<mm, page>>
              ELSE /\ m \in DOMAIN mm /\ mm[m].by = c /\ p \in DOMAIN page
                   /\ DOMAIN mm' = DOMAIN mm /\ mm'[m] = [mm[m] EXCEPT !.used = FALSE]
                   /\ \A n \in DOMAIN mm \ {m} : mm'[n] = mm[n]
                   /\ DOMAIN page' = DOMAIN page /\ page'[p] = [page[p] EXCEPT !.used = FALSE]
                   /\ \A q \in DOMAIN page \ {p} : page'[q] = page[q]
  BY <1>1
<1>3. PICK m, p : m = task[c].mm /\ p = mm[m].page
  OBVIOUS
<1>4. task[c].state = "zombie" /\ task[c].at = "user" /\ ~Made(c) /\ task[c] \in TaskStructs
  BY <1>0, <1>2, TaskFacts DEF ForkInv, Runs, Made
<1>5. /\ task'[c].state = "reaped" /\ task'[c].at = "user" /\ task'[c].vfork = task[c].vfork
      /\ task'[c].mm = task[c].mm /\ task'[c].files = task[c].files
  BY <1>2, <1>4 DEF TaskStructs
<1>6. UNCHANGED <<lent, pinched, want, blanked, reexec, nested, filp, twice>> /\ Pid' = Pid
  BY <1>1 DEF RestKept
<1>7. \A u \in Pid \ {c} : task'[u] = task[u]
  BY <1>2
<1>8. /\ ForkInv' /\ CopyInv'
      /\ \A u \in Pid \ {c} : (HasMm(u)' <=> HasMm(u)) /\ (HasFiles(u)' <=> HasFiles(u))
                              /\ (Own(u)' <=> Own(u)) /\ Held(u)' = Held(u)
  <2>1. \A u \in Pid \ {c} : want'[u] = want[u] /\ (u \in blanked' <=> u \in blanked)
    BY <1>6
  <2>2. ~nested' => ~nested
    BY <1>6
  <2>3. task'[c].state # "made" /\ task'[c].at = "user"
    BY <1>5
  <2> QED
    BY <1>0, <1>4, <1>6, <1>7, <2>1, <2>2, <2>3, Aside
<1>9. HasMm(c) /\ ~HasMm(c)' /\ ~HasFiles(c) /\ ~HasFiles(c)' /\ (Own(c)' <=> Own(c)) /\ Held(c)' = Held(c)
  BY <1>4, <1>5 DEF HasMm, HasFiles, Own, Held, Runs, Made
<1>10. \A u \in Pid : task'[u].mm = task[u].mm /\ task'[u].files = task[u].files
  BY <1>5, <1>7
<1>11. FilesInv' /\ TwiceInv'
  <2>1. \A u \in Pid : task'[u].state \in {"zombie", "reaped"} => task[u].state \in {"zombie", "reaped"}
    BY <1>4, <1>7
  <2>2. \A u \in Pid : (HasFiles(u)' <=> HasFiles(u)) /\ (Own(u)' <=> Own(u))
    BY <1>8, <1>9
  <2> QED
    BY <1>0, <1>6, <1>10, <2>1, <2>2, FilesUntouched
<1>12. \A u \in Pid : task[u].state = "reaped" => task'[u].state = "reaped"
  BY <1>5, <1>7
<1>13. \A n \in DOMAIN mm : mm[n].page \in {0} \cup DOMAIN page /\ mm[n].by \in Pid
  BY <1>0 DEF PointersInv
<1>14. \A u \in Pid : task[u].mm \in DOMAIN mm /\ \A gd \in Fd : task[u].files[gd] \in {0} \cup DOMAIN filp
  BY <1>0 DEF PointersInv
<1>15. \A f \in DOMAIN filp' : ~nested /\ filp'[f].used /\ ~filp'[f].exec => \E u \in Pid : Own(u)' /\ HasFiles(u)' /\ f \in Held(u)'
  <2> SUFFICES ASSUME NEW f \in DOMAIN filp, ~nested, filp[f].used, ~filp[f].exec
               PROVE  \E u \in Pid : Own(u)' /\ HasFiles(u)' /\ f \in Held(u)'
    BY <1>6
  <2>1. PICK u \in Pid : Own(u) /\ HasFiles(u) /\ f \in Held(u)
    BY <1>0 DEF OwnersInv
  <2> QED
    BY <1>8, <1>9, <2>1
<1>16. CASE task[c].vfork
  <2>1. UNCHANGED <<mm, page>> /\ ~Own(c)
    BY <1>2, <1>16 DEF Own
  <2>2. PointersInv'
    BY <1>6, <1>10, <1>13, <1>14, <2>1 DEF PointersInv
  <2>3. MmInv' /\ ProgramInv'
    BY <1>0, <1>6, <1>8, <1>9, <1>10, <1>12, <2>1, MemoryUntouched
  <2>4. OwnersInv'
    BY <1>0, <1>6, <1>8, <1>9, <1>10, <2>1, OwnersUntouched
  <2> QED
    BY <1>1, <1>8, <1>11, <2>2, <2>3, <2>4 DEF IInv
<1>17. CASE ~task[c].vfork
  <2>1. /\ m \in DOMAIN mm /\ mm[m].by = c /\ p \in DOMAIN page
        /\ DOMAIN mm' = DOMAIN mm /\ mm'[m] = [mm[m] EXCEPT !.used = FALSE]
        /\ \A n \in DOMAIN mm \ {m} : mm'[n] = mm[n]
        /\ DOMAIN page' = DOMAIN page /\ page'[p] = [page[p] EXCEPT !.used = FALSE]
        /\ \A q \in DOMAIN page \ {p} : page'[q] = page[q]
    BY <1>2, <1>3, <1>17
  <2>2. Own(c) /\ mm[m] \in MmStructs /\ page[p] \in Pages
    BY <1>0, <1>17, <2>1, TaskFacts DEF Own
  <2>3. /\ ~mm'[m].used /\ mm'[m].page = p /\ mm'[m].by = c /\ mm'[m].sized = mm[m].sized
        /\ ~page'[p].used /\ page'[p].content = page[p].content
    BY <1>3, <2>1, <2>2 DEF MmStructs, Pages
  <2>4. \A n \in DOMAIN mm : mm'[n].page = mm[n].page /\ mm'[n].by = mm[n].by /\ mm'[n].sized = mm[n].sized /\ (mm'[n].used => mm'[n] = mm[n] /\ n # m)
    BY <1>3, <2>1, <2>3
  <2>5. \A q \in DOMAIN page : page'[q].content = page[q].content /\ (page'[q].used => q # p) /\ (q # p => page'[q] = page[q])
    BY <2>1, <2>3
  <2>6. p # 0 /\ \A n \in DOMAIN mm : mm[n].page = p => n = m
    <3>1. mm[m].sized
      BY <1>0, <1>3, <1>9, <2>2 DEF MmInv
    <3>2. p # 0
      BY <1>0, <1>3, <2>1, <3>1 DEF MmInv
    <3>3. \A n \in DOMAIN mm : n # m => mm[m].page # mm[n].page
      BY <1>0, <1>3, <2>1, <3>2 DEF MmInv
    <3> QED
      BY <1>3, <3>2, <3>3
  <2>7. PointersInv'
    BY <1>6, <1>10, <1>13, <1>14, <2>1, <2>4 DEF PointersInv
  <2>8. MmInv'
    <3>1. ASSUME NEW u \in Pid, Own(u)', HasMm(u)'
          PROVE  mm'[task'[u].mm].used /\ mm'[task'[u].mm].by = u /\ mm'[task'[u].mm].sized
      <4>1. u # c /\ Own(u) /\ HasMm(u)
        BY <1>8, <1>9, <3>1
      <4>2. mm[task[u].mm].used /\ mm[task[u].mm].by = u /\ mm[task[u].mm].sized
        BY <1>0, <4>1 DEF MmInv
      <4>3. task[u].mm # m /\ task[u].mm \in DOMAIN mm
        BY <1>14, <2>1, <4>1, <4>2
      <4>4. mm'[task[u].mm] = mm[task[u].mm]
        BY <2>1, <4>3
      <4> QED
        BY <1>10, <4>2, <4>4
    <3>2. ASSUME NEW n \in DOMAIN mm
          PROVE  /\ mm'[n].sized => mm'[n].page # 0
                 /\ mm'[n].used /\ mm'[n].page # 0 => page'[mm'[n].page].used
                 /\ ~mm'[n].used => task'[mm'[n].by].state = "reaped"
      <4>1. /\ mm[n].sized => mm[n].page # 0
            /\ mm[n].used /\ mm[n].page # 0 => page[mm[n].page].used
            /\ ~mm[n].used => task[mm[n].by].state = "reaped"
        BY <1>0 DEF MmInv
      <4>2. CASE n = m
        BY <1>5, <2>3, <2>6, <4>2
      <4>3. CASE n # m
        <5>1. mm'[n] = mm[n] /\ mm[n].page # p /\ mm[n].by \in Pid /\ mm[n].page \in {0} \cup DOMAIN page
          BY <1>13, <2>1, <2>6, <4>3
        <5>2. mm[n].page # 0 => page'[mm[n].page] = page[mm[n].page]
          BY <2>5, <5>1
        <5> QED
          BY <1>12, <4>1, <5>1, <5>2
      <4> QED
        BY <4>2, <4>3
    <3>3. ASSUME NEW n \in DOMAIN mm, NEW k \in DOMAIN mm, n # k, mm'[n].page # 0
          PROVE  mm'[n].page # mm'[k].page
      BY <1>0, <2>4, <3>3 DEF MmInv
    <3> QED
      BY <1>6, <2>1, <3>1, <3>2, <3>3 DEF MmInv
  <2>9. ProgramInv'
    <3> SUFFICES ASSUME NEW u \in Pid, Own(u)', HasMm(u)', u \notin blanked'
                 PROVE  page'[mm'[task'[u].mm].page].content = want'[u]
      BY <1>6 DEF ProgramInv, Page
    <3>1. Own(u) /\ HasMm(u) /\ u \notin blanked
      BY <1>6, <1>8, <1>9
    <3>2. page[mm[task[u].mm].page].content = want[u] /\ task[u].mm \in DOMAIN mm
      BY <1>0, <1>14, <3>1 DEF ProgramInv, Page
    <3>3. mm[task[u].mm].page \in DOMAIN page
      BY <1>0, <1>13, <3>1, <3>2 DEF MmInv
    <3> QED
      BY <1>6, <1>10, <2>4, <2>5, <3>2, <3>3
  <2>10. OwnersInv'
    <3> SUFFICES ASSUME ~nested' PROVE OwnersInv'
      BY DEF OwnersInv
    <3>1. ~nested
      BY <1>6
    <3>2. ASSUME NEW n \in DOMAIN mm, mm'[n].used
          PROVE  \E u \in Pid : u = mm'[n].by /\ Own(u)' /\ HasMm(u)' /\ task'[u].mm = n
      <4>1. n # m /\ mm'[n] = mm[n] /\ mm[n].by \in Pid
        BY <1>13, <2>4, <3>2
      <4>2. Own(mm[n].by) /\ HasMm(mm[n].by) /\ task[mm[n].by].mm = n
        BY <1>0, <3>1, <3>2, <4>1 DEF OwnersInv
      <4>3. mm[n].by # c
        BY <1>3, <4>1, <4>2
      <4> QED
        BY <1>8, <1>10, <4>1, <4>2, <4>3
    <3>3. ASSUME ~reexec', NEW q \in DOMAIN page, page'[q].used
          PROVE  \E n \in DOMAIN mm : mm'[n].used /\ mm'[n].page = q
      <4>1. q # p /\ page[q].used
        BY <2>5, <3>3
      <4>2. PICK n \in DOMAIN mm : mm[n].used /\ mm[n].page = q
        BY <1>0, <1>6, <3>1, <3>3, <4>1 DEF OwnersInv
      <4>3. n # m
        BY <1>3, <4>1, <4>2
      <4> QED
        BY <2>1, <4>2, <4>3
    <3> QED
      BY <1>6, <1>15, <2>1, <3>1, <3>2, <3>3 DEF OwnersInv
  <2> QED
    BY <1>1, <1>8, <1>11, <2>7, <2>8, <2>9, <2>10 DEF IInv
<1> QED
  BY <1>16, <1>17

LEMMA NextInv == IInv /\ [Next]_vars => IInv'
<1> SUFFICES ASSUME IInv, [Next]_vars PROVE IInv'
  OBVIOUS
<1>1. CASE Next
  <2>1. PICK t \in Pid : Step(t)
    BY <1>1 DEF Next
  <2>2. CASE sys_fork(t)
    BY <2>2, ForkKeeps DEF sys_fork
  <2>3. CASE sys_vfork(t)
    BY <2>3, ForkKeeps DEF sys_vfork
  <2>4. CASE copy_mm(t)
    BY <2>4, CopyMmKeeps
  <2>5. CASE copy_files(t)
    BY <2>5, CopyFilesKeeps
  <2>6. CASE Wake(t)
    BY <2>6, WakeKeeps
  <2>7. CASE sys_execve(t)
    BY <2>7, ExecveKeeps
  <2>8. CASE sys_open(t)
    BY <2>8, OpenKeeps
  <2>9. CASE sys_close(t)
    BY <2>9, CloseKeeps
  <2>10. CASE sys_brk(t)
    BY <2>10, BrkKeeps
  <2>11. CASE do_exit(t)
    BY <2>11, ExitKeeps
  <2>12. CASE sys_wait4(t)
    BY <2>12, WaitKeeps
  <2> QED
    BY <2>1, <2>2, <2>3, <2>4, <2>5, <2>6, <2>7, <2>8, <2>9, <2>10, <2>11, <2>12 DEF Step
<1>2. CASE UNCHANGED vars
  <2>1. UNCHANGED <<task, mm, page, filp, twice, lent, pinched, want, blanked, reexec, nested>>
    BY <1>2 DEF vars, hvars
  <2>2. Pid' = Pid
    BY <2>1 DEF Pid
  <2>3. \A u \in Pid : /\ (HasMm(u)' <=> HasMm(u)) /\ (HasFiles(u)' <=> HasFiles(u))
                       /\ (Own(u)' <=> Own(u)) /\ Held(u)' = Held(u)
    BY <2>1 DEF HasMm, HasFiles, Own, Held, Made, Forker, Runs
  <2>4. Types' /\ PointersInv' /\ ForkInv' /\ CopyInv' /\ TwiceInv'
    BY <2>1, <2>2 DEF IInv, Types, PointersInv, ForkInv, CopyInv, TwiceInv, Made, Forker, Runs
  <2>5. MmInv' /\ ProgramInv'
    BY <2>1, <2>2, <2>3, MemoryUntouched DEF IInv
  <2>6. FilesInv'
    BY <2>1, <2>2, <2>3, FilesUntouched DEF IInv
  <2>7. OwnersInv'
    BY <2>1, <2>2, <2>3, OwnersUntouched DEF IInv
  <2> QED
    BY <2>4, <2>5, <2>6, <2>7 DEF IInv
<1> QED
  BY <1>1, <1>2

LEMMA KeptFromInv == IInv => MemoryKept
<1> SUFFICES ASSUME IInv PROVE MemoryKept
  OBVIOUS
<1>0. Types /\ PointersInv /\ ForkInv /\ CopyInv /\ MmInv /\ ProgramInv /\ FilesInv /\ TwiceInv /\ OwnersInv
  BY DEF IInv
<1>1. \A t \in Using : t \in Pid /\ HasMm(t) /\ HasFiles(t)
  BY DEF Using, HasMm, HasFiles, Runs
<1>2. ASSUME NEW t \in Using, Own(t)
      PROVE  /\ task[t].mm \in DOMAIN mm /\ mm[task[t].mm].used /\ mm[task[t].mm].by = t
             /\ mm[task[t].mm].page # 0 /\ page[mm[task[t].mm].page].used
  <2>1. task[t].mm \in DOMAIN mm /\ mm[task[t].mm].used /\ mm[task[t].mm].by = t /\ mm[task[t].mm].sized
    BY <1>0, <1>1, <1>2 DEF MmInv, PointersInv
  <2> QED
    BY <1>0, <2>1 DEF MmInv
<1>3. MemoryLasts
  BY <1>0, <1>2 DEF MemoryLasts, MmInv, Page
<1>4. Isolated
  <2>1. ASSUME NEW t \in Using, NEW u \in Using \ {t}, Own(t), Own(u)
        PROVE  task[t].mm # task[u].mm /\ Page(t) # Page(u)
    <3>1. task[t].mm # task[u].mm
      BY <1>2, <2>1
    <3> QED
      BY <1>0, <1>2, <2>1, <3>1 DEF MmInv, Page
  <2>2. ASSUME NEW t \in Using, NEW u \in Using \ {t}
        PROVE  Held(t) \cap Held(u) \subseteq lent
    <3>1. Held(t) \cap Held(u) \subseteq IF Own(t) /\ Own(u) THEN {} ELSE lent
      BY <1>0, <1>1 DEF FilesInv
    <3> QED
      BY <3>1
  <2> QED
    BY <2>1, <2>2 DEF Isolated
<1>5. FilesLast
  <2>1. \A t \in Using : \A f \in Held(t) : filp[f].used \/ (f \in lent /\ (Own(t) => f \in pinched))
    BY <1>0, <1>1 DEF FilesInv
  <2>2. \A t \in Using : \A f \in Held(t) : filp[f].used \/ f \in (IF Own(t) THEN pinched ELSE lent)
    BY <2>1
  <2> QED
    BY <1>0, <2>2 DEF FilesLast, TwiceInv
<1>6. RunsItsProgram
  BY <1>0, <1>1 DEF RunsItsProgram, ProgramInv
<1>7. NoneIsLost
  <2>1. \A t \in Pid : HasMm(t) \/ HasFiles(t) => t \in Somebody
    BY DEF HasMm, HasFiles, Made, Runs, Somebody
  <2>2. ASSUME ~nested, NEW m \in DOMAIN mm, mm[m].used PROVE \E t \in Somebody : task[t].mm = m
    <3>1. mm[m].by \in Pid /\ HasMm(mm[m].by) /\ task[mm[m].by].mm = m
      BY <1>0, <2>2 DEF OwnersInv, PointersInv
    <3> QED
      BY <2>1, <3>1
  <2>3. ASSUME ~(nested \/ reexec), NEW p \in DOMAIN page, page[p].used PROVE \E t \in Somebody : Page(t) = p
    <3>1. PICK m \in DOMAIN mm : mm[m].used /\ mm[m].page = p
      BY <1>0, <2>3 DEF OwnersInv
    <3> QED
      BY <2>2, <2>3, <3>1 DEF Page
  <2>4. ASSUME ~nested, NEW f \in DOMAIN filp, filp[f].used, ~filp[f].exec PROVE \E t \in Somebody : f \in Held(t)
    <3>1. PICK t \in Pid : HasFiles(t) /\ f \in Held(t)
      BY <1>0, <2>4 DEF OwnersInv
    <3> QED
      BY <2>1, <3>1
  <2> QED
    BY <2>2, <2>3, <2>4 DEF NoneIsLost
<1> QED
  BY <1>3, <1>4, <1>5, <1>6, <1>7 DEF MemoryKept

\* For any number of tasks, files and calls fork, vfork, execve, open, close,
\* exit and wait4 take no memory, no program and no file from a task that still
\* has it, free nothing twice but a lent file, and lose nothing.
THEOREM MemoryStaysKept == Spec => []MemoryKept
<1>1. Spec => []IInv
  BY InitInv, NextInv, PTL DEF Spec
<1> QED
  BY <1>1, KeptFromInv, PTL

=============================================================================
