--------------------------------- MODULE Vfs ---------------------------------
(* The walk along a path and the tree of dentries it leaves behind          *)
(* (fs/vfs.c), with the calls that walk: open, chdir and stat (fs/sys.c).   *)
(* The children of a dentry are a list_head ring through child_node, whose  *)
(* head is subdirs_list.  No lock is held: a task may be preempted between  *)
(* the search of the ring, the search of the directory and the insertion.   *)
EXTENDS Naturals, Sequences, FiniteSets

CONSTANTS
    Tasks,
    Tree,           \* the volume: for each directory, its names and their inodes
    StartsWith,     \* pairs of names: the first is a proper prefix of the second
    Paths,          \* bound: the paths that are walked, as sequences of names
    TASK_FILE_MAX,
    MaxDentries     \* the dentries there is memory for

VfsAssumption ==
    /\ "root" \in DOMAIN Tree
    /\ {TASK_FILE_MAX, MaxDentries} \subseteq Nat \ {0}

VARIABLES
    dentry,     \* the dentries in the order of their allocation: name, parent, inode
    next,       \* list_head.next of their child_node and subdirs_list
    task,       \* what each task is doing
    files,      \* file_struct of each task: the dentry of each open file
    refound,    \* history: the dentries that were found in the ring
    mistaken,   \* history: a dentry was found under a name that is not its own
    raced       \* history: two tasks have searched one directory for one name
vars == <<dentry, next, task, files, refound, mistaken, raced>>

None == 0
Root == 1
child(d) == <<"child_node", d>>
subdirs(d) == <<"subdirs_list", d>>
Dentries == 1..Len(dentry)
Directories == DOMAIN Tree
Inodes == Directories \cup UNION {{Tree[i][n] : n \in DOMAIN Tree[i]} : i \in Directories}

Idle == [at |-> "idle", op |-> "stat", path |-> <<>>, asked |-> <<>>, parent |-> Root, found |-> None,
         result |-> "none"]

\* fat32_read_superblock()
Init ==
    /\ dentry = <<[name |-> "/", parent |-> Root, inode |-> "root"]>>
    /\ next = [n \in {child(Root), subdirs(Root)} |-> n]
    /\ task = [t \in Tasks |-> Idle]
    /\ files = [t \in Tasks |-> [fd \in 1..TASK_FILE_MAX |-> None]]
    /\ refound = {} /\ mistaken = FALSE /\ raced = FALSE

Works(t, at) == task[t].at = at
Go(t, at, changes) == task' = [task EXCEPT ![t] = [changes EXCEPT !.at = at]]
Return(t, result) == task' = [task EXCEPT ![t] = [Idle EXCEPT !.asked = task[t].asked, !.result = result]]
Name(t) == Head(task[t].path)

----------------------------------------------------------------------------
(* The ring of children                                                     *)

\* The nodes list_for_each() comes to, until it meets the head again or a node twice.
RECURSIVE Visited(_, _)
Visited(head, seq) ==
    LET node == IF seq = <<>> THEN next[head] ELSE next[seq[Len(seq)]] IN
    IF node = head \/ \E i \in DOMAIN seq : seq[i] = node THEN seq ELSE Visited(head, Append(seq, node))

Ring(d) == Visited(subdirs(d), <<>>)
Closed(d) == LET ring == Ring(d) IN ring = <<>> \/ next[ring[Len(ring)]] = subdirs(d)
Children(d) == LET ring == Ring(d) IN {ring[i][2] : i \in {j \in DOMAIN ring : ring[j][1] = "child_node"}}

\* strncmp() of the length of the name that is looked for
SameName(name, d) == name = dentry[d].name \/ <<name, dentry[d].name>> \in StartsWith

\* init_list_head() of both nodes of the dentry, then list_add() to the parent.
Link_before(d, parent) ==
    LET reset == [n \in DOMAIN next \cup {child(d), subdirs(d)} |->
                    IF n \in {child(d), subdirs(d)} THEN n ELSE next[n]]
    IN [reset EXCEPT ![subdirs(parent)] = child(d), ![child(d)] = child(d)]

Link(d, parent) ==
    LET reset == [n \in DOMAIN next \cup {child(d), subdirs(d)} |->
                    IF n \in {child(d), subdirs(d)} THEN n ELSE next[n]]
    IN [reset EXCEPT ![subdirs(parent)] = child(d), ![child(d)] = reset[subdirs(parent)]]

----------------------------------------------------------------------------
(* path_walk()                                                              *)

Call(t, op, path) ==
    /\ Works(t, "idle")
    /\ Go(t, "search", [Idle EXCEPT !.op = op, !.path = path, !.asked = path])
    /\ UNCHANGED <<dentry, next, files, refound, mistaken, raced>>

\* d_lookup().  A node that heads another ring is taken for a child: what it compares
\* then is not a name.
d_lookup(t) ==
    LET parent == task[t].parent
        name == Name(t)
        ring == Ring(parent)
        Stops == {i \in DOMAIN ring : ring[i][1] = "subdirs_list" \/ SameName(name, ring[i][2])}
        first == CHOOSE i \in Stops : \A j \in Stops : i <= j
        Found(d) ==
            /\ Go(t, "link", [task[t] EXCEPT !.found = d])
            /\ refound' = refound \cup {d}
            /\ mistaken' = (mistaken \/ name # dentry[d].name)
    IN
    /\ Works(t, "search")
    /\ CASE name = "." -> Found(parent)
         [] name = ".." -> Found(dentry[parent].parent)
         [] name \notin {".", ".."} /\ Stops # {} ->
                IF ring[first][1] = "child_node" THEN Found(ring[first][2])
                ELSE Go(t, "astray", task[t]) /\ UNCHANGED <<refound, mistaken>>
         [] name \notin {".", ".."} /\ Stops = {} ->
                Go(t, IF Closed(parent) THEN "lookup" ELSE "spins", task[t]) /\ UNCHANGED <<refound, mistaken>>
    /\ raced' = (raced \/ \E u \in Tasks \ {t} :
            task[u].at \in {"lookup", "link"} /\ task[u].parent = parent /\ Name(u) = name)
    /\ UNCHANGED <<dentry, next, files>>

d_alloc(name, parent, inode) == Append(dentry, [name |-> name, parent |-> parent, inode |-> inode])

\* d_alloc(), which may find no memory, and the lookup of the file system; a file has
\* no names.  The dentry of a name that is not there is freed again.
lookup(t) ==
    LET inode == dentry[task[t].parent].inode
        name == Name(t)
    IN
    /\ Works(t, "lookup")
    /\ IF inode \in Directories /\ name \in DOMAIN Tree[inode] /\ Len(dentry) < MaxDentries
       THEN /\ dentry' = d_alloc(name, task[t].parent, Tree[inode][name])
            /\ Go(t, "link", [task[t] EXCEPT !.found = Len(dentry) + 1])
       ELSE /\ Return(t, "ENOENT")
            /\ UNCHANGED dentry
    /\ UNCHANGED <<next, files, refound, mistaken, raced>>

\* Found in the ring or not, the dentry is inserted.
link(t) ==
    LET d == task[t].found
        rest == Tail(task[t].path)
    IN
    /\ Works(t, "link")
    /\ next' = Link(d, task[t].parent)
    /\ IF rest # <<>> THEN Go(t, "search", [task[t] EXCEPT !.path = rest, !.parent = d])
       ELSE Go(t, "found", task[t])
    /\ UNCHANGED <<dentry, files, refound, mistaken, raced>>

----------------------------------------------------------------------------
(* What the calls do with the dentry                                        *)

sys_open(t) ==
    LET free == {fd \in 1..TASK_FILE_MAX : files[t][fd] = None}
        fd == CHOOSE i \in free : \A j \in free : i <= j
    IN
    /\ Works(t, "found") /\ task[t].op = "open"
    /\ IF free = {} THEN Return(t, "EMFILE") /\ UNCHANGED files
       ELSE /\ files' = [files EXCEPT ![t][fd] = task[t].found]
            /\ Return(t, dentry[task[t].found].inode)
    /\ UNCHANGED <<dentry, next, refound, mistaken, raced>>

\* sys_chdir() looks at the type and keeps nothing; sys_stat() copies the inode.
sys_chdir(t) ==
    LET inode == dentry[task[t].found].inode IN
    /\ Works(t, "found") /\ task[t].op \in {"chdir", "stat"}
    /\ Return(t, IF task[t].op = "chdir" /\ inode \notin Directories THEN "ENOTDIR" ELSE inode)
    /\ UNCHANGED <<dentry, next, files, refound, mistaken, raced>>

sys_close(t) ==
    /\ Works(t, "idle")
    /\ \E fd \in 1..TASK_FILE_MAX :
        /\ files[t][fd] # None
        /\ files' = [files EXCEPT ![t][fd] = None]
    /\ UNCHANGED <<dentry, next, task, refound, mistaken, raced>>

Step(t) == d_lookup(t) \/ lookup(t) \/ link(t) \/ sys_open(t) \/ sys_chdir(t)

Next ==
    \E t \in Tasks :
        \/ \E op \in {"open", "chdir", "stat"}, path \in Paths : Call(t, op, path)
        \/ Step(t)
        \/ sys_close(t)

Spec == Init /\ [][Next]_vars

----------------------------------------------------------------------------
(* What a walk along a path may rely on, and what it leaves of the tree.    *)

Places == {"idle", "search", "lookup", "link", "found", "spins", "astray"}

TypeOK ==
    /\ \A d \in Dentries : dentry[d].parent \in Dentries /\ dentry[d].inode \in Inodes
    /\ DOMAIN next \subseteq UNION {{child(d), subdirs(d)} : d \in Dentries}
    /\ \A n \in DOMAIN next : next[n] \in DOMAIN next
    /\ \A t \in Tasks :
        /\ task[t].at \in Places /\ task[t].parent \in Dentries
        /\ task[t].at \in {"link", "found"} => task[t].found \in Dentries

RECURSIVE Resolve(_, _)
Resolve(inode, path) ==
    IF path = <<>> THEN inode
    ELSE IF inode \in Directories /\ Head(path) \in DOMAIN Tree[inode]
         THEN Resolve(Tree[inode][Head(path)], Tail(path))
         ELSE "ENOENT"

\* The walk of a path ends at the file the volume has under it, or at ENOENT if it has
\* none or no memory, as long as nothing has been found under a prefix of its name, "."
\* or "..".
EndsAtItsFile ==
    ~mistaken => \A t \in Tasks :
        task[t].at = "idle" /\ task[t].asked # <<>> /\ task[t].result \notin {"EMFILE", "ENOTDIR"} =>
            \/ task[t].result = Resolve("root", task[t].asked)
            \/ task[t].result = "ENOENT" /\ Len(dentry) = MaxDentries

Linked == {d \in Dentries : child(d) \in DOMAIN next} \cup {Root}

\* Unless one of its children, or it, was found in the cache, the ring of a directory
\* closes and holds every child that was linked to it: the second walk through a
\* dentry breaks the ring it is in and empties its own.  (".." links one into a ring
\* of its descendant.)
RingsWhole ==
    ~mistaken => \A p \in Linked :
        p \notin refound /\ (\A d \in refound : dentry[d].parent # p) =>
            Closed(p) /\ Children(p) = {d \in Linked \ {Root} : dentry[d].parent = p}

\* A task searches a ring for ever, or compares what is not a name, only after a
\* dentry was found in the cache.
OnlyAfterRefound == \A t \in Tasks : task[t].at \in {"spins", "astray"} => refound # {}

\* One name of a directory has two dentries, and so two inodes with sizes of their own,
\* only if two tasks searched for it at once, or the directory or a child of it was
\* found in the cache.
OneDentry ==
    \A d, e \in Linked \ {Root} :
        d # e /\ dentry[d].parent = dentry[e].parent /\ dentry[d].name = dentry[e].name =>
            \/ raced
            \/ dentry[d].parent \in refound
            \/ \E x \in refound : dentry[x].parent = dentry[d].parent

\* What an insertion takes out of a ring is a dentry that was found, or its children,
\* or what followed it in its ring: a new dentry takes nothing out.
TakesNothing ==
    \A t \in Tasks :
        task[t].at = "link" /\ task'[t] # task[t] /\ task[t].found \notin refound =>
            \A p \in Linked : Children(p) \subseteq Children(p)'

WalksRight == TypeOK /\ EndsAtItsFile /\ RingsWhole /\ OnlyAfterRefound /\ OneDentry
=============================================================================
