--------------------------------- MODULE Fat ---------------------------------
(* Reading and writing files on the FAT32 volume (fat32.c, fat-node.c).     *)
(* No lock is taken: a task may be preempted at every access to the block   *)
(* device, and each access may fail.  A file is its inode in memory and its *)
(* directory entry on the card; the entries of all files lie in one cluster *)
(* of the directory, and the file allocation table is read and written by   *)
(* the sector.  Power may be cut at any moment: the card stays as it is.    *)
EXTENDS Integers, Sequences, SequencesExt, FiniteSets, FiniteSetsExt, TLC

CONSTANTS
    Tasks, Files,
    MaxCluster,     \* the last cluster of the volume; the first is 2
    PerSector,      \* entries of the table in a sector
    Bpc,            \* bytes_per_cluster
    Longest,        \* bound: the longest read or write
    MayFail,        \* whether block_read() and block_write() may fail
    MayCrash        \* whether the power may be cut

FatAssumption ==
    /\ MaxCluster \in Nat \ {0, 1} /\ {PerSector, Bpc, Longest} \subseteq Nat \ {0}
    /\ {MayFail, MayCrash} \subseteq BOOLEAN

VARIABLES
    fat,        \* the two copies of the table on the card
    dirent,     \* on the card: first cluster and size of each file
    inode,      \* in memory: the same
    task,       \* what each task is doing
    astray,     \* history: a write has left the data area
    failed,     \* history: an access has failed
    unmarked,   \* history: the clusters that were used although their mark failed
    crashed,    \* history: the power was cut before a file was whole on the card
    clashed     \* history: two tasks have been at once where neither expects another
vars == <<fat, dirent, inode, task, astray, failed, unmarked, crashed, clashed>>

Entries == 0..MaxCluster
Clusters == 2..MaxCluster
EOC == MaxCluster + 1   \* 0x0ffffff8
Junk == MaxCluster + 2  \* what file data is when it is taken for an entry
None == <<>>
Sector(e) == e \div PerSector

NoFile == [first |-> 0, size |-> 0]
Idle == [at |-> "idle", op |-> "read", file |-> CHOOSE f \in Files : TRUE, pos |-> 0, left |-> 0,
         hops |-> 0, cluster |-> 0, buf |-> None]

\* A volume with one file, of two clusters; the others are empty.
Init ==
    /\ fat = [i \in 1..2 |-> [e \in Entries |-> CASE e = 2 -> 3 [] e \in {0, 1, 3} -> EOC [] OTHER -> 0]]
    /\ dirent = [f \in Files |-> IF f = Idle.file THEN [first |-> 2, size |-> Bpc + 1] ELSE NoFile]
    /\ inode = dirent
    /\ task = [t \in Tasks |-> Idle]
    /\ astray = FALSE /\ failed = FALSE /\ unmarked = {} /\ crashed = FALSE /\ clashed = FALSE

\* Two tasks between the search for a free cluster and its mark in the table, or
\* between reading and writing the directory entries, or two that write one file.
Marks(t) == task[t].at \in {"mark", "mark 1", "mark 2"}
Writes(t, f) == task[t].at # "idle" /\ task[t].op = "write" /\ task[t].file = f
Clash ==
    \E t, u \in Tasks :
        /\ t # u
        /\ \/ Marks(t) /\ Marks(u)
           \/ task[t].at = "inode out" /\ task[u].at = "inode out"
           \/ \E f \in Files : Writes(t, f) /\ Writes(u, f)

RECURSIVE Follow(_, _)
Follow(table, seq) ==
    LET next == table[seq[Len(seq)]] IN
    IF next \in Entries \ {0} /\ \A i \in DOMAIN seq : seq[i] # next
    THEN Follow(table, Append(seq, next)) ELSE seq

\* The clusters of a file in order, up to the end or to where the chain closes on itself.
Chain(file) == IF file.first = 0 THEN <<>> ELSE Follow(fat[1], <<file.first>>)

----------------------------------------------------------------------------
(* One access to the card, after which the task is at "to"                  *)

Go(t, at, changes) == task' = [task EXCEPT ![t] = [changes EXCEPT !.at = at]]
Works(t, at) == task[t].at = at
Succeeds == UNCHANGED failed
Fails == MayFail /\ failed' = TRUE
Return(t) == task' = [task EXCEPT ![t] = Idle]
Quiet == UNCHANGED <<astray, unmarked, crashed>>
Disk == <<fat, dirent>>

\* Where FAT32_write() and FAT32_read() go on when the work on the clusters is over,
\* however it ended: what it has returned is passed on at last and decides nothing.
Over(t) == IF task[t].op = "write" THEN "size" ELSE "done"

\* sys_read() and sys_write(), wherever sys_lseek() has been: not past the end.
\* FAT32_read() cuts the count at the size.
Enter(t, op, f, pos, count) ==
    LET file == inode[f]
        call == [Idle EXCEPT !.op = op, !.file = f, !.pos = pos, !.cluster = file.first,
                             !.hops = pos \div Bpc,
                             !.left = IF op = "read" THEN Min({count, file.size - pos}) ELSE count]
    IN
    /\ pos <= file.size
    /\ op = "read" => pos < file.size
    /\ CASE file.first # 0 -> Go(t, "walk", call)
         [] op = "write" -> Go(t, "find", call)
         [] OTHER -> Return(t)
    /\ Succeeds /\ Quiet /\ UNCHANGED <<Disk, inode>>

\* fat32_read_fat_entry() for each cluster before the position; it refuses the end
\* of the chain as it refuses an error.
Walk_again(t) ==
    LET next == fat[1][task[t].cluster] IN
    /\ Works(t, "walk") /\ Succeeds
    /\ IF task[t].hops = 0 THEN Go(t, "data", task[t])
       ELSE Go(t, "walk", [task[t] EXCEPT !.cluster = IF next \in Entries THEN next ELSE @])
    /\ Quiet /\ UNCHANGED <<Disk, inode>>

Walk(t) ==
    LET next == fat[1][task[t].cluster] IN
    /\ Works(t, "walk")
    /\ \/ task[t].hops = 0 /\ Succeeds /\ Go(t, "data", task[t])
       \/ /\ task[t].hops > 0 /\ next \in Entries /\ Succeeds
          /\ Go(t, "walk", [task[t] EXCEPT !.cluster = next, !.hops = @ - 1])
       \/ task[t].hops > 0 /\ ((next \notin Entries /\ Succeeds) \/ Fails) /\ Go(t, Over(t), task[t])
    /\ Quiet /\ UNCHANGED <<Disk, inode>>

----------------------------------------------------------------------------
(* The first cluster of an empty file                                       *)

fat32_find_available_cluster(t) ==
    LET free == {c \in Entries : fat[1][c] = 0} IN
    /\ Works(t, "find")
    /\ \/ /\ free # {} /\ Succeeds
          /\ inode' = [inode EXCEPT ![task[t].file].first = Min(free)]
          /\ Go(t, "mark", [task[t] EXCEPT !.cluster = Min(free)])
       \/ ((free = {} /\ Succeeds) \/ Fails) /\ Go(t, Over(t), task[t]) /\ UNCHANGED inode
    /\ Quiet /\ UNCHANGED Disk

\* fat32_write_fat_entry() returns TRUE when it has succeeded, and the write takes
\* that for the error: a good mark ends the call with -EFAULT and no data, and after
\* a failed one the data follows.  First the sector of the first copy is read ...
MarkFails(t, i) ==
    /\ Fails /\ Go(t, "data", [task[t] EXCEPT !.buf = None])
    /\ unmarked' = IF i < 2 THEN unmarked \cup {task[t].cluster} ELSE unmarked

ReadSector(t) ==
    /\ Works(t, "mark")
    /\ \/ Succeeds /\ Go(t, "mark 1", [task[t] EXCEPT !.buf = fat[1]]) /\ UNCHANGED unmarked
       \/ MarkFails(t, 0)
    /\ UNCHANGED <<Disk, inode, astray, crashed>>

\* ... and writes it, with the new entry, to both.
Stored(t, i) ==
    [fat EXCEPT ![i] = [e \in Entries |->
        CASE e = task[t].cluster -> EOC
          [] Sector(e) = Sector(task[t].cluster) /\ e # task[t].cluster -> task[t].buf[e]
          [] OTHER -> @[e]]]

WriteSector_once(t, i) ==
    /\ Works(t, "mark " \o ToString(i))
    /\ fat' = Stored(t, i) /\ Succeeds
    /\ Go(t, "size", [task[t] EXCEPT !.buf = None])
    /\ Quiet /\ UNCHANGED <<dirent, inode>>

WriteSector(t, i) ==
    /\ Works(t, "mark " \o ToString(i))
    /\ \/ /\ fat' = Stored(t, i) /\ Succeeds /\ UNCHANGED unmarked
          /\ IF i = 1 THEN Go(t, "mark 2", task[t]) ELSE Go(t, "size", [task[t] EXCEPT !.buf = None])
       \/ MarkFails(t, i) /\ UNCHANGED fat
    /\ UNCHANGED <<dirent, inode, astray, crashed>>

----------------------------------------------------------------------------
(* The data, a cluster at a time                                            *)

\* What follows a cluster: the position has moved by what has been copied.
Copied(t) ==
    LET len == Min({task[t].left, Bpc - (task[t].pos % Bpc)})
    IN [task[t] EXCEPT !.pos = @ + len, !.left = @ - len]
AfterCopy(t) == IF Copied(t).left = 0 THEN Over(t) ELSE "next"

ReadCluster(t) ==
    /\ Works(t, "data")
    /\ \/ /\ Succeeds
          /\ IF task[t].op = "read" THEN Go(t, AfterCopy(t), Copied(t)) ELSE Go(t, "data out", task[t])
       \/ Fails /\ Go(t, Over(t), task[t])
    /\ Quiet /\ UNCHANGED <<Disk, inode>>

\* Clusters 0 and 1 lie in front of the data: there the second copy of the table ends.
WriteCluster(t) ==
    /\ Works(t, "data out")
    /\ \/ /\ Succeeds /\ Go(t, AfterCopy(t), Copied(t))
          /\ IF task[t].cluster \in Clusters THEN UNCHANGED <<fat, astray>>
             ELSE /\ astray' = TRUE
                  /\ fat' = [fat EXCEPT ![2] = [e \in Entries |->
                        IF Sector(e) = Sector(MaxCluster) + task[t].cluster - 1 THEN Junk ELSE @[e]]]
       \/ Fails /\ Go(t, Over(t), task[t]) /\ UNCHANGED <<fat, astray>>
    /\ UNCHANGED <<dirent, inode, unmarked, crashed>>

\* For a write, fat32_read_or_new_fat_entry() returns FALSE at the end of the chain
\* and before it looks for a free cluster, and TRUE, which is 1, if the chain goes
\* on; the write takes what it returns for the next cluster.
NextCluster(t) ==
    LET next == fat[1][task[t].cluster] IN
    /\ Works(t, "next")
    /\ \/ /\ next \in Entries /\ Succeeds
          /\ Go(t, "data", [task[t] EXCEPT !.cluster = IF task[t].op = "write" THEN 1 ELSE next])
       \/ ((next \notin Entries /\ Succeeds) \/ Fails) /\ Go(t, Over(t), task[t])
    /\ Quiet /\ UNCHANGED <<Disk, inode>>

----------------------------------------------------------------------------
(* FAT32_write() ends with the size and the directory entry                 *)

SetSize(t) ==
    LET f == task[t].file IN
    /\ Works(t, "size")
    /\ IF task[t].pos > inode[f].size
       THEN inode' = [inode EXCEPT ![f].size = task[t].pos] /\ Go(t, "inode", task[t])
       ELSE Return(t) /\ UNCHANGED inode
    /\ Succeeds /\ Quiet /\ UNCHANGED Disk

\* fat32_write_inode(): the result of block_read() is not looked at, and the buffer
\* is zero before.
ReadInode(t) ==
    /\ Works(t, "inode")
    /\ \/ Succeeds /\ Go(t, "inode out", [task[t] EXCEPT !.buf = dirent])
       \/ Fails /\ Go(t, "inode out", [task[t] EXCEPT !.buf = [f \in Files |-> NoFile]])
    /\ Quiet /\ UNCHANGED <<Disk, inode>>

WriteInode_blank(t) ==
    /\ Works(t, "inode out")
    /\ dirent' = [f \in Files |-> IF f = task[t].file THEN inode[f] ELSE NoFile]
    /\ Succeeds /\ Return(t)
    /\ Quiet /\ UNCHANGED <<fat, inode>>

WriteInode(t) ==
    LET f == task[t].file IN
    /\ Works(t, "inode out")
    /\ \/ Succeeds /\ dirent' = [task[t].buf EXCEPT ![f] = inode[f]]
       \/ Fails /\ UNCHANGED dirent
    /\ Return(t)
    /\ Quiet /\ UNCHANGED <<fat, inode>>

Done(t) ==
    /\ Works(t, "done") /\ Return(t)
    /\ Succeeds /\ Quiet /\ UNCHANGED <<Disk, inode>>

----------------------------------------------------------------------------
\* sys_open() with O_TRUNC: the size in memory and nothing else.
Truncate(t, f) ==
    /\ Works(t, "idle") /\ inode[f].size > 0
    /\ inode' = [inode EXCEPT ![f].size = 0]
    /\ Succeeds /\ Quiet /\ UNCHANGED <<Disk, task>>

\* The power is cut, and the files are looked up again after the next boot.
Crash ==
    /\ MayCrash
    /\ inode' = dirent
    /\ task' = [t \in Tasks |-> Idle]
    /\ crashed' = (crashed \/ (\E t \in Tasks : ~Works(t, "idle"))
                           \/ \E f \in Files : inode[f].first # dirent[f].first)
    /\ UNCHANGED <<Disk, astray, failed, unmarked>>

Access(t) ==
    \/ Walk(t) \/ fat32_find_available_cluster(t) \/ ReadSector(t)
    \/ \E i \in 1..2 : WriteSector(t, i)
    \/ ReadCluster(t) \/ WriteCluster(t) \/ NextCluster(t)
    \/ SetSize(t) \/ ReadInode(t) \/ WriteInode(t) \/ Done(t)

Step ==
    \/ \E t \in Tasks :
        \/ /\ Works(t, "idle")
           /\ \E op \in {"read", "write"}, f \in Files, count \in 1..Longest :
                \E pos \in 0..inode[f].size : Enter(t, op, f, pos, count)
        \/ Access(t)
        \/ \E f \in Files : Truncate(t, f)
    \/ Crash

\* After a clash files share clusters or have lost their entries: the model ends there.
Next == ~clashed /\ Step /\ clashed' = Clash'

Spec == Init /\ [][Next]_vars

----------------------------------------------------------------------------
(* What a file on the FAT32 volume may rely on, with the power cut at any   *)
(* moment, with a card that fails and with two tasks that write.            *)

Places == {"idle", "walk", "find", "mark", "mark 1", "mark 2", "data", "data out", "next",
           "size", "inode", "inode out", "done"}

TypeOK ==
    /\ fat \in [1..2 -> [Entries -> 0..Junk]]
    /\ \A file \in {dirent[f] : f \in Files} \cup {inode[f] : f \in Files} :
        file.first \in {0} \cup Clusters /\ file.size \in Nat
    /\ \A t \in Tasks :
        /\ task[t].at \in Places
        /\ task[t].cluster \in Entries

InSet(seq) == {seq[i] : i \in DOMAIN seq}
Alone == ~clashed /\ ~failed

\* As long as no two tasks have clashed, a cluster that belongs to two files, on the
\* card or in memory, is one whose mark failed and which was used nevertheless: it
\* was still free for the next file.  This holds whenever the power is cut and
\* whatever fails.  The chain of every file ends.
FilesSound ==
    ~clashed =>
        \A f \in Files : \A file \in {dirent[f], inode[f]} :
            LET chain == Chain(file) IN
            /\ \A g \in Files \ {f} :
                InSet(chain) \cap (InSet(Chain(inode[g])) \cup InSet(Chain(dirent[g]))) \subseteq unmarked
            /\ chain # <<>> =>
                \/ fat[1][chain[Len(chain)]] = EOC
                \/ chain[Len(chain)] \in unmarked
                \/ file = inode[f] /\ \E t \in Tasks : task[t].at \in {"mark", "mark 1"} /\ task[t].file = f

\* No file is longer than its chain: the size follows the position, which moves only
\* past clusters that have been written.  The exception is a file whose cluster could
\* not be marked, written past that cluster.
NoLongerThanItsChain ==
    ~clashed /\ ~(unmarked # {} /\ astray) =>
        \A f \in Files : \A file \in {dirent[f], inode[f]} : file.size <= Len(Chain(file)) * Bpc

\* Even on a card that fails, what is allocated stays so: no step of one task takes an
\* entry out of the table, and a step of two only after a clash.
TableOnlyGrows == \A c \in Clusters : fat[1][c] # 0 => fat'[1][c] = fat[1][c]

\* A cluster that is taken and in no file was lost by a cut of the power - even with
\* no call in progress, as a marked cluster is known only to the inode in memory until
\* the file is written again - and by nothing else, clashing tasks excepted.
NothingLost ==
    ~clashed /\ ~crashed =>
        \A c \in Clusters : fat[1][c] # 0 => \E f \in Files : c \in InSet(Chain(inode[f]))

\* The two copies of the table differ only while an entry is written, after a cut of
\* the power, and where a write has left the data area.
CopiesAgree ==
    Alone /\ ~crashed =>
        \/ \E t \in Tasks : task[t].at = "mark 2"
        \/ \A e \in Entries : fat[1][e] = fat[2][e] \/ (astray /\ Sector(e) = Sector(MaxCluster))

\* A task reads and writes only clusters of its file, except a write that comes to
\* the end of a cluster within its chain: it goes on in front of the data area; and
\* unless a cluster is not marked, whose chain goes nowhere.
InItsFile ==
    ~clashed /\ unmarked = {} =>
        \A t \in Tasks :
            task[t].at \in {"data", "data out"} =>
                \/ task[t].cluster \in InSet(Chain(inode[task[t].file]))
                \/ task[t].op = "write" /\ task[t].cluster = 1 /\ task[t].pos % Bpc = 0

\* Other files' directory entries survive a write, whenever the power is cut.
OthersKept == Alone' => Cardinality({f \in Files : dirent'[f] # dirent[f]}) <= 1
LeavesOthers == TableOnlyGrows /\ OthersKept

Sound == TypeOK /\ FilesSound /\ NoLongerThanItsChain /\ NothingLost /\ CopiesAgree /\ InItsFile

----------------------------------------------------------------------------
(* The names in a directory: FAT32_readdir(), one call after the other, and *)
(* FAT32_lookup().  A directory is what other systems write: for each file   *)
(* the parts of its long name, the last first, and the entry with the short *)
(* one.  Only the clusters' bounds are kept of how it is stored: a buffer   *)
(* holds one cluster.                                                       *)

CONSTANTS
    Base, Ext,      \* characters of a short name: 8 and 3
    Part,           \* characters in a part of a long name: 13
    PerCluster,     \* entries of a cluster
    OnCard,         \* what may be in the directory: long, base, ext, type, low and deleted
    MaxFiles,
    MaxFails        \* bound on the reads that fail

NamesAssumption == Base \in Nat \ {0} /\ Ext \in Nat \ {0} /\ Part \in Nat \ {0} /\ PerCluster \in Nat \ {0}

VARIABLES
    names, dir,     \* the files, and the entries they are stored in
    before,         \* what lies in memory in front of the buffer
    stray,          \* the character behind the end of a name
    f_pos,          \* of the open directory
    listed,         \* what readdir() has returned: the entry and the name
    fails
dirVars == <<names, dir, before, stray, f_pos, listed, fails>>

NUL == "0"
PAD == "ffff"
Letters == {"A", "B"}
Lower(c, low) == IF low /\ c = "A" THEN "a" ELSE IF low /\ c = "B" THEN "b" ELSE c
Blank(n) == [x \in 1..n |-> " "]

----------------------------------------------------------------------------
(* What is on the card                                                      *)

Short(f) == [type |-> f.type, chars |-> f.base \o f.ext, low |-> f.low, seq |-> 0, last |-> FALSE, deleted |-> f.deleted]
Char(long, at) == IF at <= Len(long) THEN long[at] ELSE IF at = Len(long) + 1 THEN NUL ELSE PAD
LongPart(f, k, n) == [type |-> "long", chars |-> [x \in 1..Part |-> Char(f.long, (k - 1) * Part + x)], low |-> FALSE,
                      seq |-> k, last |-> k = n, deleted |-> f.deleted]
Parts(f) == (Len(f.long) + Part - 1) \div Part
EntriesOf(f) == [i \in 1..Parts(f) |-> LongPart(f, Parts(f) + 1 - i, Parts(f))] \o <<Short(f)>>
Layout(fs) == FlattenSeq([i \in DOMAIN fs |-> EntriesOf(fs[i])])
NotLong == [type |-> "file", chars |-> Blank(Base + Ext), low |-> FALSE, seq |-> 0, last |-> FALSE, deleted |-> FALSE]

DirInit ==
    /\ names \in UNION {[1..n -> OnCard] : n \in 1..MaxFiles} /\ dir = Layout(names)
    /\ before \in {NotLong} \cup {LongPart(f, 1, 1) : f \in {g \in OnCard : Len(g.long) = 1}} /\ stray \in {NUL, "A"}
    /\ f_pos = 0 /\ listed = <<>> /\ fails = 0

----------------------------------------------------------------------------
\* The entry k places in front of entry i, as the buffer has it.
Inside(i) == (i - 1) % PerCluster
Prev(i, k) == IF k <= Inside(i) THEN dir[i - k] ELSE before

\* Entries that are looked at: neither parts of long names nor deleted.
Live_all(i) == dir[i].type # "long"
Live(i) == dir[i].type # "long" /\ ~dir[i].deleted

----------------------------------------------------------------------------
(* FAT32_readdir()                                                          *)

\* A part that a name is made of; sequence number 5 is taken for a mark.
Usable(e) == e.type = "long" /\ ~e.deleted /\ (e.seq # 5 \/ e.last)
Named(e) == SelectSeq(e.chars, LAMBDA c : c \notin {NUL, PAD})
LongName(i) ==
    LET ends == {k \in 1..(PerCluster + 1) : ~Usable(Prev(i, k)) \/ Prev(i, k).last}
        stop == Min(ends)
        n == IF Usable(Prev(i, stop)) THEN stop ELSE stop - 1
    IN FlattenSeq([k \in 1..n |-> Named(Prev(i, k))])

UpTo(chars) == LET blanks == {x \in DOMAIN chars : chars[x] = " "}
               IN IF blanks = {} THEN chars ELSE SubSeq(chars, 1, Min(blanks) - 1)
Shifted(c, low) == IF low /\ c \notin Letters THEN "M" ELSE Lower(c, low)    \* whatever it is, 32 is added
Cased(chars, low) == [x \in DOMAIN chars |-> Shifted(chars[x], low)]
BaseOf(e) == SubSeq(e.chars, 1, Base)
ExtOf(e) == SubSeq(e.chars, Base + 1, Base + Ext)
ShortName(e) ==
    Cased(UpTo(BaseOf(e)), e.low)
    \o IF e.type = "dir" \/ UpTo(ExtOf(e)) = <<>> THEN <<>> ELSE <<".">> \o Cased(UpTo(ExtOf(e)), e.low)
Name(i) == IF Usable(Prev(i, 1)) THEN LongName(i) ELSE ShortName(dir[i])

Left == {i \in (f_pos + 1)..Len(dir) : Live(i)}
FAT32_readdir ==
    /\ Left # {} /\ f_pos' = Min(Left) /\ listed' = Append(listed, [entry |-> Min(Left), name |-> Name(Min(Left))])
    /\ UNCHANGED <<names, dir, before, stray, fails>>

\* A cluster, this or the next, cannot be read; what was passed is passed.
Bound == ((f_pos \div PerCluster) + 1) * PerCluster
FAT32_readdir_fails ==
    /\ fails < MaxFails /\ fails' = fails + 1
    /\ f_pos' \in {f_pos} \cup (IF \A i \in Left : i > Bound THEN {Min({Bound, Len(dir)})} ELSE {})
    /\ UNCHANGED <<names, dir, before, stray, listed>>

----------------------------------------------------------------------------
(* FAT32_lookup().  j counts the characters of the name that have matched.  *)

Fail == -1
At(name, j) == IF j < Len(name) THEN name[j + 1] ELSE IF j = Len(name) THEN NUL ELSE stray

\* One character of a part of a long name, one of a short base, of an extension.
LongChar(name, j, c) ==
    IF j > Len(name) THEN (IF c = PAD THEN j ELSE Fail) ELSE IF c = At(name, j) THEN j + 1 ELSE Fail
BaseChar(name, j, c, e) ==
    CASE c = " " /\ e.type = "file" -> (IF At(name, j) = "." THEN j ELSE IF At(name, j) = " " THEN j + 1 ELSE Fail)
      [] c = " " /\ e.type = "dir" -> (IF j < Len(name) /\ At(name, j) = " " THEN j + 1 ELSE IF j = Len(name) THEN j ELSE Fail)
      [] c \in Letters -> IF j < Len(name) /\ Lower(c, e.low) = At(name, j) THEN j + 1 ELSE Fail
      [] OTHER -> j + 1
ExtChar(name, j, c, e) == IF c \in Letters \cup {" "} /\ Lower(c, e.low) = At(name, j) THEN j + 1 ELSE Fail

Matched(one(_, _), from, chars) ==
    LET j[n \in 0..Len(chars)] == IF n = 0 THEN from ELSE LET k == j[n - 1] IN IF k = Fail THEN Fail ELSE one(k, chars[n])
    IN j[Len(chars)]

ShortMatch(name, e) ==
    \E j \in {Matched(LAMBDA k, c : BaseChar(name, k, c, e), 0, BaseOf(e))} :
      /\ j # Fail
      /\ e.type = "file" => Matched(LAMBDA k, c : ExtChar(name, k, c, e), j + 1, ExtOf(e)) # Fail

\* The parts one after the other, until one does not match or the name is used up; how
\* many there are.
Compared(i) ==
    LET others == {k \in 1..(PerCluster + 1) : Prev(i, k).type # "long" \/ Prev(i, k).deleted}
    IN Min(others \cup {PerCluster + 2}) - 1
After(name, i) ==
    LET n == Compared(i)
        f[k \in 0..n] == IF k = 0 THEN 0 ELSE IF f[k - 1] = Fail THEN Fail
                         ELSE Matched(LAMBDA j, c : LongChar(name, j, c), f[k - 1], Prev(i, k).chars)
    IN [k \in 1..n |-> f[k]]
Match(name, i) ==
    \E after \in {After(name, i)} :
      \E ends \in {{k \in DOMAIN after : after[k] = Fail \/ after[k] >= Len(name)}} :
        IF ends = {} THEN ShortMatch(name, dir[i]) ELSE after[Min(ends)] # Fail

Nothing == 0
FAT32_lookup(name) == Min({i \in DOMAIN dir : Live(i) /\ Match(name, i)} \cup {Len(dir) + 1}) % (Len(dir) + 1)

DirNext == FAT32_readdir \/ FAT32_readdir_fails

----------------------------------------------------------------------------
(* What is listed is what is there, and can be looked up.                   *)

CONSTANT Names      \* what is looked up

\* The files that were not deleted, with the entry each has.
End(k) == Len(Layout(SubSeq(names, 1, k)))
Kept == {k \in DOMAIN names : ~names[k].deleted}
Owner(i) == CHOOSE k \in Kept : End(k) = i
Plainly(f) ==   \* what the short name of a file is, written out
    LET low == [x \in DOMAIN f.base |-> Lower(f.base[x], f.low)] IN
    SelectSeq(low, LAMBDA c : c # " ")
    \o (IF f.type = "dir" \/ f.ext = Blank(Ext) THEN <<>>
        ELSE <<".">> \o SelectSeq([x \in DOMAIN f.ext |-> Lower(f.ext[x], f.low)], LAMBDA c : c # " "))
Title(f) == IF f.long = <<>> THEN Plainly(f) ELSE f.long

\* The parts of its name lie in another cluster than its entry, or in front of
\* its entry, the first of a cluster, lies what the memory held before.
Split(k) == Inside(End(k)) < Parts(names[k]) \/ (Inside(End(k)) = Parts(names[k]) /\ before # NotLong)
Sixth(k) == Parts(names[k]) >= 6

\* Every file is listed once, in order, whatever reads fail in between, and under
\* its name, unless that is split, has six parts or more, or is a short one in
\* lower case with something else than letters.
ListedOnce ==
    /\ \A a, b \in DOMAIN listed : a < b => listed[a].entry < listed[b].entry
    /\ {listed[a].entry : a \in DOMAIN listed} = {End(k) : k \in {m \in Kept : End(m) <= f_pos}}
Garbled(f) == f.long = <<>> /\ f.low /\ \E x \in 1..Base : f.base[x] \notin Letters \cup {" "}
Legible(k) == ~Split(k) /\ ~Sixth(k) /\ ~Garbled(names[k])
ListedTrue ==
    \A a \in DOMAIN listed : \E k \in {Owner(listed[a].entry)} : Legible(k) => listed[a].name = Title(names[k])

\* Short names that match no other, as every character of theirs is compared, and
\* those that match their own, as no blank of an extension is: with letters only.
Whole(f) == f.long # <<>> \/ \A c \in {f.base[x] : x \in 1..Base} : c \in Letters \cup {" "}
Findable(f) == f.long # <<>> \/ f.type = "dir" \/ \A c \in {f.ext[x] : x \in 1..Ext} : c \in Letters

\* What is listed can be opened: the name that was returned is found, unless it
\* was not the file's, or is a short name without a whole extension.
FoundAgain ==
    \A a \in DOMAIN listed : \E k \in {Owner(listed[a].entry)} :
      (Legible(k) /\ Findable(names[k])) => FAT32_lookup(listed[a].name) # Nothing

\* A file is found under its own name only, but for the start of a long name that
\* is made of whole parts; for a short one any character may stand for the dot, or
\* memory be read behind the end of the name, and more may follow; and but for
\* names that are split, and short ones with other characters than letters.
Starts(name, of) == Len(name) <= Len(of) /\ name = SubSeq(of, 1, Len(name))
Loosely(name, f) ==
    LET stem == Plainly([f EXCEPT !.type = "dir"])
        all == Plainly(f)
    IN /\ Starts(stem, name)
       /\ \/ stray # NUL /\ name = stem
          \/ \A x \in (Len(stem) + 2)..Len(all) : x <= Len(name) /\ name[x] = all[x]
NamedSo(name, k) ==
    \/ name = Title(names[k])
    \/ names[k].long # <<>> /\ Len(name) % Part = 0 /\ Starts(name, names[k].long)
    \/ names[k].long = <<>> /\ Loosely(name, names[k])
    \/ ~Whole(names[k])
    \/ Split(k)
FoundTrue ==
    f_pos = 0 => \A name \in Names : \E i \in {FAT32_lookup(name)} :
      /\ i # Nothing => NamedSo(name, Owner(i))
      /\ i = Nothing => \A k \in Kept : (~Split(k) /\ Findable(names[k])) => Title(names[k]) # name

NamesTrue == ListedOnce /\ ListedTrue /\ FoundAgain /\ FoundTrue
=============================================================================
