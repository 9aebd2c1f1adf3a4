-------------------------------- MODULE Card --------------------------------
(* Memory cards that come and go (sdcard.c), the disk and the block devices *)
(* made of them (disk.c, partition.c, mbr.c, block.c), and a task that      *)
(* mounts the first partition and reads from it (vfs.c).  The card is       *)
(* looked for by a timer, in the interrupt: what it does is one step for    *)
(* the task, and it comes between any two steps of the task.                *)
EXTENDS Naturals, Sequences, FiniteSets, FiniteSetsExt

CONSTANTS
    Cards,
    Partitions,     \* the partitions of each card
    Removable,      \* hci->removable
    MayFail,        \* whether malloc(), the card and register_block() may fail
    MaxBlocks,      \* bound: blocks of memory for struct block_t
    MaxMade         \* bound: partitions in memory, in a run where some are forgotten

CardAssumption ==
    /\ Partitions \in [Cards -> Nat]
    /\ {Removable, MayFail} \subseteq BOOLEAN
    /\ MaxBlocks \in Nat /\ \A c \in Cards : Partitions[c] <= MaxBlocks

VARIABLES
    slot,       \* the card in the slot
    armed,      \* whether the timer of sdcard_pdata_t is
    online,     \* sdcard_pdata_t.online
    disk,       \* whether the disk is registered
    part,       \* disk_t.part.entry: the block of each partition
    blocks,     \* the struct block_t in use: the card and the partition each is made for
    table,      \* the registered blocks
    task,       \* what the task is doing, and root_sb with the block it is read from
    wild,       \* history: a pointer that was never set has been freed
    made,       \* the struct partition_t in use
    failed,     \* history: malloc(), the card or register_block() has failed
    swapped,    \* history: a card was replaced between two looks
    pulled      \* history: a disk with the mounted block was unregistered
hvars == <<wild, made, failed, swapped, pulled>>
vars == <<slot, armed, online, disk, part, blocks, table, task, hvars>>

None == 0
Wild == MaxBlocks + 1   \* what an uninitialised pointer holds
Empty == "empty"
Block == 1..MaxBlocks
Unused == [card |-> Empty, part |-> 0]
NewTask == [at |-> "mount", blk |-> None, root |-> None, from |-> Empty]

Live(b) == b \in Block /\ blocks[b] # Unused

\* sdcard_probe(), and the init task in mount_fs()
Init ==
    /\ slot \in Cards \cup {Empty}
    /\ armed = TRUE /\ online = FALSE /\ disk = FALSE
    /\ part = <<>> /\ blocks = [b \in Block |-> Unused] /\ table = {}
    /\ task = NewTask
    /\ wild = FALSE /\ made = 0 /\ failed = FALSE /\ swapped = FALSE /\ pulled = FALSE

----------------------------------------------------------------------------
(* The disk                                                                 *)

\* mbr_map() makes a partition of every entry until there is no memory; blk is not set.
mbr_map(c) ==
    {[i \in 1..n |-> p] : n \in IF MayFail THEN 0..Partitions[c] ELSE {Partitions[c]}, p \in {None, Wild}}

\* partition_map() takes what is there, whether or not a map has succeeded.
partition_map(c) == mbr_map(c)

\* kmalloc() takes the lowest free places.
Used == {b \in Block : Live(b)}
RECURSIVE Places(_, _)
Places(n, used) ==
    IF n = 0 THEN <<>> ELSE LET b == Min(Block \ used) IN <<b>> \o Places(n - 1, used \cup {b})

BlocksOf(list) == {list[i] : i \in DOMAIN list} \cap Block
Made(c, ids) ==
    [b \in Block |-> IF b \in BlocksOf(ids) THEN [card |-> c, part |-> CHOOSE i \in DOMAIN ids : ids[i] = b]
                     ELSE blocks[b]]
Freed(list) == [b \in Block |-> IF b \in BlocksOf(list) THEN Unused ELSE blocks[b]]
register_block(list) == table \cup BlocksOf(list)
unregister_block(list) == table \ BlocksOf(list)

\* register_disk() when the memory for the device, or its name, is not to be had: the
\* partitions stay in a list that the next attempt starts anew.
NoDevice(list) ==
    /\ made + Len(list) <= MaxMade /\ made' = made + Len(list)
    /\ part' = list /\ failed' = TRUE
    /\ UNCHANGED <<online, disk, blocks, table, wild>>

\* register_disk() with a block for every partition.
register_disk_last(c, list) ==
    LET ids == Places(Len(list), Used) IN
    /\ part' = ids /\ made' = made + Len(ids)
    /\ blocks' = Made(c, ids)
    /\ table' = table \cup {ids[Len(ids)]}
    /\ disk' = TRUE /\ online' = TRUE
    /\ UNCHANGED <<wild, failed>>

register_disk(c, list) ==
    LET ids == Places(Len(list), Used) IN
    /\ made + Len(ids) <= MaxMade
    /\ part' = ids /\ made' = made + Len(ids)
    /\ blocks' = Made(c, ids)
    /\ table' = register_block(ids)
    /\ disk' = TRUE /\ online' = TRUE
    /\ UNCHANGED <<wild, failed>>

\* The block of partition i cannot be allocated or registered: unregister_disk() frees
\* the blocks before it and the partitions; the pointers after it are not set, nor is
\* that of i itself if malloc() has failed.
GiveUp(list, i, allocated) ==
    /\ wild' = (wild \/ \E j \in DOMAIN list : list[j] = Wild /\ (j > i \/ (j = i /\ ~allocated)))
    /\ part' = list /\ failed' = TRUE
    /\ UNCHANGED <<online, disk, blocks, table, made>>

unregister_disk(list) ==
    /\ part' = <<>>
    /\ blocks' = Freed(list) /\ made' = made - Len(list)
    /\ table' = unregister_block(list)
    /\ disk' = FALSE /\ online' = FALSE
    /\ UNCHANGED <<wild, failed>>

----------------------------------------------------------------------------
(* The timer, in the interrupt                                              *)

Nothing == UNCHANGED <<online, disk, part, blocks, table, wild, made, failed>>

\* A card that has not been seen: it does not answer, has no partitions, or becomes a disk.
Arrived(c) ==
    \/ MayFail /\ failed' = TRUE /\ UNCHANGED <<online, disk, part, blocks, table, wild, made>>
    \/ \E list \in partition_map(c) :
        \/ list = <<>> /\ part' = list /\ UNCHANGED <<online, disk, blocks, table, wild, made, failed>>
        \/ list # <<>> /\ register_disk(c, list)
        \/ MayFail /\ list # <<>> /\ NoDevice(list)
        \/ MayFail /\ \E i \in DOMAIN list, allocated \in BOOLEAN : GiveUp(list, i, allocated)

\* The mounted block, or the one that is read, goes.
Pulls == online /\ task.blk # None /\ task.blk \in BlocksOf(part)

sdcard_disk_timer_function ==
    /\ armed
    /\ CASE ~online /\ slot # Empty -> Arrived(slot)
         [] online /\ slot = Empty -> unregister_disk(part)
         [] online <=> slot # Empty -> Nothing
    /\ armed' = Removable
    /\ pulled' = (pulled \/ (Pulls /\ slot = Empty))
    /\ UNCHANGED <<slot, task, swapped>>

\* sdcard_remove(), of a driver that goes.
sdcard_remove ==
    /\ armed' = FALSE
    /\ IF online THEN unregister_disk(part) ELSE Nothing
    /\ pulled' = (pulled \/ Pulls)
    /\ UNCHANGED <<slot, task, swapped>>

----------------------------------------------------------------------------
(* The card and the task                                                    *)

Insert(c) ==
    /\ slot = Empty /\ slot' = c
    /\ swapped' = (swapped \/ online)
    /\ UNCHANGED <<armed, online, disk, part, blocks, table, task, wild, made, failed, pulled>>

Remove ==
    /\ slot # Empty /\ slot' = Empty
    /\ UNCHANGED <<armed, online, disk, part, blocks, table, task, hvars>>

Rest == <<slot, armed, online, disk, part, blocks, table, hvars>>

\* mount_fs() looks until the name of the first partition is there.
search_block ==
    /\ task.at = "mount"
    /\ \E b \in table :
        /\ blocks[b].part = 1
        /\ task' = [task EXCEPT !.at = "superblock", !.blk = b, !.from = blocks[b].card]
    /\ UNCHANGED Rest

\* read_superblock() uses the block; so does every block_read() of the file system after it.
read_superblock ==
    /\ task.at = "superblock"
    /\ task' = [task EXCEPT !.at = IF Live(task.blk) THEN "idle" ELSE "astray", !.root = task.blk]
    /\ UNCHANGED Rest

block_read ==
    /\ task.at = "idle"
    /\ task' = [task EXCEPT !.at = IF Live(task.root) THEN "io" ELSE "astray"]
    /\ UNCHANGED Rest

\* The disk is asked; the block is used again for the next part of the count.
disk_block_read ==
    /\ task.at = "io"
    /\ task' = [task EXCEPT !.at = IF Live(task.root) THEN "idle" ELSE "astray"]
    /\ UNCHANGED Rest

Next ==
    \/ sdcard_disk_timer_function \/ sdcard_remove
    \/ \E c \in Cards : Insert(c)
    \/ Remove
    \/ search_block \/ read_superblock \/ block_read \/ disk_block_read

Spec == Init /\ [][Next]_vars

----------------------------------------------------------------------------
(* What holds of the block devices while cards come and go.                 *)

TypeOK ==
    /\ slot \in Cards \cup {Empty}
    /\ {armed, online, disk, wild, failed, swapped, pulled} \subseteq BOOLEAN
    /\ \A i \in DOMAIN part : part[i] \in Block \cup {None, Wild}
    /\ \A b \in Block : blocks[b].card \in Cards \cup {Empty}
    /\ table \subseteq Block /\ made \in Nat
    /\ task.at \in {"mount", "superblock", "idle", "io", "astray"}

\* Between two interrupts the registered blocks are those of the partitions of the disk
\* that is online, each in memory that is in use, and without a disk there are none.
TableIsTheDisk ==
    /\ disk = online
    /\ \A b \in table : Live(b)
    /\ online => BlocksOf(part) = table
    /\ ~online => table = {} /\ Used = {}

\* As long as nothing has failed, no pointer that was never set is freed, and the
\* partitions in memory are those of the disk: an attempt to register a disk that fails
\* after its partitions are made frees what it finds in them or forgets them.
NoWildFree == wild => failed
PartitionsAccounted == made # Len(part) => failed

\* The task uses a block that was freed only after the disk it was on has gone, and it
\* goes only while it is mounted: nothing counts the users of a block.
FreedOnlyIfPulled == task.at = "astray" => pulled

\* The block the file system reads is the one it was mounted from, unless that was freed
\* and its memory is a block of another disk by now; and it is of the card in the slot,
\* unless two cards were swapped between two looks of the timer.
RightCard ==
    task.at \in {"idle", "io"} /\ Live(task.root) =>
        /\ blocks[task.root] = [card |-> task.from, part |-> 1] \/ pulled
        /\ slot # Empty => blocks[task.root].card = slot \/ swapped

BlocksKept == TypeOK /\ TableIsTheDisk /\ NoWildFree /\ PartitionsAccounted /\ FreedOnlyIfPulled /\ RightCard

\* A card that stays is found, a card that is taken out is forgotten, and the volume is
\* mounted as soon as there is one.
CardIsFound == <>[](armed /\ slot # Empty /\ Partitions[slot] > 0) => <>online
CardIsForgotten == (armed /\ slot = Empty) ~> (~online \/ slot # Empty \/ ~armed)
Mounted == <>[](armed /\ slot # Empty /\ Partitions[slot] > 0) => <>(task.at # "mount")
=============================================================================
