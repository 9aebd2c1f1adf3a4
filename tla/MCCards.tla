------------------------------ MODULE MCCards ------------------------------
(* The model-checking instances of the block devices: cards that come and   *)
(* go, reads and writes at any byte, the transfers of the host controller,  *)
(* and the detection of a card.  A run starts in one of the subjects and    *)
(* stays there.                                                             *)
EXTENDS Host, Integers, TLC

VARIABLES
    subject,
    slot, armed, online, disk, part, blocks, table, user, wild, made, failed, swapped, pulled,  \* Card
    media, op, pc, at, left, ret, p, buf, done, meant, raced, was, calls, faults,               \* BlockIo
    socket, rec, size, look, timeout, first, lost, inserts, before, missed, refused             \* Detect

cardVars == <<slot, armed, online, disk, part, blocks, table, user, wild, made, failed, swapped, pulled>>
blockVars == <<media, op, pc, at, left, ret, p, buf, done, meant, raced, was, calls, faults>>
detectVars == <<socket, rec, size, look, timeout, first, lost, inserts, before, missed, refused>>
suiteVars == <<cardVars, blockVars, hostvars, detectVars, subject>>

-----------------------------------------------------------------------------

CONSTANTS c1, c2, t1, t2

Swaps == INSTANCE Card WITH
    task <- user, Cards <- {c1, c2}, Partitions <- (c1 :> 2 @@ c2 :> 1), Removable <- TRUE, MayFail <- FALSE, MaxBlocks <- 2, MaxMade <- 4
Fails == INSTANCE Card WITH
    task <- user, Cards <- {c1, c2}, Partitions <- (c1 :> 2 @@ c2 :> 1), Removable <- TRUE, MayFail <- TRUE, MaxBlocks <- 2, MaxMade <- 4
Fixed == INSTANCE Card WITH
    task <- user, Cards <- {c1, c2}, Partitions <- (c1 :> 2 @@ c2 :> 1), Removable <- FALSE, MayFail <- TRUE, MaxBlocks <- 2, MaxMade <- 4

\* Every range of the partition, and some of the disk and of the romdisk; and for
\* two tasks, ranges in the same blocks and in blocks next to each other.
Ranges ==
    {<<k, "part", o, c>> : k \in {"read", "write"}, o \in 0..7, c \in 0..8}
    \cup {<<k, "disk", o, c>> : k \in {"read", "write"}, o \in {0, 1, 9}, c \in {1, 6, 12}}
    \cup {<<k, "rom", o, c>> : k \in {"read", "write"}, o \in {0, 1}, c \in {1, 4, 5}}
Neighbours ==
    {<<"write", "part", o, c>> : o \in {0, 1, 2}, c \in {1, 4}} \cup {<<"read", "part", 1, 4>>, <<"write", "disk", 3, 4>>}
Alone == INSTANCE BlockIo WITH
    Tasks <- {t1}, B <- 2, DiskBlocks <- 5, From <- 1, To <- 3, RomBlocks <- 2, MaxChunk <- 2, Ops <- Ranges, MaxCalls <- 2, MaxFaults <- 1
Both == INSTANCE BlockIo WITH
    Tasks <- {t1, t2}, B <- 2, DiskBlocks <- 5, From <- 1, To <- 3, RomBlocks <- 2, MaxChunk <- 2, Ops <- Neighbours, MaxCalls <- 2, MaxFaults <- 1

\* Of the transfers of the host: those of two tasks in any order, of one block each, and
\* those of one task, of up to three blocks; and all of them where no two cross.
Shared == INSTANCE Host WITH Counts <- {1}, Depth <- 1, MayPull <- FALSE, MayErr <- FALSE, Slow <- FALSE
Single == INSTANCE Host WITH Tasks <- {t1}
Turns == INSTANCE Host WITH Counts <- {1, 2}, MayPull <- FALSE

Sd(version, hc, csize, bl) ==
    [family |-> "sd", version |-> version, cmd8 |-> version = "SD_2", hc |-> hc, spec |-> 0, rev |-> 0,
     csize |-> csize, cmult |-> 1, bl |-> bl, wl |-> bl, ext |-> <<0, 0, 0, 0>>]
Mmc(version, spec, rev, hc, csize, wl, ext) ==
    [family |-> "mmc", version |-> version, cmd8 |-> FALSE, hc |-> hc, spec |-> spec, rev |-> rev,
     csize |-> csize, cmult |-> 0, bl |-> 9, wl |-> wl, ext |-> ext]
Known ==
    {Sd("SD_1_0", FALSE, 3, 9), Sd("SD_2", FALSE, 3, 10), Sd("SD_2", TRUE, 2, 9),
     Mmc("MMC_1_2", 0, 0, FALSE, 3, 9, <<0, 0, 0, 0>>), Mmc("MMC_3", 3, 0, FALSE, 3, 9, <<0, 0, 0, 0>>), Mmc("MMC_2_2", 2, 0, FALSE, 1, 8, <<0, 0, 0, 0>>),
     Mmc("MMC_4_2", 4, 2, TRUE, 0, 9, <<1, 2, 3, 1>>), Mmc("MMC_4", 4, 4, TRUE, 0, 9, <<1, 2, 3, 1>>),
     Mmc("MMC_4_41", 4, 5, TRUE, 0, 9, <<1, 0, 0, 1>>), Mmc("MMC_5_1", 4, 8, TRUE, 0, 10, <<0, 0, 0, 2>>)}
Slot == INSTANCE Detect WITH
    slot <- socket, disk <- size, pc <- look, faults <- lost, failed <- refused,
    Kinds <- Known, Timeout <- 2, Slow <- {0, 1, 2, 3}, MaxFaults <- 1, MaxInserts <- 2

ASSUME
    /\ Swaps!CardAssumption /\ Alone!BlockIoAssumption /\ Both!BlockIoAssumption
    /\ Slot!DetectAssumption

-----------------------------------------------------------------------------

CONSTANT Subjects

\* What a subject is not about has one initial state.
Parked(subjects, state) == IF subject \in subjects THEN TRUE ELSE state
SuiteInit ==
    /\ subject \in Subjects
    /\ Parked({"swaps", "fails", "fixed"}, slot = "empty") /\ Swaps!Init
    /\ IF subject = "both" THEN Both!Init ELSE Alone!Init
    /\ HostInit
    /\ Slot!Init

CardStep ==
    \/ subject = "swaps" /\ Swaps!Next
    \/ subject = "fails" /\ Fails!Next
    \/ subject = "fixed" /\ Fixed!Next
BlockStep ==
    \/ subject = "alone" /\ Alone!Next
    \/ subject = "both" /\ Both!Next
HostStep ==
    \/ subject = "shared" /\ Shared!HostNext
    \/ subject = "single" /\ Single!HostNext
    \/ subject = "turns" /\ Turns!HostNext /\ ~crossed'
SuiteNext ==
    \/ CardStep /\ UNCHANGED <<blockVars, hostvars, detectVars, subject>>
    \/ BlockStep /\ UNCHANGED <<cardVars, hostvars, detectVars, subject>>
    \/ HostStep /\ UNCHANGED <<cardVars, blockVars, detectVars, subject>>
    \/ subject = "slot" /\ Slot!Next /\ UNCHANGED <<cardVars, blockVars, hostvars, subject>>

\* The timer is served, the tasks run again, the controller and the card answer.
Looks == subject = "swaps" /\ Swaps!sdcard_disk_timer_function
Mounts == subject = "swaps" /\ (Swaps!search_block \/ Swaps!read_superblock)
Moves == subject = "single" /\ ~panic /\ Controller
Polls == subject = "single" /\ ~panic /\ Single!TaskStep(t1)
Detects == subject = "slot" /\ (Slot!Look \/ Slot!Detect)
SuiteSpec ==
    /\ SuiteInit /\ [][SuiteNext]_suiteVars
    /\ WF_suiteVars(Looks /\ UNCHANGED <<blockVars, hostvars, detectVars, subject>>)
    /\ WF_suiteVars(Mounts /\ UNCHANGED <<blockVars, hostvars, detectVars, subject>>)
    /\ WF_suiteVars(Moves /\ UNCHANGED <<cardVars, blockVars, detectVars, subject>>)
    /\ WF_suiteVars(Polls /\ UNCHANGED <<cardVars, blockVars, detectVars, subject>>)
    /\ WF_suiteVars(Detects /\ UNCHANGED <<cardVars, blockVars, hostvars, subject>>)

-----------------------------------------------------------------------------

\* The registered blocks are those of the card that was found, and a task uses no
\* other but where a card was pulled; and a volume is an array of bytes, of which a
\* read returns what was there and a write leaves what it was not given.
BlocksTrue ==
    /\ subject \in {"swaps", "fails", "fixed"} => Swaps!BlocksKept
    /\ subject = "alone" => Alone!BytesTrue
    /\ subject = "both" => Both!BytesTrue

\* A card that is found is known for what it is.
CardKnown == subject = "slot" => Slot!CardKnown

\* A byte changes only where a call was told to write, and a transfer starts with
\* nothing of the one before.
OnlyAsTold ==
    [][ /\ subject = "alone" => Alone!WritesInRange
        /\ subject = "both" => Both!WritesInRange
        /\ StartsClean ]_suiteVars

\* A card that stays is found and mounted, one that is taken out is forgotten, and
\* every transfer ends.
Settles ==
    /\ subject = "swaps" => Swaps!CardIsFound /\ Swaps!Mounted /\ Swaps!CardIsForgotten
    /\ subject = "single" => Single!Ends
    /\ subject = "slot" => Slot!Found
=============================================================================
