------------------------------ MODULE MCFiles ------------------------------
(* The model-checking instances of the files: the FAT32 volume with one     *)
(* task, with accesses that fail and with two tasks, the names in one of    *)
(* its directories, the walk along a path with one task and with two, and   *)
(* the open files and the memory of the tasks (TaskMm).  A run starts in    *)
(* one of the subjects and stays there.                                     *)
EXTENDS TaskMm, TLC

VARIABLES
    subject,
    fat, dirent, inode, access, astray, failed, unmarked, crashed, clashed, \* Fat: the volume
    names, dir, before, stray, f_pos, listed, fails,                \* Fat: a directory
    dentry, next, walk, opened, refound, mistaken, raced            \* Vfs

volumeVars == <<fat, dirent, inode, access, astray, failed, unmarked, crashed, clashed>>
nameVars == <<names, dir, before, stray, f_pos, listed, fails>>
walkVars == <<dentry, next, walk, opened, refound, mistaken, raced>>
suiteVars == <<volumeVars, nameVars, walkVars, vars, subject>>

-----------------------------------------------------------------------------

CONSTANTS
    t1, t2, a, b,
    Base, Ext, Part, PerCluster, MaxFiles, MaxFails     \* the names of a directory

Plain(base, ext, low) == [long |-> <<>>, base |-> base, ext |-> ext, type |-> "file", low |-> low, deleted |-> FALSE]
Folder(base, low) == [Plain(base, <<" ", " ">>, low) EXCEPT !.type = "dir"]
Long(long, deleted) == [Plain(<<"A", "-">>, <<"A", " ">>, FALSE) EXCEPT !.long = long, !.deleted = deleted]
Many(n) == [x \in 1..n |-> "a"]
OnCard ==
    {Plain(base, ext, FALSE) : base \in {<<"A", " ">>, <<"A", "-">>}, ext \in {<<" ", " ">>, <<"A", " ">>, <<"A", "A">>}}
    \cup {Plain(<<"A", "A">>, <<"A", "B">>, TRUE), Plain(<<"A", "-">>, <<"A", "A">>, TRUE), Folder(<<"A", " ">>, FALSE), Folder(<<"A", "B">>, TRUE)}
    \cup {Long(Many(1), FALSE), Long(Many(2), FALSE), Long(Many(3), TRUE), Long(Many(1) \o <<".">> \o Many(2), FALSE),
          Long(Many(3) \o <<".">> \o Many(1), FALSE), Long(Many(9) \o <<".">> \o Many(1), FALSE)}
Names == UNION {[1..n -> {"a", "A", "-", "."}] : n \in 1..3}
            \cup {Many(3) \o <<".">> \o Many(1), Many(1) \o <<".">> \o Many(2), <<"A", "A", ".", "A", "A">>, <<"A", "-", ".", "A">>}

Volume == INSTANCE Fat WITH
    task <- access, Tasks <- {t1}, Files <- {a, b}, MaxCluster <- 5, PerSector <- 3, Bpc <- 2, Longest <- 5, MayFail <- FALSE, MayCrash <- TRUE
Faults == INSTANCE Fat WITH
    task <- access, Tasks <- {t1}, Files <- {a, b}, MaxCluster <- 4, PerSector <- 3, Bpc <- 2, Longest <- 2, MayFail <- TRUE, MayCrash <- FALSE
Sharers == INSTANCE Fat WITH
    task <- access, Tasks <- {t1, t2}, Files <- {a, b}, MaxCluster <- 4, PerSector <- 3, Bpc <- 2, Longest <- 1, MayFail <- FALSE, MayCrash <- FALSE

\* A directory with two files, and next to it a file whose name starts with its name.
OnDisk == "root" :> ("a" :> "A" @@ "ab" :> "F") @@ "A" :> ("b" :> "G" @@ "c" :> "H")
Walker == INSTANCE Vfs WITH
    task <- walk, files <- opened, Tasks <- {t1}, Tree <- OnDisk, StartsWith <- {<<"a", "ab">>}, TASK_FILE_MAX <- 1, MaxDentries <- 4,
    Paths <- {<<"a">>, <<"ab">>, <<"a", "b">>, <<"a", "c">>, <<"x">>, <<".", "ab">>, <<"a", "..", "ab">>}
Walkers == INSTANCE Vfs WITH
    task <- walk, files <- opened, Tasks <- {t1, t2}, Tree <- OnDisk, StartsWith <- {<<"a", "ab">>}, TASK_FILE_MAX <- 1, MaxDentries <- 3,
    Paths <- {<<"ab">>, <<"a", "b">>}

ASSUME
    /\ Volume!FatAssumption /\ Faults!FatAssumption /\ Sharers!FatAssumption
    /\ Volume!NamesAssumption /\ Walker!VfsAssumption /\ Walkers!VfsAssumption

-----------------------------------------------------------------------------

CONSTANT Subjects

\* What a subject is not about has one initial state.
Parked(subjects, state) == IF subject \in subjects THEN TRUE ELSE state
SuiteInit ==
    /\ subject \in Subjects /\ Init
    /\ IF subject = "sharers" THEN Sharers!Init ELSE IF subject = "faults" THEN Faults!Init ELSE Volume!Init
    /\ Parked({"directory"}, names = <<Long(Many(1), FALSE)>> /\ before = Volume!NotLong /\ stray = Volume!NUL) /\ Volume!DirInit
    /\ IF subject = "walkers" THEN Walkers!Init ELSE Walker!Init

VolumeStep ==
    \/ subject = "volume" /\ Volume!Next
    \/ subject = "faults" /\ Faults!Next
    \/ subject = "sharers" /\ Sharers!Next
WalkStep ==
    \/ subject = "walker" /\ Walker!Next
    \/ subject = "walkers" /\ Walkers!Next
SuiteNext ==
    \/ VolumeStep /\ UNCHANGED <<nameVars, walkVars, vars, subject>>
    \/ subject = "directory" /\ Volume!DirNext /\ UNCHANGED <<volumeVars, walkVars, vars, subject>>
    \/ WalkStep /\ UNCHANGED <<volumeVars, nameVars, vars, subject>>
    \/ subject = "memory" /\ Next /\ UNCHANGED <<volumeVars, nameVars, walkVars, subject>>

\* The scheduler runs every task again, and the device answers.
Accesses ==
    \/ subject = "volume" /\ Volume!Access(t1) /\ clashed' = Volume!Clash'
    \/ subject = "faults" /\ Faults!Access(t1) /\ clashed' = Faults!Clash'
Walks == subject = "walker" /\ Walker!Step(t1)
SuiteSpec ==
    /\ SuiteInit /\ [][SuiteNext]_suiteVars
    /\ WF_suiteVars(Accesses /\ UNCHANGED <<nameVars, walkVars, vars, subject>>)
    /\ WF_suiteVars(Walks /\ UNCHANGED <<volumeVars, nameVars, vars, subject>>)

-----------------------------------------------------------------------------

\* On the volume no two files share a cluster, nothing is lost, both copies of the
\* table agree and no file is longer than its chain: with the power cut at any moment,
\* with a card that fails and with two tasks, as far as each of the parts says.
VolumeSound ==
    /\ subject = "volume" => Volume!Sound
    /\ subject = "faults" => Faults!Sound
    /\ subject = "sharers" => Sharers!Sound

\* A task's calls take nothing out of the table and leave other files' entries alone;
\* a new dentry takes no other out of its ring.
OnlyItsOwn ==
    [][ /\ subject = "volume" => Volume!LeavesOthers
        /\ subject = "faults" => Faults!LeavesOthers
        /\ subject = "sharers" => Sharers!LeavesOthers
        /\ subject = "walker" => Walker!TakesNothing
        /\ subject = "walkers" => Walkers!TakesNothing ]_suiteVars

\* What a directory lists is what is in it, and what is listed is found; and a walk
\* ends at its file, and leaves the tree of dentries whole, until a dentry is found a
\* second time.
PathsRight ==
    /\ subject = "directory" => Volume!NamesTrue
    /\ subject = "walker" => Walker!WalksRight
    /\ subject = "walkers" => Walkers!WalksRight

\* Every read and write comes to its end, or the power is cut; every walk ends, or spins.
CallsEnd ==
    /\ subject \in {"volume", "faults"} => []<>(access[t1].at = "idle")
    /\ subject = "walker" => []<>(walk[t1].at \in {"idle", "spins", "astray"})
=============================================================================
