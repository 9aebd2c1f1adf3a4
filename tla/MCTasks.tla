------------------------------ MODULE MCTasks ------------------------------
(* The model-checking instances of Tasks.  A run starts in one of its       *)
(* Subjects and stays there.                                                *)
EXTENDS Tasks, TLC

CONSTANTS t1, t2, t3, t4, init, Subjects

VARIABLE subject    \* what this behaviour is about

Blocks3 == {t1, t2, t3}
Blocks4 == {t1, t2, t3, t4}

\* The blocks are interchangeable: Init chooses one and nothing orders them.
BlockSymmetry3 == Permutations(Blocks3)
BlockSymmetry4 == Permutations(Blocks4)

\* The accounting of the jz2440, for run times of up to two ticks and a slice
\* that is overdrawn by one.
TickedTasks == INSTANCE Tasks WITH TickAccounting <- TRUE, MaxVrun <- 4, MaxOverrun <- 2

suiteVars == <<vars, subject>>

\* With the accounting t4 stays unused: three tasks have run times enough, and
\* all unused blocks are alike, so that the symmetry holds as before.
SuiteInit ==
    /\ Init
    /\ subject \in Subjects
    /\ subject = "ticked" => t4 \notin allocated

Life == subject = "life" /\ Next /\ UNCHANGED subject
LifeTicked == subject = "ticked" /\ TickedTasks!Next /\ t4 \notin allocated' /\ UNCHANGED subject

SuiteNext == Life \/ LifeTicked

SuiteSpec == SuiteInit /\ [][SuiteNext]_suiteVars
FairSuiteSpec == SuiteSpec /\ Fairness
=============================================================================
