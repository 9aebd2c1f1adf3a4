------------------------------ MODULE MCTimer ------------------------------
(* The model-checking instances of Timer and Clocksource.  A run starts in  *)
(* one of the subjects and stays there.                                     *)
EXTENDS Timer, Clocksource

CONSTANT MaxTime    \* bound: the time at which "prompt" stops

VARIABLES
    subject,
    clock2, timer2, base2, ce2, calls2, handler2    \* those of "ever"

\* For ever, with tasks that read the clock and start their timer too late.
Ever == INSTANCE Timer WITH
    clock <- clock2, timer <- timer2, base <- base2, ce <- ce2, calls <- calls2, handler <- handler2,
    Intervals <- {2}, KeeperInterval <- 4, MinDelta <- 2, MaxDelta <- 3, Ahead <- 2, Prompt <- FALSE

ASSUME Ever!TimerAssumption

everVars == <<clock2, timer2, base2, ce2, calls2, handler2>>
suiteVars == <<vars, everVars, clockVars, subject>>

\* What "source" is about has one initial state in the others.
SuiteInit ==
    /\ subject \in {"prompt", "ever", "source"}
    /\ Init /\ Ever!Init /\ ClockInit
    /\ subject # "source" => hz = 8

PromptStep == subject = "prompt" /\ Next /\ clock' <= MaxTime /\ UNCHANGED <<everVars, clockVars, subject>>
EverStep == subject = "ever" /\ Ever!EverNext /\ UNCHANGED <<vars, clockVars, subject>>
SourceStep == subject = "source" /\ ClockNext /\ UNCHANGED <<vars, everVars, subject>>

SuiteNext == PromptStep \/ EverStep \/ SourceStep

\* Time goes on, the counter counts, interrupts are not masked for ever and
\* the handler runs to its end.
IsEver == subject = "ever" /\ UNCHANGED <<vars, clockVars, subject>>
SuiteSpec ==
    /\ SuiteInit /\ [][SuiteNext]_suiteVars
    /\ WF_suiteVars(IsEver /\ Ever!RebasedTick) /\ WF_suiteVars(IsEver /\ Ever!expire)
    /\ WF_suiteVars(IsEver /\ Ever!interrupt) /\ WF_suiteVars(IsEver /\ Ever!timer_event_handler)

-----------------------------------------------------------------------------

\* With tasks that start timers too late the counter still never stops, and
\* however late a timer was started, it is called back once it has expired.
LateIsCalled == subject = "ever" => []Ever!NeverStops /\ Ever!ExpiredIsCalled

=============================================================================
