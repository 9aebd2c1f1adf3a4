-------------------------------- MODULE Host --------------------------------
(* The SD host controller (sdhci-xl00500.c) as read and written by tasks    *)
(* through mmc_read_blocks() and mmc_write_blocks() (sdcard.c).  The driver *)
(* polls the registers and takes no lock: a task can be preempted between   *)
(* any two of its accesses, and another one then finds the registers as     *)
(* they are.  The controller and the card are external.                     *)
EXTENDS Naturals, Sequences, FiniteSets, Functions

CONSTANTS
    Tasks,
    Counts,         \* the numbers of blocks in one transfer
    Depth,          \* bound: blocks the FIFO holds
    MayPull,        \* whether the card may be pulled
    MayErr,         \* whether a transfer may end with an error of its data
    Slow            \* whether the card may need longer than SDMMC_TIMEOUT

ASSUME HostAssumption ==
    /\ Counts \subseteq Nat \ {0} /\ Depth \in Nat \ {0}
    /\ {MayPull, MayErr, Slow} \subseteq BOOLEAN

VARIABLES
    byt,        \* BYTCNT, in blocks
    sts,        \* RINTSTS
    cmd,        \* the command that is loaded and has had no response
    mover,      \* the transfer of data in progress
    fifo,       \* the FIFO: for each block, the task whose command it belongs to
    card,       \* the state of the card: "tran", "data", "rcv" or "gone"
    medium,     \* the blocks of the card each task writes: whose data they got last
    task,       \* for each task, where it is in its transfer
    panic,      \* an assertion of the driver has failed
    crossed,    \* history: a task set up a transfer while another was in one
    unstopped,  \* history: a transfer of several blocks has not been stopped
    stale,      \* history: a transfer that failed has left blocks in the FIFO
    early,      \* history: a task was done before the controller was
    erred       \* history: a transfer has ended with an error of its data
ctl == <<byt, sts, cmd, mover, fifo, card, medium>>
hvars == <<crossed, unstopped, stale, early, erred>>
hostvars == <<ctl, task, panic, hvars>>

Nothing == [by |-> "nobody"]
Idle == [at |-> "idle", kind |-> "none", n |-> 0, want |-> 0, got |-> <<>>, res |-> "none"]
Busy == mover # Nothing
Errors == {"ERR"}       \* DRTO, EBE, SBE and DCRC

HostInit ==
    /\ byt = 0 /\ sts = {} /\ cmd = Nothing /\ mover = Nothing /\ fifo = <<>> /\ card = "tran"
    /\ medium = [t \in Tasks |-> <<>>]
    /\ task = [t \in Tasks |-> Idle] /\ panic = FALSE
    /\ crossed = FALSE /\ unstopped = FALSE /\ stale = FALSE /\ early = FALSE /\ erred = FALSE

----------------------------------------------------------------------------
(* The task: each step is one access to a register                          *)

Goto(t, at) == task' = [task EXCEPT ![t].at = at]
Finish(t, res) == task' = [task EXCEPT ![t] = [@ EXCEPT !.at = "idle", !.res = res]]
\* A transfer of several blocks that fails, and a write that does not, leaves the card in
\* it, and one that fails with blocks in the FIFO leaves them there: nothing empties it.
GiveUp(t) ==
    /\ Finish(t, "fail")
    /\ unstopped' = (unstopped \/ task[t].n > 1) /\ stale' = (stale \/ fifo # <<>>)
Inside(t) == task[t].at \notin {"idle", "wait"}
Intrudes(t) == \E u \in Tasks \ {t} : Inside(u)

\* sdcard_disk_read() and sdcard_disk_write() on one chunk
Begin(t) ==
    /\ task[t].at = "idle"
    /\ \E kind \in {"read", "write"}, n \in Counts :
         task' = [task EXCEPT ![t] = [at |-> "wait", kind |-> kind, n |-> n, want |-> n,
                                      got |-> <<>>, res |-> "none"]]
    /\ UNCHANGED <<ctl, panic, hvars>>

\* xl00500_transfer_data(): there is no limit to this loop.
Wait(t) ==
    /\ task[t].at = "wait" /\ ~Busy
    /\ Goto(t, "count") /\ crossed' = (crossed \/ Intrudes(t))
    /\ UNCHANGED <<ctl, panic, unstopped, stale, early, erred>>

Count(t) ==
    /\ task[t].at = "count" /\ byt' = task[t].n /\ Goto(t, "clear")
    /\ UNCHANGED <<sts, cmd, mover, fifo, card, medium, panic, hvars>>

\* __transfer_command(): all bits are cleared, the command is written until it is taken
Clear(t, at, next) ==
    /\ task[t].at = at /\ sts' = {} /\ Goto(t, next)
    /\ UNCHANGED <<byt, cmd, mover, fifo, card, medium, panic, hvars>>
Load(t, at, next, kind) ==
    /\ task[t].at = at /\ cmd = Nothing
    /\ cmd' = [by |-> t, kind |-> kind, n |-> task[t].n] /\ Goto(t, next)
    /\ UNCHANGED <<byt, sts, mover, fifo, card, medium, panic, hvars>>

\* The response; a task whose response was cleared by another one gives up.
Answered == "CD" \in sts
NoAnswer == ~Answered /\ cmd = Nothing
Response(t) ==
    /\ task[t].at = "cd" /\ (Answered \/ NoAnswer)
    /\ IF Answered /\ "RTO" \notin sts THEN Goto(t, task[t].kind) /\ UNCHANGED <<unstopped, stale>>
       ELSE GiveUp(t)
    /\ UNCHANGED <<ctl, panic, crossed, early, erred>>

\* read_bytes(): blocks are taken when RXDR or DTO says so, and RXDR is cleared after that.
Take_two(t) ==
    /\ task[t].at = "read" /\ fifo # <<>> /\ task[t].want > 0
    /\ task' = [task EXCEPT ![t] = [task[t] EXCEPT !.at = "ack", !.want = 0, !.got = Append(@, Head(fifo))]]
    /\ fifo' = Tail(fifo)
    /\ UNCHANGED <<byt, sts, cmd, mover, card, medium, panic, hvars>>
Take(t) ==
    /\ task[t].at = "read" /\ sts \cap {"RXDR", "DTO"} # {} /\ fifo # <<>> /\ task[t].want > 0
    /\ fifo' = Tail(fifo)
    /\ task' = [task EXCEPT ![t] = [task[t] EXCEPT !.at = "ack", !.want = @ - 1, !.got = Append(@, Head(fifo))]]
    /\ UNCHANGED <<byt, sts, cmd, mover, card, medium, panic, hvars>>
Ack(t) ==
    /\ task[t].at = "ack" /\ sts' = sts \ {"RXDR"} /\ Goto(t, "poll")
    /\ UNCHANGED <<byt, cmd, mover, fifo, card, medium, panic, hvars>>
\* An error ends it; so does the last block, whether or not the controller is done.
Poll(t) ==
    /\ task[t].at \in {"read", "poll"}
    /\ IF sts \cap Errors # {} THEN GiveUp(t) /\ UNCHANGED sts
       ELSE IF task[t].want = 0 THEN Goto(t, "drained") /\ sts' = sts \ {"DTO"} /\ UNCHANGED <<unstopped, stale>>
       ELSE task[t].at = "poll" /\ Goto(t, "read") /\ UNCHANGED <<sts, unstopped, stale>>
    /\ UNCHANGED <<byt, cmd, mover, fifo, card, medium, panic, crossed, early, erred>>
Drained(t) ==
    /\ task[t].at = "drained"
    /\ panic' = (fifo # <<>>)
    /\ early' = (early \/ Busy)
    /\ IF task[t].n > 1 THEN Goto(t, "flush") ELSE Finish(t, "ok")
    /\ UNCHANGED <<ctl, crossed, unstopped, stale, erred>>
Flush(t) ==
    /\ task[t].at = "flush" /\ ~Busy
    /\ IF task[t].kind = "read" THEN Goto(t, "stop") ELSE Finish(t, "ok")
    /\ UNCHANGED <<ctl, panic, hvars>>
\* MMC_STOP_TRANSMISSION, after a read of several blocks only
Stopped(t) ==
    /\ task[t].at = "stopped" /\ (Answered \/ NoAnswer)
    /\ Finish(t, IF Answered /\ "RTO" \notin sts THEN "ok" ELSE "fail")
    /\ UNCHANGED <<ctl, panic, hvars>>

\* write_bytes()
Write(t) ==
    /\ task[t].at = "write" /\ sts' = sts \ {"CD"} /\ Goto(t, "fill")
    /\ UNCHANGED <<byt, cmd, mover, fifo, card, medium, panic, hvars>>
Fill(t) ==
    /\ task[t].at = "fill"
    /\ IF sts \cap Errors # {} THEN GiveUp(t) /\ UNCHANGED <<sts, fifo>>
       ELSE IF task[t].want = 0 THEN Goto(t, "dto") /\ UNCHANGED <<sts, fifo, unstopped, stale>>
       ELSE /\ "TXDR" \in sts
            /\ fifo' = Append(fifo, t) /\ sts' = sts \ {"TXDR"}
            /\ task' = [task EXCEPT ![t].want = @ - 1]
            /\ UNCHANGED <<unstopped, stale>>
    /\ UNCHANGED <<byt, cmd, mover, card, medium, panic, crossed, early, erred>>
\* The end of the data, or of the patience of the loop: SDMMC_TIMEOUT is taken for done.
Dto(t) ==
    /\ task[t].at = "dto" /\ ("DTO" \in sts \/ ~Busy \/ Slow)
    /\ sts' = sts \ {"DTO"} /\ early' = (early \/ Busy)
    /\ IF sts \cap Errors # {} THEN GiveUp(t) /\ UNCHANGED panic
       ELSE /\ panic' = (fifo # <<>>)
            /\ IF task[t].n > 1 THEN Goto(t, "flush") /\ unstopped' = TRUE /\ UNCHANGED stale
               ELSE Finish(t, "ok") /\ UNCHANGED <<unstopped, stale>>
    /\ UNCHANGED <<byt, cmd, mover, fifo, card, medium, crossed, erred>>

TaskStep(t) ==
    \/ Wait(t) \/ Count(t) \/ Clear(t, "clear", "cmd") \/ Load(t, "cmd", "cd", task[t].kind)
    \/ Response(t) \/ Take(t) \/ Ack(t) \/ Poll(t) \/ Drained(t) \/ Flush(t)
    \/ Clear(t, "stop", "stopcmd") \/ Load(t, "stopcmd", "stopped", "stop") \/ Stopped(t)
    \/ Write(t) \/ Fill(t) \/ Dto(t)

----------------------------------------------------------------------------
(* The controller and the card (external)                                   *)

\* A command that finds the card in another state than it is for has no response.
\* MMC_STOP_TRANSMISSION ends what is going on, any other one waits for its end.
Respond ==
    /\ cmd # Nothing /\ (cmd.kind # "stop" => ~Busy)
    /\ cmd' = Nothing
    /\ CASE cmd.kind = "stop" /\ card \in {"data", "rcv"} ->
              card' = "tran" /\ mover' = Nothing /\ sts' = sts \cup {"CD"} /\ UNCHANGED medium
         [] cmd.kind # "stop" /\ card = "tran" ->
              /\ card' = IF cmd.kind = "read" THEN "data" ELSE "rcv"
              /\ mover' = [by |-> cmd.by, kind |-> cmd.kind, n |-> cmd.n, left |-> byt,
                            supply |-> IF cmd.n = 1 THEN 1 ELSE byt]
              /\ medium' = IF cmd.kind = "read" THEN medium ELSE [medium EXCEPT ![cmd.by] = <<>>]
              /\ sts' = sts \cup {"CD"}
         [] OTHER -> sts' = sts \cup {"CD", "RTO"} /\ UNCHANGED <<card, mover, medium>>
    /\ UNCHANGED <<byt, fifo, task, panic, hvars>>

\* The card sends or takes the blocks of its command, the controller counts those of BYTCNT.
HasMore == card # "gone" /\ mover.left > 0 /\ mover.supply > 0
Counted == [mover EXCEPT !.left = @ - 1, !.supply = @ - 1]
Send ==
    /\ mover.kind = "read" /\ Len(fifo) < Depth
    /\ fifo' = Append(fifo, mover.by) /\ sts' = sts \cup {"RXDR"} /\ mover' = Counted
    /\ UNCHANGED medium
Receive ==
    /\ mover.kind = "write" /\ fifo # <<>>
    /\ fifo' = Tail(fifo) /\ mover' = Counted
    /\ medium' = [medium EXCEPT ![mover.by] = Append(@, Head(fifo))]
    /\ UNCHANGED sts
Request ==
    /\ mover.kind = "write" /\ fifo = <<>> /\ "TXDR" \notin sts
    /\ sts' = sts \cup {"TXDR"} /\ UNCHANGED <<fifo, mover, medium>>
Move ==
    /\ Busy /\ HasMore
    /\ Send \/ Receive \/ Request
    /\ UNCHANGED <<byt, cmd, card, task, panic, hvars>>
End ==
    /\ Busy /\ ~HasMore
    /\ mover' = Nothing
    /\ \E bad \in BOOLEAN :
         /\ bad => MayErr \/ mover.left > 0
         /\ mover.left > 0 => bad
         /\ sts' = sts \cup {"DTO"} \cup IF bad THEN Errors ELSE {}
         /\ erred' = (erred \/ bad)
    /\ card' = IF card # "gone" /\ mover.n = 1 THEN "tran" ELSE card
    /\ UNCHANGED <<byt, cmd, fifo, task, medium, panic, crossed, unstopped, stale, early>>
Pull ==
    /\ MayPull /\ card # "gone" /\ card' = "gone"
    /\ UNCHANGED <<byt, sts, cmd, mover, fifo, task, medium, panic, hvars>>

Controller == Respond \/ Move \/ End
HostNext == ~panic /\ ((\E t \in Tasks : Begin(t) \/ TaskStep(t)) \/ Controller \/ Pull)
HostSpec == HostInit /\ [][HostNext]_hostvars

----------------------------------------------------------------------------
(* What the tasks get from the controller they share.                       *)

Kinds == {"read", "write"}
Flags == {"CD", "RTO", "RXDR", "TXDR", "DTO"} \cup Errors
Places ==
    {"idle", "wait", "count", "clear", "cmd", "cd", "read", "ack", "poll", "drained", "flush",
     "stop", "stopcmd", "stopped", "write", "fill", "dto"}

\* Registers, FIFO and tasks hold what they are for.
HostTypeOK ==
    /\ byt \in {0} \cup Counts /\ sts \subseteq Flags
    /\ cmd \in {Nothing} \cup [by : Tasks, kind : Kinds \cup {"stop"}, n : Counts]
    /\ mover \in {Nothing} \cup [by : Tasks, kind : Kinds, n : Counts, left : Nat, supply : Nat]
    /\ fifo \in Seq(Tasks) /\ medium \in [Tasks -> Seq(Tasks)]
    /\ card \in {"tran", "data", "rcv", "gone"}
    /\ task \in [Tasks -> [at : Places, kind : Kinds \cup {"none"}, n : Nat, want : Nat,
                           got : Seq(Tasks), res : {"none", "ok", "fail"}]]
    /\ {panic, crossed, unstopped, stale, early, erred} \subseteq BOOLEAN

Whole(t) == [i \in 1..task[t].n |-> t]
Done(t, kind) == task[t].at = "idle" /\ task[t].kind = kind /\ task[t].res = "ok"

\* A read that succeeds has returned the blocks that were asked for, in spite of the
\* registers, flags and FIFO that the tasks share without a lock, as long as no task has
\* set up a transfer inside another one's and none that failed has left blocks in the FIFO.
ReadIsItsOwn == \A t \in Tasks : Done(t, "read") => task[t].got = Whole(t) \/ crossed \/ stale

\* A write that succeeds is on the card, unless the end was not waited for.
WriteIsDone == \A t \in Tasks : Done(t, "write") => medium[t] = Whole(t) \/ crossed \/ stale \/ early

\* The assertions of read_bytes() and write_bytes() on the FIFO fail only when two
\* transfers cross, when the card is still busy at SDMMC_TIMEOUT, or behind blocks that a
\* transfer that failed has left.
PanicsOnlyIfCrossed == panic => crossed \/ stale \/ early

\* So do those that the FIFO has not run over.
RunsOverOnlyIfCrossed == Len(fifo) <= Depth \/ crossed

\* After a transfer the card takes the next one: it is left in the middle of data only
\* by a transfer of several blocks without the command that stops it.
ReadyAgain ==
    (\A t \in Tasks : task[t].at = "idle") /\ cmd = Nothing /\ ~Busy =>
        card \in {"tran", "gone"} \/ unstopped \/ crossed

\* With a card that stays and makes no errors, a transfer fails only after two have
\* crossed, or after one of several blocks that was not stopped.
FailsNotAlone ==
    \A t \in Tasks : task[t].res = "fail" => card = "gone" \/ erred \/ crossed \/ unstopped

TransfersTrue ==
    /\ HostTypeOK
    /\ ReadIsItsOwn /\ WriteIsDone
    /\ PanicsOnlyIfCrossed /\ RunsOverOnlyIfCrossed
    /\ ReadyAgain /\ FailsNotAlone

\* A transfer of one task alone is free of the errors of the next: the FIFO and the
\* flags that it starts with are clear when its command is taken, whatever the one before
\* it has left, unless it was blocks in the FIFO.
StartsClean == Busy' /\ ~Busy /\ ~crossed => "DTO" \notin sts /\ (fifo = <<>> \/ stale)

\* Every transfer comes to an end, the card pulled or not, as long as none was left in the
\* middle: in read_bytes() and in xl00500_transfer_data() no time limit sees to that.
Ends == \A t \in Tasks : task[t].at # "idle" ~> (task[t].at = "idle" \/ crossed \/ unstopped \/ stale \/ panic)
=============================================================================
