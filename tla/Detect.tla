------------------------------- MODULE Detect -------------------------------
(* How sdcard_detect() finds out what is in the slot: the commands of       *)
(* sdcard.c one after the other, the card that answers them or does not,    *)
(* and the record that one card leaves to the next.  The host is not SPI.   *)
EXTENDS Integers, Sequences

CONSTANTS
    Kinds,          \* the cards: family, version, cmd8, hc, spec, rev, csize, cmult, bl, wl, ext
    Timeout,        \* 1000
    Slow,           \* how often a card may say that it is busy
    MaxFaults, MaxInserts

\* A byte has 2 bits here, an int 8 and an u64_t 30.
Q == 4
IntRange == 256
U64 == 2 ^ 30

DetectAssumption ==
    /\ Timeout \in Nat \ {0} /\ Slow \subseteq Nat
    /\ \A k \in Kinds : (k.family = "mmc" /\ k.hc) => k.spec = 4

VARIABLES
    slot,           \* the card: what it is, its mode, how often it is still busy, its address and block length
    rec,            \* struct sdcard_t, which outlives the card
    disk,           \* size and count of struct disk_t
    pc, timeout, first,
    faults, inserts,
    before,         \* history: the record when the card was looked for
    missed,         \* history: the commands of this look whose answer was lost
    failed          \* history: the last look has found no card
vars == <<slot, rec, disk, pc, timeout, first, faults, inserts, before, missed, failed>>

Empty == [mode |-> "none"]
NoExt == <<0, 0, 0, 0, 0>>              \* extcsd[192] and extcsd[212] to extcsd[215]
NoRecord == [version |-> "none", hc |-> FALSE, rca |-> 0, capacity |-> 0, rbl |-> 0, wbl |-> 0, ext |-> NoExt]

\* sdcard_probe()
Init ==
    /\ slot = Empty /\ rec = NoRecord /\ disk = [size |-> 0, count |-> 0]
    /\ pc = "wait" /\ timeout = 0 /\ first = TRUE /\ faults = 0 /\ inserts = 0
    /\ before = NoRecord /\ missed = {} /\ failed = FALSE

----------------------------------------------------------------------------
(* The card                                                                 *)

Busy(hcs) == slot.busy > 0 \/ (slot.kind.hc /\ ~hcs)
\* The commands a card answers in the mode it is in, arg being what the command is given.
Takes(cmd, arg) ==
    \/ cmd = "GO_IDLE_STATE"            \* which has no answer
    \/ /\ slot # Empty
       /\ \/ cmd = "SD_SEND_IF_COND" /\ slot.mode = "idle" /\ slot.kind.cmd8
          \/ cmd \in {"APP_CMD", "APP_SEND_OP_COND"} /\ slot.mode = "idle" /\ slot.kind.family = "sd"
          \/ cmd = "SEND_OP_COND" /\ slot.mode = "idle" /\ slot.kind.family = "mmc"
          \/ cmd = "ALL_SEND_CID" /\ slot.mode = "ready"
          \/ cmd = "SEND_RELATIVE_ADDR" /\ slot.mode = "ident"
          \/ cmd \in {"SEND_CSD", "SELECT_CARD"} /\ slot.mode = "stby" /\ arg = slot.rca
          \/ cmd = "SEND_EXT_CSD" /\ slot.mode = "tran" /\ slot.kind.family = "mmc" /\ slot.kind.spec = 4
          \/ cmd = "SET_BLOCKLEN" /\ slot.mode = "tran"
Acted(cmd, arg) ==
    CASE slot = Empty -> slot
      [] cmd = "GO_IDLE_STATE" -> [slot EXCEPT !.mode = "idle", !.busy = slot.slow, !.rca = 0, !.blocklen = 512]
      [] cmd \in {"APP_SEND_OP_COND", "SEND_OP_COND"} /\ arg # "query" ->
           IF Busy(arg = "hcs") THEN [slot EXCEPT !.busy = IF @ > 0 THEN @ - 1 ELSE 0] ELSE [slot EXCEPT !.mode = "ready"]
      [] cmd = "ALL_SEND_CID" -> [slot EXCEPT !.mode = "ident"]
      [] cmd = "SEND_RELATIVE_ADDR" -> [slot EXCEPT !.mode = "stby", !.rca = IF slot.kind.family = "sd" THEN 7 ELSE arg]
      [] cmd = "SELECT_CARD" -> [slot EXCEPT !.mode = "tran"]
      [] cmd = "SET_BLOCKLEN" -> [slot EXCEPT !.blocklen = arg]
      [] OTHER -> slot

\* sdhci_transfer(): a command that is taken may be lost, or its answer.
Transfer(cmd, arg, ok) ==
    \/ /\ ok = Takes(cmd, arg) /\ slot' = (IF ok THEN Acted(cmd, arg) ELSE slot)
       /\ UNCHANGED <<faults, missed>>
    \/ /\ ~ok /\ Takes(cmd, arg) /\ faults < MaxFaults
       /\ faults' = faults + 1 /\ missed' = missed \cup {cmd}
       /\ slot' \in {slot, Acted(cmd, arg)}

----------------------------------------------------------------------------
(* sdcard_detect()                                                          *)

Goto(p) == pc' = p
Fail == pc' = "wait" /\ failed' = TRUE
\* A command that must succeed, or the card is not found.
Must(at, cmd, arg, Then) ==
    /\ pc = at
    /\ \E ok \in BOOLEAN :
         /\ Transfer(cmd, arg, ok)
         /\ IF ok THEN Then /\ UNCHANGED failed ELSE Fail /\ UNCHANGED <<rec, disk, timeout, first>>
    /\ UNCHANGED <<inserts, before>>

\* go_idle_state() tries twice.
GoIdle(at, again, next) ==
    \/ /\ pc = at
       /\ \E ok \in BOOLEAN : Transfer("GO_IDLE_STATE", 0, ok) /\ Goto(IF ok THEN next ELSE again)
       /\ UNCHANGED <<rec, disk, timeout, first, inserts, before, failed>>
    \/ Must(again, "GO_IDLE_STATE", 0, Goto(next) /\ UNCHANGED <<rec, disk, timeout, first>>)

sd_send_if_cond ==
    /\ pc = "if_cond"
    /\ \E ok \in BOOLEAN :
         /\ Transfer("SD_SEND_IF_COND", 0, ok)
         /\ rec' = IF ok THEN [rec EXCEPT !.version = "SD_2"] ELSE rec
    /\ Goto("app") /\ timeout' = Timeout /\ first' = TRUE
    /\ UNCHANGED <<disk, inserts, before, failed>>

\* What follows a try that has not made the card ready: while(timeout--).
Again_forever(try, otherwise) == UNCHANGED timeout /\ Goto(try)
Again(try, otherwise) ==
    /\ timeout' = timeout - 1
    /\ Goto(IF timeout = 0 THEN otherwise ELSE try)
\* A card that is ready at the last try is refused all the same: timeout <= 0.
InTime == timeout > 0

AppCmd ==
    /\ pc = "app"
    /\ \E ok \in BOOLEAN :
         /\ Transfer("APP_CMD", 0, ok)
         /\ IF ok THEN Goto("op_cond") /\ first' = FALSE /\ UNCHANGED timeout
            ELSE /\ UNCHANGED first
                 /\ IF first THEN Goto("mmc") /\ UNCHANGED timeout ELSE Again("app", "mmc")
    /\ UNCHANGED <<rec, disk, inserts, before, failed>>
Hcs(version) == IF version = "SD_2" THEN "hcs" ELSE "plain"
SdRecord == [rec EXCEPT !.version = IF @ # "SD_2" THEN "SD_1_0" ELSE @, !.hc = slot.kind.hc, !.rca = 0]
sd_send_op_cond ==
    /\ pc = "op_cond"
    /\ \E ok \in BOOLEAN :
         /\ Transfer("APP_SEND_OP_COND", Hcs(rec.version), ok)
         /\ IF ~ok THEN Goto("mmc") /\ UNCHANGED <<rec, timeout>>
            ELSE IF slot'.mode # "ready" THEN Again("app", "mmc") /\ UNCHANGED rec
            ELSE IF InTime THEN Goto("cid") /\ rec' = SdRecord /\ UNCHANGED timeout
            ELSE Goto("mmc") /\ UNCHANGED <<rec, timeout>>
    /\ UNCHANGED <<disk, first, inserts, before, failed>>

\* mmc_send_op_cond(): goes idle again, asks first, and then waits.
Query == Must("query", "SEND_OP_COND", "query", Goto("mmc_op") /\ timeout' = Timeout /\ UNCHANGED <<rec, disk, first>>)
mmc_send_op_cond ==
    /\ pc = "mmc_op"
    /\ \E ok \in BOOLEAN :
         /\ Transfer("SEND_OP_COND", "hcs", ok)
         /\ IF ok /\ slot'.mode = "ready" /\ InTime
              THEN Goto("cid") /\ rec' = [rec EXCEPT !.version = "MMC", !.hc = slot.kind.hc, !.rca = 0] /\ UNCHANGED <<timeout, failed>>
            ELSE IF ok /\ slot'.mode # "ready" /\ timeout > 0
              THEN Goto("mmc_op") /\ timeout' = timeout - 1 /\ UNCHANGED <<rec, failed>>
            ELSE Fail /\ UNCHANGED <<rec, timeout>>
    /\ UNCHANGED <<disk, first, inserts, before>>

----------------------------------------------------------------------------
(* What the card is                                                         *)

IsSd(version) == version \in {"SD_1_0", "SD_2"}
Spec4 == {"MMC_4", "MMC_4_1", "MMC_4_2", "MMC_4_3", "MMC_4_41", "MMC_4_5", "MMC_5_0", "MMC_5_1"}
SpecVers(n) == IF n \in 0..4 THEN <<"MMC_1_2", "MMC_1_4", "MMC_2_2", "MMC_3", "MMC_4">>[n + 1] ELSE "MMC_1_2"
\* 4.4 is not told from 4.0.
Revision(n) ==
    IF n \in 1..8 THEN <<"MMC_4_1", "MMC_4_2", "MMC_4_3", "MMC_4", "MMC_4_41", "MMC_4_5", "MMC_5_0", "MMC_5_1">>[n] ELSE "MMC_4"
AtMost512(n) == IF n > 512 THEN 512 ELSE n

SendCid == Must("cid", "ALL_SEND_CID", 0, Goto("rca") /\ UNCHANGED <<rec, disk, timeout, first>>)
SendRelativeAddr ==
    Must("rca", "SEND_RELATIVE_ADDR", rec.rca,
         /\ rec' = IF IsSd(rec.version) THEN [rec EXCEPT !.rca = slot'.rca] ELSE rec
         /\ Goto("csd") /\ UNCHANGED <<disk, timeout, first>>)
\* The CSD tells the version of an MMC card and the lengths of the blocks.
Lengths_own(r, k) == [r EXCEPT !.rbl = 2 ^ k.bl, !.wbl = AtMost512(2 ^ k.wl)]
Lengths(r, k) == [r EXCEPT !.rbl = AtMost512(2 ^ k.bl), !.wbl = AtMost512(IF IsSd(r.version) THEN 2 ^ k.bl ELSE 2 ^ k.wl)]
FromCsd(r, k) ==
    LET v == IF r.version = "MMC" THEN SpecVers(k.spec) ELSE r.version
    IN Lengths([r EXCEPT !.version = v], k)
SendCsd == Must("csd", "SEND_CSD", rec.rca, rec' = FromCsd(rec, slot.kind) /\ Goto("select") /\ UNCHANGED <<disk, timeout, first>>)
SelectCard == Must("select", "SELECT_CARD", rec.rca,
    Goto(IF rec.version \in Spec4 THEN "ext" ELSE "blocklen") /\ UNCHANGED <<rec, disk, timeout, first>>)
SendExtCsd == Must("ext", "SEND_EXT_CSD", 0,
    /\ rec' = [rec EXCEPT !.ext = <<slot.kind.rev>> \o slot.kind.ext, !.version = Revision(slot.kind.rev)]
    /\ Goto("blocklen") /\ UNCHANGED <<disk, timeout, first>>)

\* extcsd[215] << 24 is an int: its sign goes into the upper half of the capacity.
Sectors(ext) ==
    LET n == ext[2] + Q * ext[3] + Q * Q * ext[4] + Q * Q * Q * ext[5]
    IN IF n < IntRange \div 2 THEN n ELSE n - IntRange
Capacity(r, k) ==
    ((IF r.hc THEN IF IsSd(r.version) THEN (1 + k.csize) * 1024 ELSE Sectors(r.ext)
      ELSE (k.csize + 1) * 2 ^ (k.cmult + 2)) * 2 ^ k.bl) % U64
\* The disk that sdcard_disk_timer_function() registers.
SetBlockLen == Must("blocklen", "SET_BLOCKLEN", rec.rbl,
    /\ rec' = [rec EXCEPT !.capacity = Capacity(rec, slot.kind)]
    /\ disk' = [size |-> rec.rbl, count |-> rec'.capacity \div rec.rbl]
    /\ Goto("online") /\ UNCHANGED <<timeout, first>>)

----------------------------------------------------------------------------
(* The slot and the timer                                                   *)

\* A card is not changed while it is being looked for.
Insert ==
    /\ pc = "wait" /\ slot = Empty /\ inserts < MaxInserts /\ inserts' = inserts + 1
    /\ \E k \in Kinds, s \in Slow : slot' = [kind |-> k, mode |-> "off", slow |-> s, busy |-> s, rca |-> 0, blocklen |-> 512]
    /\ failed' = FALSE /\ UNCHANGED <<rec, disk, pc, timeout, first, faults, before, missed>>
Remove ==
    /\ pc \in {"wait", "online"} /\ slot # Empty /\ slot' = Empty
    /\ UNCHANGED <<rec, disk, pc, timeout, first, faults, inserts, before, missed, failed>>
Look ==
    /\ \/ pc = "wait" /\ slot # Empty /\ Goto("idle") /\ before' = rec /\ missed' = {}
       \/ pc = "online" /\ slot = Empty /\ Goto("wait") /\ UNCHANGED <<before, missed>>
    /\ UNCHANGED <<slot, rec, disk, timeout, first, faults, inserts, failed>>

Detect ==
    \/ GoIdle("idle", "idle again", "if_cond") \/ sd_send_if_cond \/ AppCmd \/ sd_send_op_cond
    \/ GoIdle("mmc", "mmc again", "query") \/ Query \/ mmc_send_op_cond
    \/ SendCid \/ SendRelativeAddr \/ SendCsd \/ SelectCard \/ SendExtCsd \/ SetBlockLen
Next == Insert \/ Remove \/ Look \/ Detect
Spec == Init /\ [][Next]_vars

----------------------------------------------------------------------------
(* What is known of a card when its disk is there.                          *)

Online == pc = "online" /\ slot # Empty
Steps == {"wait", "idle", "idle again", "if_cond", "app", "op_cond", "mmc", "mmc again", "query", "mmc_op", "cid", "rca",
          "csd", "select", "ext", "blocklen", "online"}
TypeOK ==
    /\ pc \in Steps /\ timeout \in -1..Timeout /\ faults \in 0..MaxFaults
    /\ pc \in {"cid", "rca", "csd", "select", "ext", "blocklen"} => (timeout > 0 /\ slot # Empty)

\* Whatever card was here before and whatever answer was lost, a card that is
\* found is taken for its own family, for high capacity or not, with its lengths.
Recognised ==
    Online =>
      /\ IsSd(rec.version) <=> slot.kind.family = "sd"
      /\ rec.hc = slot.kind.hc
      /\ rec.rbl = AtMost512(2 ^ slot.kind.bl)

\* The version is that of the card, but for an SD card of version 1 after one of
\* version 2, which keeps the older version, and one of version 2 whose answer was lost.
VersionTrue ==
    Online => \/ rec.version = slot.kind.version
              \/ slot.kind.family = "sd" /\ ~slot.kind.cmd8 /\ before.version = "SD_2"
              \/ slot.kind.cmd8 /\ "SD_SEND_IF_COND" \in missed

\* The disk has all the bytes of the card, of an MMC card as long as the number
\* of its sectors is below 2^31.
TrueBytes(k) ==
    IF k.family = "mmc" /\ k.hc THEN 512 * (k.ext[1] + Q * k.ext[2] + Q * Q * k.ext[3] + Q * Q * Q * k.ext[4])
    ELSE IF k.hc THEN (k.csize + 1) * 1024 * 512 ELSE (k.csize + 1) * 2 ^ (k.cmult + 2) * 2 ^ k.bl
CapacityTrue ==
    Online => \/ disk.count * disk.size = TrueBytes(slot.kind)
              \/ slot.kind.family = "mmc" /\ slot.kind.hc /\ slot.kind.ext[4] >= Q \div 2

\* A card whose disk is there is selected under the address the driver knows, and
\* block n is at the same place when it is read and when it is written, unless an
\* MMC card writes shorter blocks than it reads.
Place(n, len) == IF rec.hc THEN n ELSE n * len
Addressed ==
    Online =>
      /\ slot.mode = "tran" /\ slot.rca = rec.rca /\ slot.blocklen = rec.rbl
      /\ \/ \A n \in 0..2 : Place(n, rec.rbl) = Place(n, rec.wbl) /\ rec.rbl = rec.wbl
         \/ slot.kind.family = "mmc" /\ slot.kind.wl < slot.kind.bl

\* A card that is not found was busy for too long, or an answer of it was lost.
Heard == (failed /\ slot # Empty /\ pc = "wait") => (slot.slow >= Timeout \/ missed # {})

CardKnown == TypeOK /\ Recognised /\ VersionTrue /\ CapacityTrue /\ Addressed /\ Heard

\* A card that stays and gets ready in time is found in the end.
Found == (slot # Empty /\ slot.slow < Timeout) ~> (pc = "online" \/ slot = Empty)
=============================================================================
