------------------------------- MODULE BlockIo -------------------------------
(* Reading and writing at any byte: block_read() and block_write() of a     *)
(* partition or of a romdisk, disk_read() and disk_write() of a whole disk, *)
(* down to the transfers of the SD card, each of which may fail.  Another   *)
(* task may run between two transfers.                                      *)
EXTENDS Integers, Sequences, FiniteSets

CONSTANTS
    Tasks,
    B,              \* the bytes of a block
    DiskBlocks, From, To,       \* the disk, and the first and the last block of its partition
    RomBlocks,      \* a romdisk, which lies behind the disk here
    MaxChunk,       \* the blocks of one transfer: 65535
    Ops,            \* kind, vol, off and count of the calls
    MaxCalls, MaxFaults

BlockIoAssumption == 0 <= From /\ From <= To /\ To < DiskBlocks /\ B > 0 /\ MaxChunk > 0

VARIABLES
    media,          \* what is stored, byte after byte
    op, pc,         \* the call of a task and where it is
    at, left, ret,  \* the byte of the volume it has come to, the bytes left, the bytes done
    p,              \* the buffer of one block
    buf,            \* what was read
    done,           \* the blocks of the part in the middle that were moved
    meant,          \* the bytes the calls were meant to change, as they were meant
    raced,          \* the blocks two tasks were changing in part at the same time
    was,            \* what each byte has been since the call began
    calls, faults
vars == <<media, op, pc, at, left, ret, p, buf, done, meant, raced, was, calls, faults>>

Byte == 0..(B * (DiskBlocks + RomBlocks) - 1)
Base(vol) == CASE vol = "part" -> From [] vol = "disk" -> 0 [] vol = "rom" -> DiskBlocks
Blocks(vol) == CASE vol = "part" -> To - From + 1 [] vol = "disk" -> DiskBlocks [] vol = "rom" -> RomBlocks
capacity(vol) == B * Blocks(vol)
Min2(a, b) == IF a < b THEN a ELSE b
None == [kind |-> "none", vol |-> "disk", off |-> 0, count |-> 0]

Init ==
    /\ media = [b \in Byte |-> <<0, b>>] /\ meant = media /\ was = [t \in Tasks |-> [b \in Byte |-> {}]]
    /\ op = [t \in Tasks |-> None] /\ pc = [t \in Tasks |-> "idle"]
    /\ at = [t \in Tasks |-> 0] /\ left = at /\ ret = at /\ done = at
    /\ p = [t \in Tasks |-> <<>>] /\ buf = p
    /\ raced = {} /\ calls = 0 /\ faults = 0

----------------------------------------------------------------------------
Volume(t) == op[t].vol
Inside(t) == at[t] % B                                  \* where in its block the task is
Block(t) == Base(Volume(t)) + at[t] \div B              \* disk_block_read() adds the offset
Part(t) == Min2(IF Inside(t) > 0 THEN B - Inside(t) ELSE B, left[t])
Changing(b) == {t \in Tasks : pc[t] = "changed" /\ Block(t) = b}

\* Where the call goes on: a part of a block, whole blocks, a last part, the end.
Phase(here, n) == IF n = 0 THEN "done" ELSE IF here % B > 0 \/ n < B THEN "part" ELSE "whole"

Content(b) == [i \in 1..B |-> media[b * B + i - 1]]
Stored(s, pos, bytes) == [b \in Byte |-> IF b >= pos /\ b < pos + Len(bytes) THEN bytes[b - pos + 1] ELSE s[b]]
\* The bytes of the call: the n-th one is told by the call and its number.
Data(t, n) == [i \in 1..n |-> <<op[t].id, ret[t] + i>>]

Advance(t, n) ==
    /\ at' = [at EXCEPT ![t] = @ + n] /\ left' = [left EXCEPT ![t] = @ - n] /\ ret' = [ret EXCEPT ![t] = @ + n]
    /\ pc' = [pc EXCEPT ![t] = Phase(at[t] + n, left[t] - n)]
Seen(s) == was' = [t \in Tasks |-> [b \in Byte |-> was[t][b] \cup {s[b]}]]
Failed(t) ==
    /\ faults < MaxFaults /\ faults' = faults + 1 /\ Volume(t) # "rom"
    /\ pc' = [pc EXCEPT ![t] = "done"]

\* An offset at or beyond the end is refused, a count is cut to what is there.
Call(t) == \E o \in Ops :
    /\ pc[t] \in {"idle", "done"} /\ calls < MaxCalls /\ calls' = calls + 1
    /\ op' = [op EXCEPT ![t] = [kind |-> o[1], vol |-> o[2], off |-> o[3], count |-> o[4], id |-> calls + 1]]
    /\ at' = [at EXCEPT ![t] = o[3]]
    /\ left' = [left EXCEPT ![t] = IF o[3] >= capacity(o[2]) THEN 0 ELSE Min2(o[4], capacity(o[2]) - o[3])]
    /\ ret' = [ret EXCEPT ![t] = 0] /\ buf' = [buf EXCEPT ![t] = <<>>] /\ done' = [done EXCEPT ![t] = 0]
    /\ pc' = [pc EXCEPT ![t] = Phase(o[3], left'[t])]
    /\ was' = [was EXCEPT ![t] = [b \in Byte |-> {media[b]}]]
    /\ UNCHANGED <<media, p, meant, raced, faults>>

\* Part of a block: read into p, and copied out of it or changed in it.
ReadPart(t) ==
    LET whole == Content(Block(t)) IN
    /\ pc[t] = "part" /\ UNCHANGED <<op, media, done, meant, raced, was, calls>>
    /\ \/ Failed(t) /\ UNCHANGED <<at, left, ret, p, buf>>
       \/ /\ op[t].kind = "read" /\ p' = [p EXCEPT ![t] = whole] /\ Advance(t, Part(t)) /\ UNCHANGED faults
          /\ buf' = [buf EXCEPT ![t] = @ \o SubSeq(whole, Inside(t) + 1, Inside(t) + Part(t))]
       \/ /\ op[t].kind = "write" /\ UNCHANGED <<at, left, ret, buf, faults>>
          /\ p' = [p EXCEPT ![t] = SubSeq(whole, 1, Inside(t)) \o Data(t, Part(t)) \o SubSeq(whole, Inside(t) + Part(t) + 1, B)]
          /\ pc' = [pc EXCEPT ![t] = "changed"]
Place(t) == Block(t) * B
\* The whole block goes back, with what its other bytes were when it was read.
WritePart(t) ==
    /\ pc[t] = "changed" /\ UNCHANGED <<op, p, buf, done, calls>>
    /\ raced' = IF Changing(Block(t)) # {t} THEN raced \cup {Block(t)} ELSE raced
    /\ \/ /\ Failed(t) \/ (Volume(t) = "rom" /\ pc' = [pc EXCEPT ![t] = "done"] /\ UNCHANGED faults)
          /\ UNCHANGED <<media, meant, was, at, left, ret>>
       \/ /\ Volume(t) # "rom"
          /\ media' = Stored(media, Place(t), p[t])
          /\ meant' = Stored(meant, Block(t) * B + Inside(t), Data(t, Part(t)))
          /\ Seen(media')
          /\ \/ Advance(t, Part(t)) /\ UNCHANGED faults
             \/ Failed(t) /\ UNCHANGED <<at, left, ret>>        \* stored, but not answered

\* Whole blocks go straight to or from the caller, a chunk at a time; a chunk
\* that fails makes all of them fail, though some of it may have been stored.
Wholes(t) == left[t] \div B
Chunk(t) == IF Volume(t) = "rom" THEN Wholes(t) ELSE Min2(Wholes(t) - done[t], MaxChunk)
Store_more(t, n) ==
    LET first == Block(t) + done[t]
        d == [i \in 1..((n + 1) * B) |-> <<op[t].id, ret[t] + done[t] * B + i>>] IN
    /\ media' = Stored(media, first * B, d) /\ meant' = Stored(meant, first * B, d) /\ Seen(media')
    /\ raced' = raced \cup {b \in first..(first + n) : Changing(b) # {}}
Store(t, n) ==
    LET first == Block(t) + done[t]
        d == [i \in 1..(n * B) |-> <<op[t].id, ret[t] + done[t] * B + i>>] IN
    /\ media' = Stored(media, first * B, d) /\ meant' = Stored(meant, first * B, d) /\ Seen(media')
    /\ raced' = raced \cup {b \in first..(first + n - 1) : Changing(b) # {}}
MoveWhole(t) ==
    LET n == Chunk(t)
        pos == (Block(t) + done[t]) * B IN
    /\ pc[t] = "whole" /\ UNCHANGED <<op, p, calls>>
    /\ \/ /\ Failed(t) /\ UNCHANGED <<at, left, ret, buf, done>>
          /\ \E k \in 0..(IF op[t].kind = "write" THEN n ELSE 0) : Store(t, k)
       \/ /\ op[t].kind = "write" /\ Volume(t) = "rom"
          /\ pc' = [pc EXCEPT ![t] = "done"]
          /\ UNCHANGED <<media, at, left, ret, buf, done, meant, raced, was, faults>>
       \/ /\ op[t].kind = "read" \/ Volume(t) # "rom"
          /\ IF op[t].kind = "write" THEN Store(t, n) /\ UNCHANGED buf
             ELSE /\ buf' = [buf EXCEPT ![t] = @ \o [i \in 1..(n * B) |-> media[pos + i - 1]]]
                  /\ UNCHANGED <<media, meant, raced, was>>
          /\ UNCHANGED faults
          /\ IF done[t] + n = Wholes(t) THEN Advance(t, Wholes(t) * B) /\ done' = [done EXCEPT ![t] = 0]
             ELSE done' = [done EXCEPT ![t] = @ + n] /\ UNCHANGED <<at, left, ret, pc>>

TaskStep(t) == ReadPart(t) \/ WritePart(t) \/ MoveWhole(t)
Next == \E t \in Tasks : Call(t) \/ TaskStep(t)
Spec == Init /\ [][Next]_vars

----------------------------------------------------------------------------
(* A volume is an array of bytes: what a call may change, and what it says. *)

TypeOK ==
    /\ pc \in [Tasks -> {"idle", "part", "changed", "whole", "done"}]
    /\ \A t \in Tasks : /\ at[t] + left[t] <= capacity(Volume(t)) \/ left[t] = 0
                        /\ Len(p[t]) \in {0, B} /\ done[t] <= Wholes(t)

\* The bytes around a write keep their value: a byte changes only to what a call
\* wrote there, unless two tasks were changing parts of its block at once.
NoCollateral == \A b \in Byte : media[b] = meant[b] \/ b \div B \in raced

\* A byte changes only inside of what its call was given, within its volume.
WritesInRange ==
    \A b \in Byte : meant'[b] # meant[b] =>
      \E t \in Tasks :
        /\ op[t].kind = "write" /\ Volume(t) # "rom"
        /\ b >= B * Base(Volume(t)) + op[t].off
        /\ b < B * Base(Volume(t)) + Min2(op[t].off + op[t].count, capacity(Volume(t)))
        /\ meant'[b] = <<op[t].id, b - B * Base(Volume(t)) - op[t].off + 1>>

\* What was read is as long as is said, and each byte was there while the call ran.
ReadsWhatWas ==
    \A t \in Tasks : (op[t].kind = "read" /\ pc[t] = "done") =>
      /\ Len(buf[t]) >= ret[t]
      /\ \A i \in 1..ret[t] : buf[t][i] \in was[t][B * Base(Volume(t)) + op[t].off + i - 1]

\* A write has stored what it says it has, and a call that meets no fault does all it can.
SaysTheTruth ==
    \A t \in Tasks : pc[t] = "done" =>
      /\ op[t].kind = "write" => \A i \in 1..ret[t] : <<op[t].id, i>> \in was[t][B * Base(Volume(t)) + op[t].off + i - 1]
      /\ (faults = 0 /\ ~(op[t].kind = "write" /\ Volume(t) = "rom")) =>
           ret[t] = IF op[t].off >= capacity(Volume(t)) THEN 0 ELSE Min2(op[t].count, capacity(Volume(t)) - op[t].off)

BytesTrue == TypeOK /\ NoCollateral /\ ReadsWhatWas /\ SaysTheTruth
=============================================================================
