--------------------------------- MODULE I2c ---------------------------------
(* The two-wire bus as i2c-algo-bit.c drives it through two pins, one line  *)
(* change at a time, with a chip of registers on it: the transfers that     *)
(* i2c.c repeats, and that the drivers of the power chip, the batteries and *)
(* the touchscreen build from a register, a value or a length.  The chip    *)
(* may refuse a byte and may hold the clock, for shorter or for longer than *)
(* the master waits.                                                        *)
EXTENDS Integers, SequencesExt

CONSTANTS
    W,              \* bits of a byte (8 in the code; the address has W - 1)
    Retries, Tries, \* of an address (3), of a transfer (3)
    Calls,          \* transfers: [kind, addr, reg, val]
    MaxNaks, MaxStretches   \* bounds on the bytes refused and on the clocks held

I2cAssumption ==
    /\ W \in Nat \ {0, 1} /\ Retries \in Nat /\ Tries \in Nat \ {0}
    /\ MaxNaks \in Nat /\ MaxStretches \in Nat

VARIABLES
    sda, scl,       \* what the master drives: 1 lets go of the line
    call,           \* the transfer under way
    todo, phase,    \* the line changes left of the step that the master is in
    msg, byte,      \* the message and the byte it is at
    tries, attempt, \* of the address and of the transfer, so far
    bits, late,     \* bits sampled; the clock was held for too long
    input, ret,     \* words received; the outcome of the transfer
    chip,           \* the chip: where it is, its bits, and what it drives
    regs,           \* its registers
    unseen,         \* a start or stop was given that the chip cannot see: it holds a line
    naks, stretches \* counted for the bounds
master == <<sda, scl, call, todo, phase, msg, byte, tries, attempt, bits, late, input, ret>>
vars == <<master, chip, regs, unseen, naks, stretches>>

None == <<>>
Word(n) == [i \in 1..W |-> (n \div 2 ^ (W - i)) % 2]
Number(w) == FoldLeft(LAMBDA n, b : 2 * n + b, 0, w)
Own == 1                                                    \* the chip's address
Low(a, b) == IF a = 0 THEN 0 ELSE b                         \* open drain
Sda == Low(sda, chip.sda)
Scl == Low(scl, chip.scl)

----------------------------------------------------------------------------
(* The chip, at each change of the lines                                    *)

Idle == [st |-> "idle", bits |-> <<>>, next |-> "idle", ptr |-> 0, sda |-> 1, scl |-> 1]
Listen(c, st) == [c EXCEPT !.st = st, !.bits = <<>>, !.sda = 1]
Deaf(c) == Listen(c, "deaf")
Ack(c, next) == [c EXCEPT !.st = "ack", !.next = next, !.sda = 0]
Out(c) == [c EXCEPT !.st = "out", !.bits = Tail(Word(regs[c.ptr])), !.sda = Head(Word(regs[c.ptr]))]
After(c) == [c EXCEPT !.ptr = (@ + 1) % 2 ^ W]

\* The clock falls after the last bit of a byte: it is acknowledged.
Taken(c) ==
    CASE c.st = "addr" /\ c.bits = Append(SubSeq(Word(Own), 2, W), 0) -> Ack(c, "reg")
      [] c.st = "addr" /\ c.bits = Append(SubSeq(Word(Own), 2, W), 1) -> Ack(c, "out")
      [] c.st = "reg" -> Ack([c EXCEPT !.ptr = Number(c.bits)], "data")
      [] c.st = "data" -> Ack(After(c), "data")
      [] OTHER -> Deaf(c)
OnFall(c) ==
    CASE c.st \in {"addr", "reg", "data"} /\ Len(c.bits) = W -> Taken(c)
      [] c.st = "ack" -> IF c.next = "out" THEN Out(c) ELSE Listen(c, c.next)
      [] c.st = "out" /\ c.bits # <<>> -> [c EXCEPT !.sda = Head(c.bits), !.bits = Tail(c.bits)]
      [] c.st = "out" /\ c.bits = <<>> -> Listen(After(c), "mack")
      [] c.st = "mack" -> IF c.bits = <<0>> THEN Out(c) ELSE Deaf(c)
      [] OTHER -> c
OnRise(c, d) == IF c.st \in {"addr", "reg", "data", "mack"} THEN [c EXCEPT !.bits = Append(@, d)] ELSE c

\* The lines go from <<d0, c0>> to <<d1, c1>>.
React(d0, c0, d1, c1) ==
    \/ /\ <<d0, c0>> = <<d1, c1>> /\ UNCHANGED <<regs, naks, stretches>>
       /\ chip' = chip
    \/ /\ c0 = 1 /\ c1 = 1 /\ d0 # d1 /\ UNCHANGED <<regs, naks, stretches>>
       /\ chip' = Listen(chip, IF d1 = 0 THEN "addr" ELSE "idle")
    \/ /\ c0 = 0 /\ c1 = 0 /\ d0 # d1 /\ UNCHANGED <<chip, regs, naks, stretches>>
    \/ /\ c0 = 0 /\ c1 = 1 /\ UNCHANGED <<regs, naks, stretches>>
       /\ chip' = OnRise(chip, d1)
    \/ /\ c0 = 1 /\ c1 = 0
       /\ LET c == OnFall(chip) IN
          \E refuse \in {FALSE, TRUE}, hold \in {0, 1} :
            /\ refuse => c.st = "ack" /\ chip.st # "ack" /\ naks < MaxNaks
            /\ hold = 0 => stretches < MaxStretches /\ c.st \notin {"idle", "deaf"}
            /\ naks' = IF refuse THEN naks + 1 ELSE naks
            /\ stretches' = IF hold = 0 THEN stretches + 1 ELSE stretches
            /\ chip' = [(IF refuse THEN Deaf(chip) ELSE c) EXCEPT !.scl = hold]
            /\ regs' = IF chip.st = "data" /\ c.st = "ack" /\ ~refuse
                       THEN [regs EXCEPT ![chip.ptr] = Number(chip.bits)] ELSE regs
Release ==
    /\ chip.scl = 0 /\ UNCHANGED <<master, regs, unseen, naks, stretches>>
    /\ chip' = LET c == [chip EXCEPT !.scl = 1] IN IF scl = 1 THEN OnRise(c, Sda) ELSE c

----------------------------------------------------------------------------
(* The master: "rise" waits for the clock and may fail, "Rise" ignores that *)

Start == <<"start", "fall">>
RepStart == <<"hi", "Rise", "start", "fall">>
Stop == <<"lo", "Rise", "stop">>
OutBits_late(w) == FlattenSeq([i \in 1..W |-> <<"rise", IF w[i] = 1 THEN "hi" ELSE "lo", "fall">>])
OutBits(w) == FlattenSeq([i \in 1..W |-> <<IF w[i] = 1 THEN "hi" ELSE "lo", "rise", "fall">>])
i2c_outb(w) == OutBits(w) \o <<"hi", "rise", "take", "fall">>
i2c_inb == <<"hi">> \o FlattenSeq([i \in 1..W |-> <<"rise", "take", "fall">>])
acknak(more) == (IF more THEN <<"lo">> ELSE <<>>) \o <<"rise", "fall">>

\* The messages of the drivers: a register and a value; a register, then what is read from it.
Msgs(c) ==
    IF c.kind = "write" THEN << [rd |-> FALSE, buf |-> <<Word(c.reg), Word(c.val)>>] >>
    ELSE << [rd |-> FALSE, buf |-> <<Word(c.reg)>>], [rd |-> TRUE, buf |-> [i \in 1..c.val |-> <<>>]] >>
Msg(i) == Msgs(call)[i]
AddrOf(c, i) == [(SubSeq(Word(c.addr), 2, W) \o <<0>>) EXCEPT ![W] = IF Msgs(c)[i].rd THEN 1 ELSE 0]

Init ==
    /\ sda = 1 /\ scl = 1 /\ call = None /\ todo = <<>> /\ phase = "idle"
    /\ msg = 0 /\ byte = 0 /\ tries = 0 /\ attempt = 0 /\ bits = <<>> /\ late = FALSE
    /\ input = <<>> /\ ret = "none" /\ chip = Idle /\ regs = [r \in 0..2 ^ W - 1 |-> 0]
    /\ unseen = FALSE /\ naks = 0 /\ stretches = 0

i2c_transfer(c) ==
    /\ call = None /\ call' = c /\ attempt' = 1 /\ ret' = "none" /\ input' = <<>>
    /\ msg' = 1 /\ byte' = 0 /\ tries' = 0 /\ bits' = <<>> /\ late' = FALSE
    /\ todo' = Start \o i2c_outb(AddrOf(c, 1)) /\ phase' = "address"
    /\ UNCHANGED <<sda, scl, chip, regs, unseen, naks, stretches>>

\* One change of a line, or a look at one; the clock rises when the chip lets it.
Line ==
    /\ todo # <<>> /\ todo' = Tail(todo)
    /\ sda' = CASE Head(todo) \in {"lo", "start"} -> 0 [] Head(todo) \in {"hi", "stop"} -> 1 [] OTHER -> sda
    /\ scl' = CASE Head(todo) = "fall" -> 0 [] Head(todo) \in {"rise", "Rise"} -> 1 [] OTHER -> scl
    /\ Head(todo) \in {"rise", "Rise"} => chip.scl = 1
    /\ bits' = IF Head(todo) = "take" THEN Append(bits, Sda) ELSE bits
    /\ unseen' = (unseen \/ (Head(todo) \in {"start", "stop"} /\ (Scl = 0 \/ chip.sda = 0)))
    /\ React(Sda, Scl, Low(sda', chip.sda), Low(scl', chip.scl))
    /\ UNCHANGED <<call, phase, msg, byte, tries, attempt, late, input, ret>>
Timeout ==
    /\ todo # <<>> /\ Head(todo) \in {"rise", "Rise"} /\ chip.scl = 0
    /\ scl' = 1 /\ late' = (late \/ Head(todo) = "rise")
    /\ todo' = IF Head(todo) = "Rise" THEN Tail(todo) ELSE <<>>
    /\ UNCHANGED <<sda, call, phase, msg, byte, tries, attempt, bits, input, ret, chip, regs, unseen, naks, stretches>>

Goto(p, steps) == phase' = p /\ todo' = steps /\ bits' = <<>> /\ late' = FALSE
End(r) == Goto("stop", Stop) /\ ret' = r /\ UNCHANGED <<msg, byte, tries, attempt, input>>
NextByte(i, n) ==
    IF n < Len(Msg(i).buf)
    THEN IF Msg(i).rd THEN Goto("input", i2c_inb) ELSE Goto("byte", i2c_outb(Msg(i).buf[n + 1]))
    ELSE Goto("address", RepStart \o i2c_outb(AddrOf(call, i + 1)))
Next_(n) ==
    IF n = Len(Msg(msg).buf) /\ msg = Len(Msgs(call)) THEN End("ok")
    ELSE /\ NextByte(msg, n) /\ tries' = 0 /\ UNCHANGED <<attempt, input, ret>>
         /\ IF n < Len(Msg(msg).buf) THEN msg' = msg /\ byte' = n ELSE msg' = msg + 1 /\ byte' = 0

Acked == bits = <<0>> /\ ~late
Addressed ==
    /\ phase = "address"
    /\ \/ Acked /\ Next_(0)
       \/ ~Acked /\ tries = Retries /\ End("failed")
       \/ /\ ~Acked /\ tries < Retries /\ tries' = tries + 1
          /\ Goto("address", Stop \o Start \o i2c_outb(AddrOf(call, msg)))
          /\ UNCHANGED <<msg, byte, attempt, input, ret>>
Sent == phase = "byte" /\ (IF Acked THEN Next_(byte + 1) ELSE End("failed"))
Received ==
    /\ phase = "input"
    /\ IF late THEN End("failed")
       ELSE /\ input' = Append(input, Number(bits)) /\ byte' = byte + 1
            /\ Goto("acked", acknak(byte + 1 < Len(Msg(msg).buf)))
            /\ UNCHANGED <<msg, tries, attempt, ret>>
Answered == phase = "acked" /\ (IF late THEN End("failed") ELSE Next_(byte))
\* i2c_transfer(): a transfer that failed is done again from the start.
Again_uncounted ==
    /\ phase = "stop" /\ ret = "failed" /\ attempt < Tries
    /\ attempt' = attempt /\ ret' = "none" /\ input' = <<>> /\ msg' = 1 /\ byte' = 0 /\ tries' = 0
    /\ Goto("address", Start \o i2c_outb(AddrOf(call, 1)))
Again ==
    /\ phase = "stop" /\ ret = "failed" /\ attempt < Tries
    /\ attempt' = attempt + 1 /\ ret' = "none" /\ input' = <<>>
    /\ msg' = 1 /\ byte' = 0 /\ tries' = 0
    /\ Goto("address", Start \o i2c_outb(AddrOf(call, 1)))
Proceed ==
    /\ call # None /\ todo = <<>>
    /\ Addressed \/ Sent \/ Received \/ Answered \/ Again
    /\ UNCHANGED <<sda, scl, call, chip, regs, unseen, naks, stretches>>
Return ==
    /\ phase = "stop" /\ todo = <<>> /\ (ret = "ok" \/ attempt = Tries)
    /\ call' = None /\ phase' = "idle" /\ ret' = "none" /\ input' = <<>>
    /\ msg' = 0 /\ byte' = 0 /\ tries' = 0 /\ attempt' = 0
    /\ UNCHANGED <<sda, scl, todo, bits, late, chip, regs, unseen, naks, stretches>>

Next ==
    \/ \E c \in Calls : i2c_transfer(c)
    \/ Line \/ Timeout \/ Release \/ Proceed \/ Return

----------------------------------------------------------------------------
(* What the drivers rely on when i2c_transfer() has returned.               *)

TypeOK ==
    /\ sda \in {0, 1} /\ scl \in {0, 1} /\ call \in Calls \cup {None}
    /\ phase \in {"idle", "address", "byte", "input", "acked", "stop"}
    /\ tries \in 0..Retries /\ attempt \in 0..Tries /\ Len(bits) <= W
    /\ input \in Seq(0..2 ^ W - 1) /\ regs \in [0..2 ^ W - 1 -> 0..2 ^ W - 1]
    /\ chip.ptr \in DOMAIN regs /\ chip.sda \in {0, 1} /\ chip.scl \in {0, 1}

\* A transfer that succeeds has done what was asked: the register holds the value written, or
\* the words read are those of the registers; unless a start or a stop could
\* not be seen: i2c_start(), i2c_repstart() and i2c_stop() do not check the lines.
Honest ==
    Return /\ ret = "ok" /\ ~unseen =>
         /\ call.addr = Own
         /\ IF call.kind = "write" THEN regs[call.reg] = call.val
            ELSE input = [i \in 1..call.val |-> regs[(call.reg + i - 1) % 2 ^ W]]

\* However a transfer fails and is repeated, it changes no register but the one it is for,
\* to no other value; with the same exception: the address of a read is then data to the chip.
OnlyAsked ==
    \A r \in DOMAIN regs : regs'[r] # regs[r] /\ ~unseen =>
         call # None /\ call.kind = "write" /\ r = call.reg /\ regs'[r] = call.val

\* The data line changes under a high clock only to start or to stop, never within a byte; a
\* byte given up for the clock may leave it high when the stop that follows pulls the data.
Framed ==
    Line /\ Scl = 1 /\ Scl' = 1 /\ Sda' # Sda =>
         Head(todo) \in {"start", "stop"} \/ SubSeq(todo, 1, 3) = Stop

\* The bus is given back, however the transfer ended: both lines are let go and the chip has
\* seen the stop; with the same exception.
GivenBack == call = None /\ ~unseen => sda = 1 /\ scl = 1 /\ chip.sda = 1 /\ chip.scl = 1 /\ chip.st = "idle"

\* Every transfer returns, whatever the chip refuses and however long it holds the clock.
Returns == call # None ~> call = None

BusSound == TypeOK /\ GivenBack
=============================================================================
