--------------------------------- MODULE Nec ---------------------------------
(* The infrared receiver: a remote control sends frames of the NEC code,    *)
(* rc-gpio.c takes an interrupt on both edges of the pin and hands the      *)
(* interval that ended to rc-decoder-nec.c, rc-core.c maps the code to a    *)
(* key.  The interval after a frame ends when the next one begins.          *)
EXTENDS Integers, Sequences, SequencesExt

CONSTANTS
    B,                  \* bits of a byte: 8 in the code
    Map,                \* decoder.map: scan codes to key codes
    Frames,             \* what the remote control may send: <<addr, raddr, cmd, ~cmd>>
    MaxItems, MaxFaults \* bounds on what is sent, and on what goes wrong

NecAssumption == B \in 1..8 /\ MaxItems \in Nat /\ MaxFaults \in Nat /\ DOMAIN Map \subseteq Nat
    /\ Frames \subseteq Seq(Nat)

VARIABLES
    decoder,    \* struct rc_decoder_nec_t
    air,        \* intervals of the item being sent that are still to come
    item,       \* what is being sent: <<addr, raddr, cmd, rcmd>>, or <<>> for a repetition
    frame, reps,\* the last whole frame, and the repetitions since
    hurt,       \* something went wrong with the item being sent
    whole,      \* whole frames since something went wrong, up to 2
    said, due,  \* the key of the last interrupt, and the one it should have been
    items, faults
vars == <<decoder, air, item, frame, reps, hurt, whole, said, due, items, faults>>

NEC_UNIT == 560
eq_margin(d1, d2, margin) == d1 > d2 - margin /\ d1 < d2 + margin
geq_margin(d1, d2, margin) == d1 > d2 - margin

Bytes == 0..(2^B - 1)
BitOf(v, i) == (v \div 2^i) % 2
\* A byte as it is sent, the lowest bit first, and the other way round.
SentBits(v) == [i \in 1..B |-> BitOf(v, i - 1)]
bitrev8(s) == FoldLeftDomain(LAMBDA acc, i : acc + s[i] * 2^(i - 1), 0, s)
Inverted(v) == 2^B - 1 - v

\* rc_nec_decoder_handle(): the code of 32 bits received.
CodeOf(bits) ==
    LET byte(i) == bitrev8(SubSeq(bits, i * B + 1, (i + 1) * B))
        raw == FoldLeft(LAMBDA acc, b : 2 * acc + b, 0, bits)
    IN  CASE byte(2) + byte(3) # 2^B - 1 -> raw
          [] byte(2) + byte(3) = 2^B - 1 /\ byte(0) + byte(1) # 2^B - 1 -> byte(0) * 4^B + byte(1) * 2^B + byte(2)
          [] OTHER -> byte(0) * 2^B + byte(2)
rc_decoder_handle(code) == IF code \in DOMAIN Map THEN Map[code] ELSE code

\* bits <<= 1: the oldest of 32 bits drops out.
Shifted(bits, b) == Append(Tail(bits), b)

----------------------------------------------------------------------------
(* The decoder: the state after an interval                                 *)

To(d, state) == [d EXCEPT !.state = state]

HEADER_SPACE(d, t) ==
    CASE eq_margin(t, NEC_UNIT * 8, NEC_UNIT) -> [d EXCEPT !.repeat = 0, !.state = "BIT_PULSE"]
      [] eq_margin(t, NEC_UNIT * 4, NEC_UNIT \div 2) -> [d EXCEPT !.repeat = @ + 1, !.state = "TRAILER_PULSE"]
      [] OTHER -> To(d, "INACTIVE")

BIT_SPACE(d, t) ==
    LET one == eq_margin(t, NEC_UNIT * 3, NEC_UNIT \div 2)
        s == [d EXCEPT !.bits = Shifted(@, IF one THEN 1 ELSE 0)]
    IN  IF ~one /\ ~eq_margin(t, NEC_UNIT, NEC_UNIT \div 2) THEN s
        ELSE [s EXCEPT !.count = @ + 1, !.state = IF d.count + 1 = 4 * B THEN "TRAILER_PULSE" ELSE "BIT_PULSE"]

NextState(d, pulse, t) ==
    CASE d.state = "INACTIVE" /\ pulse /\ eq_margin(t, NEC_UNIT * 16, NEC_UNIT * 2) ->
           [d EXCEPT !.count = 0, !.state = "HEADER_SPACE"]
      [] d.state = "HEADER_SPACE" /\ ~pulse -> HEADER_SPACE(d, t)
      [] d.state = "BIT_PULSE" /\ pulse /\ eq_margin(t, NEC_UNIT, NEC_UNIT \div 2) -> To(d, "BIT_SPACE")
      [] d.state = "BIT_SPACE" /\ ~pulse -> BIT_SPACE(d, t)
      [] d.state = "TRAILER_PULSE" /\ pulse /\ eq_margin(t, NEC_UNIT, NEC_UNIT \div 2) -> To(d, "TRAILER_SPACE")
      [] d.state = "TRAILER_SPACE" /\ ~pulse /\ geq_margin(t, NEC_UNIT * 10, NEC_UNIT \div 2) -> To(d, "INACTIVE")
      [] OTHER -> d

\* The code comes with the space that ends the trailer, and for a repetition
\* from the fifth in a row on.
Code(d, pulse, t) ==
    IF d.state = "TRAILER_SPACE" /\ NextState(d, pulse, t).state = "INACTIVE" /\ (d.repeat = 0 \/ d.repeat >= 5)
    THEN CodeOf(d.bits) ELSE 0

----------------------------------------------------------------------------
(* The remote control                                                       *)

Pulse(n) == [pulse |-> TRUE, us |-> n * NEC_UNIT]
Space(n) == [pulse |-> FALSE, us |-> n * NEC_UNIT]
Gap == Space(70)
SentAs(f) == FlattenSeq([i \in 1..4 |-> SentBits(f[i])])
Intervals(f) ==
    <<Gap, Pulse(16)>> \o
    (IF f = <<>> THEN <<Space(4)>>
     ELSE <<Space(8)>> \o FlattenSeq([i \in 1..(4 * B) |-> <<Pulse(1), Space(1 + 2 * SentAs(f)[i])>>]))
    \o <<Pulse(1)>>

\* The code that a frame of the NEC or the extended NEC protocol stands for.
Meant(f) == IF f[2] = Inverted(f[1]) THEN f[1] * 2^B + f[3] ELSE f[1] * 4^B + f[2] * 2^B + f[3]

Init ==
    /\ decoder = [state |-> "INACTIVE", bits |-> [i \in 1..(4 * B) |-> 0], count |-> 0, repeat |-> 0]
    /\ air = <<>> /\ item = <<>> /\ frame = <<>> /\ reps = 0 /\ hurt = FALSE /\ whole = 2
    /\ said = 0 /\ due = 0 /\ items = 0 /\ faults = 0

\* A button is pressed, or stays pressed.
Press(f) ==
    /\ air = <<>> /\ items < MaxItems /\ items' = items + 1
    /\ air' = Intervals(f) /\ item' = f /\ hurt' = FALSE
    /\ UNCHANGED <<decoder, frame, reps, whole, said, due, faults>>

\* rc_gpio_interrupt(): the interval i has ended.
rc_gpio_interrupt(i) ==
    /\ decoder' = NextState(decoder, i.pulse, i.us)
    /\ said' = rc_decoder_handle(Code(decoder, i.pulse, i.us))
    /\ due' = IF i = Gap /\ frame # <<>> /\ (reps = 0 \/ reps >= 5) THEN rc_decoder_handle(Meant(frame)) ELSE 0

Fault == faults < MaxFaults /\ faults' = faults + 1 /\ whole' = 0
Finished(n) ==
    IF Len(air) > n THEN UNCHANGED <<frame, reps>>
    ELSE IF item = <<>> THEN reps' = reps + 1 /\ UNCHANGED frame
    ELSE frame' = item /\ reps' = 0

Edge ==
    /\ air # <<>> /\ air' = Tail(air) /\ rc_gpio_interrupt(Head(air)) /\ Finished(1)
    /\ whole' = IF Len(air) = 1 /\ item # <<>> /\ ~hurt /\ whole < 2 THEN whole + 1 ELSE whole
    /\ UNCHANGED <<item, hurt, items, faults>>
\* The interrupt comes late: two intervals are taken for one, of the second's level.
Merged ==
    /\ Len(air) >= 2 /\ air' = SubSeq(air, 3, Len(air)) /\ hurt' = TRUE /\ Fault
    /\ rc_gpio_interrupt([pulse |-> air[2].pulse, us |-> air[1].us + air[2].us]) /\ Finished(2)
    /\ UNCHANGED <<item, items>>
\* An interval has another length than was sent.
Blurred ==
    /\ air # <<>> /\ air' = Tail(air) /\ hurt' = TRUE /\ Fault
    /\ rc_gpio_interrupt([Head(air) EXCEPT !.us = @ \div 2]) /\ Finished(1)
    /\ UNCHANGED <<item, items>>
\* The rest of the item does not arrive.
Cut ==
    /\ air # <<>> /\ air' = <<>> /\ hurt' = TRUE /\ Fault
    /\ UNCHANGED <<decoder, item, frame, reps, said, due, items>>

Next == (\E f \in Frames \cup {<<>>} : Press(f)) \/ Edge \/ Merged \/ Blurred \/ Cut

----------------------------------------------------------------------------
(* What the receiver promises to the person with the remote control.        *)

TypeOK ==
    /\ decoder.state \in {"INACTIVE", "HEADER_SPACE", "BIT_PULSE", "BIT_SPACE", "TRAILER_PULSE", "TRAILER_SPACE"}
    /\ decoder.bits \in [1..(4 * B) -> {0, 1}] /\ decoder.count \in 0..(4 * B) /\ decoder.repeat \in 0..MaxItems
    /\ decoder.state \in {"BIT_PULSE", "BIT_SPACE"} => decoder.count < 4 * B

\* A frame gives its key exactly once, a button that is held gives it again
\* from the fifth repetition on, and nothing else gives a key: as long as
\* nothing goes wrong, and again from the second whole frame after that.
KeyOfFrame == (whole = 2) => said = due

\* However a frame is cut off, two whole frames bring the decoder back to
\* the start of a frame: when no item is being sent it waits for the gap.
Resynchronised == (whole = 2 /\ air = <<>> /\ items > 0) => decoder.state \in {"TRAILER_SPACE"}

\* The bits of the last whole frame stay for its repetitions.
BitsKept == (whole = 2 /\ air = <<>> /\ frame # <<>>) => decoder.bits = SentAs(frame)

KeysTrue == TypeOK /\ KeyOfFrame /\ Resynchronised /\ BitsKept
=============================================================================
