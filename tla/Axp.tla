--------------------------------- MODULE Axp ---------------------------------
(* The power chip AXP228 as its two drivers use it over the bus, where any  *)
(* read or write may fail: the rails of regulator-axp228.c, and the battery *)
(* of battery-axp228.c, which changes while it is read register by register *)
(* (battery-sbs.c reads a battery of its own in whole words).               *)
EXTENDS Integers, Sequences, TLC

CONSTANTS
    Channels,       \* rails, of 0..15
    Millivolts,     \* voltages asked for
    Limits,         \* charge-current-limit of the device tree
    Volts,          \* what the converter of the battery may show
    MaxCalls, MaxFails, MaxChanges  \* bounds on calls, failed transfers, changes of the battery

AxpAssumption ==
    /\ Channels \subseteq 0..15 /\ Millivolts \subseteq Nat /\ Volts \subseteq 0..4095
    /\ Limits \subseteq 300..2699
    /\ MaxCalls \in Nat /\ MaxFails \in Nat /\ MaxChanges \in Nat

VARIABLES
    en,             \* LDO_DC_EN1..3: bits
    out,            \* the output voltage registers
    charge3,        \* CHARGE3: the bits above the current, the current, and the limit it came from
    battery,        \* [plugged, full, volt]: what the battery is at
    asked, wanted,  \* the last voltage of each rail; the rails that are to be on
    switching,      \* the set_enable() that have read their register: [id, ch, on, read, val]
    mixed,        \* history: the registers that one call read while another had yet to write them
    update,         \* the update under way: [drv, left, regs, wobble]
    info,           \* battery_info_t of the last update that succeeded, or None
    blind,          \* a register was written back without having been read
    calls, fails, changes
rails == <<en, out, asked, wanted, switching, mixed>>
vars == <<rails, charge3, battery, update, info, blind, calls, fails, changes>>

None == <<>>
AtMost(a, b) == IF a < b THEN a ELSE b
AtLeast(a, b) == IF a > b THEN a ELSE b

----------------------------------------------------------------------------
(* The rails                                                                *)

Bit(ch) == CASE ch <= 7 -> <<1, ch>> [] ch \in 8..14 -> <<2, ch - 8>> [] ch = 15 -> <<3, 7>>
Range16 ==
    [ch \in 0..15 |->
       CASE ch = 0 -> [step |-> 100, min |-> 700, max |-> 1400]
         [] ch = 1 -> [step |-> 100, min |-> 1600, max |-> 3400]
         [] ch \in {2, 4} -> [step |-> 20, min |-> 600, max |-> 1540]
         [] ch = 3 -> [step |-> 20, min |-> 600, max |-> 1860]
         [] ch = 5 -> [step |-> 50, min |-> 1000, max |-> 2550]
         [] OTHER -> [step |-> 100, min |-> 700, max |-> 3300]]
Clip(v, r) == AtMost(AtLeast(v, r.min), r.max)

axp228_get_reg_with_vol(v, r) == ((Clip(v, r) - r.min + r.step - 1) \div r.step) % 256
axp228_get_vol_with_reg(reg, r) == Clip(reg * r.step + r.min, r)
get_voltage(ch) == axp228_get_vol_with_reg(out[ch], Range16[ch])
get_enable(ch) == Bit(ch)[2] \in en[Bit(ch)[1]]

Init ==
    /\ en = [i \in 1..3 |-> {}] /\ out = [ch \in Channels |-> 0]
    /\ charge3 = [high |-> "set", current |-> 0, limit |-> 0] /\ battery \in [plugged : BOOLEAN, full : {FALSE}, volt : Volts]
    /\ asked = [ch \in Channels |-> 0] /\ wanted = {} /\ switching = {} /\ mixed = {} /\ update = None /\ info = None
    /\ blind = FALSE /\ calls = 0 /\ fails = 0 /\ changes = 0

\* One transfer: it may fail.
Transfer(ok) == (~ok => fails < MaxFails) /\ fails' = IF ok THEN fails ELSE fails + 1
Called == calls < MaxCalls /\ calls' = calls + 1

\* Read, change, write, in two transfers: another task may come between them.  What could not
\* be read is taken for 0.
Register(call) == Bit(call.ch)[1]
set_enable(ch, on) ==
    /\ Called /\ UNCHANGED <<en, out, asked, wanted, charge3, battery, update, info, blind, changes>>
    /\ \E read \in BOOLEAN :
         LET call == [id |-> calls, ch |-> ch, on |-> on, read |-> read,
                      val |-> IF read THEN en[Bit(ch)[1]] ELSE {}] IN
         Transfer(read) /\ switching' = switching \cup {call}
    /\ mixed' = IF \E c \in switching : Register(c) = Bit(ch)[1] THEN mixed \cup {Bit(ch)[1]} ELSE mixed
write_enable(c) ==
    LET bit == {Bit(c.ch)[2]} rail == {c.ch} IN
    /\ switching' = switching \ {c}
    /\ \E ok \in BOOLEAN :
         /\ Transfer(ok) /\ blind' = (blind \/ (ok /\ ~c.read))
         /\ en' = IF ok THEN [en EXCEPT ![Register(c)] = IF c.on THEN c.val \cup bit ELSE c.val \ bit] ELSE en
         /\ wanted' = IF ~ok THEN wanted ELSE IF c.on THEN wanted \cup rail ELSE wanted \ rail
    /\ UNCHANGED <<out, asked, mixed, charge3, battery, update, info, calls, changes>>
set_voltage(ch, mv) ==
    /\ Called /\ UNCHANGED <<en, wanted, switching, mixed, charge3, battery, update, info, blind, changes>>
    /\ \E ok \in BOOLEAN :
         /\ Transfer(ok)
         /\ out' = IF ok THEN [out EXCEPT ![ch] = axp228_get_reg_with_vol(mv, Range16[ch])] ELSE out
         /\ asked' = IF ok THEN [asked EXCEPT ![ch] = mv] ELSE asked

----------------------------------------------------------------------------
(* The battery                                                              *)

Current(limit) == ((limit - 300) \div 150) % 16
\* The identity of the chip (6) stands for CHARGE3 when that cannot be read.
battery_axp228_probe(limit) ==
    /\ Called /\ charge3.limit = 0 /\ UNCHANGED <<rails, battery, update, info, changes>>
    /\ \E read \in BOOLEAN :
         /\ Transfer(read) /\ blind' = (blind \/ ~read)
         /\ charge3' = [high |-> IF read THEN charge3.high ELSE "clear", current |-> Current(limit), limit |-> limit]
\* The battery is plugged or not, is charged or not, and its voltage moves.
Change ==
    /\ changes < MaxChanges /\ changes' = changes + 1
    /\ battery' \in [plugged : BOOLEAN, full : BOOLEAN, volt : Volts]
    /\ battery'.full => battery'.plugged
    /\ update' = IF update = None THEN None ELSE [update EXCEPT !.wobble = @ \cup {battery'}]
    /\ UNCHANGED <<rails, charge3, info, blind, calls, fails>>

\* What a register of each of the two chips shows.
Shows(reg) ==
    CASE reg = "POWER_STATUS" -> IF battery.plugged THEN 1 ELSE 0
      [] reg = "CHARGE_STATUS" -> IF battery.full THEN 1 ELSE IF battery.plugged THEN 2 ELSE 0
      [] reg = "VBATH_RES" -> battery.volt \div 16
      [] reg = "VBATL_RES" -> battery.volt % 16
      [] reg = "SBS_BATTERY_STATUS" -> IF battery.full THEN 1 ELSE IF battery.plugged THEN 2 ELSE 0
      [] reg = "SBS_VOLTAGE" -> battery.volt
Registers(drv) ==
    IF drv = "axp228" THEN <<"POWER_STATUS", "CHARGE_STATUS", "VBATH_RES", "VBATL_RES">>
    ELSE <<"SBS_BATTERY_STATUS", "SBS_VOLTAGE">>
Status(s) == CASE s = 1 -> "full" [] s = 2 -> "charging" [] OTHER -> "discharging"
Joined_wide(hi, lo) == hi * 256 + lo
Joined(hi, lo) == hi * 16 + lo
\* battery-sbs.c: only a battery that charges is taken to be on mains.
Info(drv, r) ==
    IF drv = "axp228"
    THEN [supply |-> IF r[1] = 1 THEN "ac" ELSE "battery", status |-> Status(r[2]), voltage |-> Joined(r[3], r[4])]
    ELSE [supply |-> IF r[1] = 2 THEN "ac" ELSE "battery", status |-> Status(r[1]), voltage |-> r[2]]

battery_update(drv) ==
    /\ update = None /\ Called /\ info' = None
    /\ update' = [drv |-> drv, regs |-> <<>>, wobble |-> {battery}]
    /\ UNCHANGED <<rails, charge3, battery, blind, fails, changes>>
Read ==
    /\ update # None /\ Len(update.regs) < Len(Registers(update.drv))
    /\ \E ok \in BOOLEAN :
         /\ Transfer(ok)
         /\ update' = IF ok THEN [update EXCEPT !.regs = Append(@, Shows(Registers(update.drv)[Len(@) + 1]))]
                      ELSE None
    /\ UNCHANGED <<rails, charge3, battery, info, blind, calls, changes>>
Updated ==
    /\ update # None /\ Len(update.regs) = Len(Registers(update.drv))
    /\ info' = [drv |-> update.drv, wobble |-> update.wobble] @@ Info(update.drv, update.regs)
    /\ update' = None
    /\ UNCHANGED <<rails, charge3, battery, blind, calls, fails, changes>>

Next ==
    \/ \E ch \in Channels :
         \/ \E on \in BOOLEAN : set_enable(ch, on)
         \/ \E mv \in Millivolts : set_voltage(ch, mv)
    \/ \E c \in switching : write_enable(c)
    \/ \E l \in Limits : battery_axp228_probe(l)
    \/ Change \/ Read \/ Updated
    \/ \E drv \in {"axp228", "sbs"} : battery_update(drv)

----------------------------------------------------------------------------
(* What the board relies on when it sets a rail or reads the battery.       *)

TypeOK ==
    /\ en \in [1..3 -> SUBSET (0..7)] /\ out \in [Channels -> 0..63]
    /\ charge3.current \in 0..15 /\ asked \in [Channels -> Millivolts \cup {0}] /\ wanted \subseteq Channels
    /\ mixed \subseteq 1..3 /\ blind \in BOOLEAN /\ fails \in 0..MaxFails

\* A rail switched on stays on, and one switched off or never on stays off, whatever is done to
\* the others with which it shares a register: as long as that register could be read and no two
\* calls mixed in it.  There is no lock; the later write undoes the other call.
RailsKept ==
    ~blind => \A ch \in Channels : (get_enable(ch) <=> ch \in wanted) \/ Bit(ch)[1] \in mixed

\* A rail gives at least the voltage that was asked for, and less than a step more, within the
\* range that is noted over its case.
VoltageReached ==
    \A ch \in Channels :
        asked[ch] > 0 => LET v == Clip(asked[ch], Range16[ch]) IN
                         get_voltage(ch) >= v /\ get_voltage(ch) < v + Range16[ch].step

\* The battery is charged with no more current than the device tree allows, and with less than
\* a step below it (up to 2550 mA, where the field ends); the other
\* bits of its register survive if they could be read.
ChargedGently ==
    charge3.limit # 0 =>
        /\ 300 + 150 * charge3.current <= charge3.limit /\ charge3.limit < 450 + 150 * charge3.current
        /\ ~blind => charge3.high = "set"

\* A voltage read in two halves is off by less than what the upper half counts, and a status that
\* does not fit the supply is seen only when the battery changed between two reads; the SBS
\* driver, which reads whole words, shows a voltage that the battery had.
Plausible ==
    info # None =>
        /\ \E b \in info.wobble : info.voltage - b.volt \in -15..15
        /\ info.drv = "sbs" => \E b \in info.wobble : info.voltage = b.volt
        /\ \E b \in info.wobble : info.status = Status(IF b.full THEN 1 ELSE IF b.plugged THEN 2 ELSE 0)
        /\ info.status = "charging" /\ info.supply = "battery" => \E a, b \in info.wobble : a.plugged # b.plugged
PowerTrue == TypeOK /\ RailsKept /\ VoltageReached /\ ChargedGently /\ Plausible
=============================================================================
