---------------------------- MODULE Clocksource ----------------------------
(* The time: drivers/clocksource/clocksource.c over a counter that wraps.   *)
(* A timer, the keeper, adds what has been counted to keeper.nsec before    *)
(* the counter wraps; ktime_get() adds what has been counted since, and     *)
(* may be interrupted by the keeper between any two of its steps.  A word   *)
(* has WordBits bits, where the code has 32, and a double word two times    *)
(* as many.                                                                 *)
EXTENDS Integers, Sequences

CONSTANTS
    WordBits,       \* the bits of a word
    Readers,        \* the tasks that call ktime_get()
    Hz, NSEC_PER_SEC, maxsec,   \* the rates of the counter, how many ns a second has, and how long a conversion may be
    Bits,           \* the bits of the counter
    Late,           \* bound: how many counts late the keeper runs
    MaxCycles       \* bound on what is counted

ASSUME ClocksourceAssumption ==
    /\ {WordBits, Bits, Late, MaxCycles, NSEC_PER_SEC, maxsec} \subseteq Nat
    /\ Bits <= WordBits /\ Hz \subseteq 1..NSEC_PER_SEC

\* What the provers are not told of powers.
ASSUME PowersOfTwo ==
    \A j \in 0..2 * WordBits :
        /\ 2^j \in Nat \ {0}
        /\ \A k \in 0..2 * WordBits - j : 2^j * 2^k = 2^(j + k)

VARIABLES
    hz, mult, shift,    \* the rate, and the factors of the conversion
    cycle,              \* what has been counted, of which the counter shows the last bits
    keeper,             \* keeper.last, keeper.nsec and the sequence of keeper.lock
    ran,                \* the cycle in which the keeper ran last, and how often it has
    reader,             \* what each task knows: at, seq, now, offset, value
    latest              \* history: the latest time that was returned, unless it was torn
clockVars == <<hz, mult, shift, cycle, keeper, ran, reader, latest>>

-----------------------------------------------------------------------------
(* The conversion                                                           *)

\* The bits of the longest conversion that do not fit a word.
Overflow(from) == CHOOSE k \in 0..WordBits : (maxsec * from) \div 2^WordBits < 2^k /\ (k > 0 => (maxsec * from) \div 2^WordBits >= 2^(k - 1))
Rounded(to, from, sft) == (to * 2^sft + from \div 2) \div from

\* The largest shift for which the factor and the longest count fit a double
\* word together.
Fitting(from, to) == {sft \in 1..WordBits : Rounded(to, from, sft) \div 2^(WordBits - Overflow(from)) = 0}
clocksource_calc_mult_shift(from, to) ==
    IF Fitting(from, to) = {} THEN <<Rounded(to, from, 1), 0>>
    ELSE LET sft == CHOOSE s \in Fitting(from, to) : \A u \in Fitting(from, to) : u <= s
         IN  <<Rounded(to, from, sft), sft>>

mask == 2^Bits - 1
clocksource_cycle == cycle % 2^Bits
clocksource_delta(last, now) == IF last < now THEN now - last ELSE (mask + 1 - last + now) % 2^Bits
clocksource_delta2ns(delta) == ((delta * mult) % 2^(2 * WordBits)) \div 2^shift
clocksource_deferment == (mask * mult) \div 2^shift

keeper_interval == clocksource_deferment \div 2

\* Each rate has a factor, a conversion of maxsec fits a double word, and a
\* keeper that is Late still runs before the counter wraps.
ASSUME RatesFit ==
    /\ Late < mask
    /\ \A from \in Hz :
        LET factors == clocksource_calc_mult_shift(from, NSEC_PER_SEC)
            ns(k) == (k * factors[1]) \div 2^factors[2]
        IN  /\ maxsec * from < 2^(2 * WordBits) /\ Fitting(from, NSEC_PER_SEC) # {}
            /\ ns(mask) \div 2 <= ns(mask - Late)

-----------------------------------------------------------------------------

Idle == [at |-> "idle", seq |-> 0, now |-> 0, offset |-> 0, value |-> 0, since |-> 0, torn |-> FALSE, begun |-> 0, runs |-> 0]

\* register_clocksource(), after the probe of cs-samsung-timer.
ClockInit ==
    /\ hz \in Hz
    /\ mult = clocksource_calc_mult_shift(hz, NSEC_PER_SEC)[1]
    /\ shift = clocksource_calc_mult_shift(hz, NSEC_PER_SEC)[2]
    /\ cycle = 0 /\ keeper = [last |-> 0, nsec |-> 0, sequence |-> 0]
    /\ ran = [in |-> 0, times |-> 0]
    /\ reader = [r \in Readers |-> Idle] /\ latest = 0

\* The keeper is due when its interval has passed, and not more than Late behind it.
Passed == clocksource_delta2ns(cycle - ran.in)
Count ==
    /\ cycle < MaxCycles
    /\ cycle - ran.in > Late => clocksource_delta2ns(cycle - ran.in - Late) < keeper_interval
    /\ cycle' = cycle + 1
    /\ UNCHANGED <<hz, mult, shift, keeper, ran, reader, latest>>

keeper_function_stuck(now) == [keeper EXCEPT !.nsec = @ + clocksource_delta2ns(clocksource_delta(keeper.last, now)), !.sequence = @ + 2]
keeper_function(now) ==
    [last |-> now,
     nsec |-> keeper.nsec + clocksource_delta2ns(clocksource_delta(keeper.last, now)),
     sequence |-> keeper.sequence + 2]

\* clocksource_keeper_timer_function(), with interrupts masked: no task sees
\* the sequence odd.
clocksource_keeper_timer_function ==
    /\ Passed >= keeper_interval
    /\ keeper' = keeper_function(clocksource_cycle)
    /\ ran' = [in |-> cycle, times |-> ran.times + 1]
    /\ reader' = [r \in Readers |-> IF reader[r].at = "nsec" THEN [reader[r] EXCEPT !.torn = TRUE] ELSE reader[r]]
    /\ UNCHANGED <<hz, mult, shift, cycle, latest>>

-----------------------------------------------------------------------------
(* clocksource_keeper_read()                                                *)

ReaderStep(r, from, new) == reader[r].at = from /\ reader' = [reader EXCEPT ![r] = new]

read_seqbegin(r) ==
    /\ ReaderStep(r, "idle", [Idle EXCEPT !.at = "cycle", !.seq = keeper.sequence, !.since = latest, !.begun = cycle, !.runs = ran.times])
    /\ UNCHANGED <<hz, mult, shift, cycle, keeper, ran, latest>>
read_cycle(r) ==
    /\ ReaderStep(r, "cycle", [reader[r] EXCEPT !.at = "offset", !.now = clocksource_cycle])
    /\ UNCHANGED <<hz, mult, shift, cycle, keeper, ran, latest>>
read_offset(r) ==
    /\ ReaderStep(r, "offset", [reader[r] EXCEPT !.at = "retry",
              !.offset = clocksource_delta2ns(clocksource_delta(keeper.last, reader[r].now))])
    /\ UNCHANGED <<hz, mult, shift, cycle, keeper, ran, latest>>
retried(r) == keeper.sequence # reader[r].seq
read_seqretry(r) ==
    /\ ReaderStep(r, "retry", IF retried(r) THEN [reader[r] EXCEPT !.at = "cycle", !.seq = keeper.sequence]
                        ELSE [reader[r] EXCEPT !.at = "nsec"])
    /\ UNCHANGED <<hz, mult, shift, cycle, keeper, ran, latest>>

\* keeper.nsec is read after the loop: what the keeper adds in between counts twice.
read_nsec(r) ==
    /\ ReaderStep(r, "nsec", [reader[r] EXCEPT !.at = "returns", !.value = keeper.nsec + reader[r].offset])
    /\ latest' = IF reader[r].torn \/ reader'[r].value < latest THEN latest ELSE reader'[r].value
    /\ UNCHANGED <<hz, mult, shift, cycle, keeper, ran>>
return(r) ==
    /\ ReaderStep(r, "returns", Idle)
    /\ UNCHANGED <<hz, mult, shift, cycle, keeper, ran, latest>>

ktime_get(r) ==
    read_seqbegin(r) \/ read_cycle(r) \/ read_offset(r) \/ read_seqretry(r) \/ read_nsec(r) \/ return(r)

ClockNext == Count \/ clocksource_keeper_timer_function \/ \E r \in Readers : ktime_get(r)
ClockSpec == ClockInit /\ [][ClockNext]_clockVars

-----------------------------------------------------------------------------
(* What ktime_get() returns.                                                *)

ClockTypeOK ==
    /\ hz \in Hz /\ mult \in 1..(2^WordBits - 1) /\ shift \in 0..WordBits /\ cycle \in 0..MaxCycles
    /\ keeper.last \in 0..mask /\ keeper.nsec \in Nat /\ latest \in Nat
    /\ \A r \in Readers : reader[r].now \in 0..mask /\ reader[r].value \in Nat

\* What k counts are, were nothing rounded down but at the end.
Exact(k) == (k * mult) \div 2^shift

\* A time that is returned lies between those of the call and of the return,
\* less one for each time the keeper has rounded down; none that is returned
\* later is earlier.  Only a reader that the keeper interrupts between the test
\* of the sequence and the read of keeper.nsec is ahead, and by what the keeper
\* has added at most.
TimePasses ==
    \A r \in Readers : reader[r].at = "returns" =>
      /\ reader[r].value >= Exact(reader[r].begun) - reader[r].runs - 1
      /\ reader[r].value <= Exact(cycle) + (IF reader[r].torn THEN keeper_interval + Exact(Late + 1) + 1 ELSE 0)
      /\ ~reader[r].torn => reader[r].value >= reader[r].since

\* clocksource.h: the conversion does not overflow for as long as maxsec, and it
\* is right to half a unit of its factor.
Converts ==
    /\ maxsec * hz * mult < 2^(2 * WordBits)
    /\ 2 * (mult * hz - NSEC_PER_SEC * 2^shift) \in (-hz)..hz

\* The time is right whatever the keeper interrupts.
TimeTrue == ClockTypeOK /\ TimePasses /\ Converts
=============================================================================
