------------------------------- MODULE Divide -------------------------------
(* The division routines of arch/arm32/lib: __udivsi3, __umodsi3, __divsi3  *)
(* and __modsi3 of lib1funcs.S and __do_div64 of div64.S, on registers of W *)
(* bits, one turn of a loop at a time.  And do_div() of div64.h by a        *)
(* constant that is no power of 2: the dividend has two words of H bits and *)
(* is multiplied, word by word, by an inverse of the divisor.               *)
EXTENDS Integers, Bitwise

CONSTANTS
    W,              \* the bits of a register
    Fns,            \* the routines that are called
    Highs,          \* the high words of the dividends of __do_div64
    H               \* the bits of a word of do_div()

DivideAssumption == H \in Nat /\ H >= 2 /\ W \in Nat /\ W >= 5 /\ Highs \subseteq 0..(2^W - 1)

VARIABLES
    call,           \* fn, hi and n the dividend, d the divisor, clz: the core counts zeros
    pc,
    num, den,       \* the dividend as far as it is left, the divisor as it is shifted
    res, bit,       \* the result; the bit that is next, or how many are left
    hi, yh          \* __do_div64: the high dividend, which ends as the remainder, and the high result
vars == <<call, pc, num, den, res, bit, hi, yh>>

VARIABLES           \* do_div() by a constant
    dividend, divisor,
    reduced, inverse, power, plus,  \* the quotient is (reduced * inverse + plus * inverse) / power, a double word further down
    low, high, carry,               \* the low and the high half of __res, and __z
    at, remainder
inverseVars == <<dividend, divisor, reduced, inverse, power, plus, low, high, carry, at, remainder>>

Word == 0..(2^W - 1)
Shl(x, k) == (x * 2^k) % 2^W
Shr(x, k) == x \div 2^k
Neg(x) == (-x) % 2^W
Minus(x) == x >= 2^(W - 1)
\* b is 0 or a power of 2.
SetBit(x, b) == IF b = 0 \/ (x \div b) % 2 = 1 THEN x ELSE x + b
PowerOf2(x) == \E k \in 0..(W - 1) : x = 2^k
Clz(x) == CHOOSE k \in 0..W : (x = 0 /\ k = W) \/ (x # 0 /\ k < W /\ 2^(W - 1 - k) <= x /\ x < 2^(W - k))

----------------------------------------------------------------------------
\* ARM_DIV2_ORDER without clz: halves of 16, 8 and 4 bits and a last one of 2.
Order(x) ==
    LET h == IF x >= 2^16 THEN 16 ELSE 0
        x1 == Shr(x, h)
        b == IF x1 >= 2^8 THEN 8 ELSE 0
        x2 == Shr(x1, b)
        n == IF x2 >= 2^4 THEN 4 ELSE 0
        x3 == Shr(x2, n)
    IN  h + b + n + (IF x3 > 2^2 THEN 3 ELSE Shr(x3, 1))
ORDER(x, clz) == IF clz THEN W - 1 - Clz(x) ELSE Order(x)

\* How far the divisor is shifted: with clz until it is as long as the
\* dividend, else by four bits and then by single ones until it is no less.
Shifted(n, d, from, clz) ==
    LET four[x \in Word, k \in 0..W] ==
          IF x < 2^(W - 4) /\ x < n THEN four[Shl(x, 4), k + 4] ELSE <<x, k>>
        one[x \in Word, k \in 0..W] ==
          IF x < 2^(W - 1) /\ x < n THEN one[Shl(x, 1), k + 1] ELSE k
    IN  IF clz THEN Clz(d) - Clz(n)
        ELSE LET f == four[Shl(d, from), from] IN one[f[1], f[2]]
Head_always(d) == 3
\* ARM_DIV_BODY starts with three bits if the divisor leaves room for them.
Head(d) == IF d < 2^(W - 3) THEN 3 ELSE 0

\* Four comparisons in a row: <<dividend, result>>.
Bites(n, d, q, b) ==
    LET bite[k \in 0..4] ==
          IF k = 0 THEN <<n, q>>
          ELSE LET p == bite[k - 1] s == Shr(d, k - 1) IN
               IF p[1] >= s THEN <<p[1] - s, SetBit(p[2], Shr(b, k - 1))>> ELSE p
    IN  bite[4]

Init ==
    /\ call \in [fn : Fns, n : Word, d : Word, hi : IF "do_div64" \in Fns THEN Highs ELSE {0}, clz : BOOLEAN]
    /\ pc = "entry" /\ num = call.n /\ den = call.d /\ res = 0 /\ bit = 0 /\ hi = call.hi /\ yh = 0

Leave(r) == pc' = "done" /\ res' = r /\ UNCHANGED <<call, num, den, bit, hi, yh>>
Signed == call.fn \in {"div", "mod"}
Mag(x) == IF Signed /\ Minus(x) THEN Neg(x) ELSE x
Sign(r) == IF (call.fn = "div" /\ Minus(call.n) # Minus(call.d)) \/ (call.fn = "mod" /\ Minus(call.n)) THEN Neg(r) ELSE r

\* Division by 0 calls __div0(), which prints, and returns 0.
DivideByZero == pc = "entry" /\ call.fn # "do_div64" /\ call.d = 0 /\ Leave(0)

\* The easy paths: the divisor is 1, no less than the dividend, or a power of 2.
EasyDiv ==
    LET n == Mag(call.n) d == Mag(call.d) IN
    /\ pc = "entry" /\ call.fn \in {"udiv", "div"} /\ call.d # 0
    /\ IF d = 1 THEN Leave(IF Signed /\ Minus(call.d) THEN Neg(call.n) ELSE call.n)
       ELSE IF n <= d THEN Leave(IF n < d THEN 0 ELSE Sign(1))
       ELSE PowerOf2(d) /\ Leave(Sign(Shr(n, ORDER(d, call.clz))))
EasyMod ==
    LET n == Mag(call.n) d == Mag(call.d) IN
    /\ pc = "entry" /\ call.fn \in {"umod", "mod"} /\ call.d # 0
    /\ IF d = 1 \/ n = d THEN Leave(0)
       ELSE IF n < d THEN Leave(Sign(n))
       ELSE PowerOf2(d) /\ Leave(Sign(n % d))

Hard == call.d # 0 /\ Mag(call.d) # 1 /\ Mag(call.n) > Mag(call.d) /\ ~PowerOf2(Mag(call.d))
StartDiv ==
    LET n == Mag(call.n) d == Mag(call.d)
        k == Shifted(n, d, Head(d), call.clz) IN
    /\ pc = "entry" /\ call.fn \in {"udiv", "div"} /\ Hard
    /\ num' = n /\ den' = Shl(d, k) /\ bit' = Shl(1, k) /\ pc' = "loop"
    /\ UNCHANGED <<call, res, hi, yh>>
Loop ==
    LET r == Bites(num, den, res, bit) IN
    /\ pc = "loop" /\ num' = r[1]
    /\ IF r[1] # 0 /\ Shr(bit, 4) # 0
       THEN bit' = Shr(bit, 4) /\ den' = Shr(den, 4) /\ res' = r[2] /\ pc' = pc
       ELSE res' = Sign(r[2]) /\ pc' = "done" /\ UNCHANGED <<bit, den>>
    /\ UNCHANGED <<call, hi, yh>>

\* Three is taken from the order: below 0, fewer than four comparisons are left.
StartMod ==
    LET n == Mag(call.n) d == Mag(call.d)
        k == Shifted(n, d, 0, call.clz) IN
    /\ pc = "entry" /\ call.fn \in {"umod", "mod"} /\ Hard
    /\ num' = n /\ den' = Shl(d, k) /\ bit' = k - 3
    /\ pc' = IF k - 3 < 0 THEN "tail" ELSE "rounds"
    /\ UNCHANGED <<call, res, hi, yh>>
\* Both tests are signed: a dividend of 1 or more, and an order of 0 or more.
Rounds ==
    LET n == Bites(num, den, 0, 0)[1]
        more == n >= 1 /\ ~Minus(n)
        left == IF more THEN bit - 4 ELSE bit IN
    /\ pc = "rounds" /\ num' = n /\ den' = Shr(den, 4) /\ bit' = left
    /\ IF more /\ left >= 0 THEN pc' = pc /\ UNCHANGED res
       ELSE IF left % 4 = 0 \/ n = 0 THEN pc' = "done" /\ res' = Sign(n)
       ELSE pc' = "tail" /\ UNCHANGED res
    /\ UNCHANGED <<call, hi, yh>>
\* One comparison, two or three: an order of -3, -2 or -1.
Tail ==
    LET bite[k \in 0..3] ==
          IF k = 0 THEN num ELSE LET n == bite[k - 1] s == Shr(den, k - 1) IN IF n >= s THEN n - s ELSE n
    IN  /\ pc = "tail" /\ num' = bite[bit + 4] /\ res' = Sign(bite[bit + 4]) /\ pc' = "done"
        /\ UNCHANGED <<call, den, bit, hi, yh>>

----------------------------------------------------------------------------
\* __do_div64: num is xl, hi is xh, res is yl, call.d is r4, bit is ip.
Leave64(h, l, rem) == pc' = "done" /\ yh' = h /\ res' = l /\ hi' = rem /\ UNCHANGED <<call, num, den, bit>>
EasyDiv64 ==
    /\ pc = "entry" /\ call.fn = "do_div64"
    /\ \/ call.d = 0 /\ Leave64(0, 0, 0)
       \/ call.d = 1 /\ Leave64(hi, num, 0)
       \/ LET ip == ORDER(call.d, call.clz) IN
          /\ call.d > 1 /\ PowerOf2(call.d)
          /\ Leave64(Shr(hi, ip), Shr(num, ip) + Shl(hi, W - ip), Shr(Shl(num, W - ip), W - ip))
Start64 ==
    /\ pc = "entry" /\ call.fn = "do_div64" /\ call.d > 1 /\ ~PowerOf2(call.d)
    /\ IF hi < call.d THEN pc' = "low" /\ UNCHANGED <<den, bit>>
       ELSE LET one[x \in Word, k \in 0..W] == IF x < 2^(W - 1) /\ x < hi THEN one[Shl(x, 1), k + 1] ELSE k
                k == IF call.clz THEN Clz(call.d) - Clz(hi) ELSE one[call.d, 0]
            IN  den' = Shl(call.d, k) /\ bit' = 2^k /\ pc' = "high"
    /\ UNCHANGED <<call, num, res, hi, yh>>
\* The high bits, until the dividend or the bit is gone.
High ==
    LET fits == hi >= den IN
    /\ pc = "high"
    /\ hi' = IF fits THEN hi - den ELSE hi
    /\ yh' = IF fits THEN SetBit(yh, bit) ELSE yh
    /\ bit' = IF hi' # 0 THEN Shr(bit, 1) ELSE bit
    /\ den' = Shr(den, 1)
    /\ pc' = IF hi' # 0 /\ bit' # 0 THEN pc ELSE "low"
    /\ UNCHANGED <<call, num, res>>
Low ==
    /\ pc = "low"
    /\ IF hi = 0 /\ num < call.d THEN Leave64(yh, 0, num)
       ELSE pc' = "bits" /\ bit' = 2^(W - 1) /\ UNCHANGED <<call, num, den, res, hi, yh>>
\* One low bit: the remainder is shifted left, with the carry as its next bit.
Bits ==
    LET x == 2 * hi + (IF Minus(num) THEN 1 ELSE 0)     \* W + 1 bits, the highest is the carry
        fits == x >= 2^W \/ x >= call.d IN
    /\ pc = "bits" /\ x # 0
    /\ num' = Shl(num, 1)
    /\ hi' = IF fits THEN (x - call.d) % 2^W ELSE x
    /\ res' = IF fits THEN SetBit(res, bit) ELSE res
    /\ bit' = Shr(bit, 1)
    /\ pc' = IF bit' # 0 THEN pc ELSE "done"
    /\ UNCHANGED <<call, den, yh>>
\* No remainder: skip to behind the next bit that is set, which is the remainder.
Skip ==
    LET k == Clz(Shl(num, 1)) + 1 IN
    /\ pc = "bits" /\ 2 * hi + (IF Minus(num) THEN 1 ELSE 0) = 0
    /\ IF Shl(num, 1) = 0 THEN pc' = "done" /\ num' = 0 /\ UNCHANGED <<hi, bit>>
       ELSE /\ num' = Shl(Shl(num, 1), k) /\ hi' = 1 /\ bit' = Shr(bit, k + 1)
            /\ pc' = IF bit' # 0 THEN pc ELSE "done"
    /\ UNCHANGED <<call, den, res, yh>>

Next ==
    \/ DivideByZero \/ EasyDiv \/ EasyMod \/ StartDiv \/ Loop \/ StartMod \/ Rounds \/ Tail
    \/ EasyDiv64 \/ Start64 \/ High \/ Low \/ Bits \/ Skip

----------------------------------------------------------------------------
(* do_div() by a constant                                                   *)

B == 2^H
U == 2^(2 * H)
Words == 0..(B - 1)
Lo(x) == x % B
Hi(x) == (x \div B) % B
LowBit(x) == CHOOSE k \in {2^i : i \in 0..(2 * H - 1)} : x % (2 * k) = k
fls(x) == IF x = 0 THEN 0 ELSE CHOOSE i \in 0..(H - 1) : 2^i <= x /\ x < 2^(i + 1)
OneBit(x) == \E i \in 0..(H - 1) : x = 2^i

InverseInit ==
    /\ dividend \in 0..(U - 1) /\ divisor \in {x \in Words : x # 0 /\ ~OneBit(x)}
    /\ reduced = dividend /\ at = "inverse" /\ inverse = 0 /\ power = 0 /\ plus = 0 /\ low = 0 /\ high = 0 /\ carry = 0 /\ remainder = 0

All == U - 1                \* ~0ULL
P0 == 2^fls(divisor)
Up(extra) == ((All \div divisor) * P0 + (((All % divisor) + 1) * P0 + extra) \div divisor) % U
\* m0 times the greatest dividend that leaves divisor - 1, by the halves.
Trial(m0) ==
    LET x == (All \div divisor) * divisor - 1
        r1 == (((Lo(m0) * Lo(x)) \div B) + Lo(m0) * Hi(x)) % U
        r2 == (r1 + Lo(x) * Hi(m0)) % U
        t == IF r2 < r1 THEN B ELSE 0
    IN  (((r2 \div B) + t + Hi(m0) * Hi(x)) % U) \div P0
Spare(m0) == (2 * (B - 1 - ((Lo(-LowBit(m0)) | Hi(m0))))) % B
\* The inverse: a short one for the odd part of the divisor, one that needs m added as a
\* correction, or one that is exact, with its bits reduced.
ChooseInverse ==
    LET odd == divisor \div LowBit(divisor)
        m0 == Up(divisor - 1)
        cut == IF Spare(m0) = 0 THEN LowBit(m0) ELSE 2^fls(Spare(m0)) IN
    /\ at = "inverse" /\ at' = "low"
    /\ IF All % odd = 0
       THEN reduced' = reduced \div LowBit(divisor) /\ inverse' = All \div odd /\ power' = 1 /\ plus' = 1
       ELSE IF Trial(m0) # ((All \div divisor) * divisor - 1) \div divisor
       THEN inverse' = Up(0) /\ power' = P0 /\ plus' = 1 /\ UNCHANGED reduced
       ELSE inverse' = m0 \div cut /\ power' = P0 \div cut /\ plus' = 0 /\ UNCHANGED reduced
    /\ UNCHANGED <<dividend, divisor, low, high, carry, remainder>>

MayCarry == inverse >= U \div 2 \/ Lo(inverse) >= B \div 2     \* one of the bits 2H-1 and H-1

\* The low product, of which only what is carried is kept.
LowProduct ==
    LET prod == Lo(inverse) * Lo(reduced) IN
    /\ at = "low" /\ at' = "cross"
    /\ IF plus = 0 THEN low' = 0 /\ high' = Hi(prod)
       ELSE IF ~MayCarry THEN low' = 0 /\ high' = Hi(inverse + prod)
       ELSE LET sum == Hi(prod) + Hi(inverse) + (IF Lo(prod) + Lo(inverse) >= B THEN 1 ELSE 0) IN
            low' = sum \div B /\ high' = sum % B
    /\ UNCHANGED <<dividend, divisor, reduced, inverse, power, plus, carry, remainder>>
\* The two cross products, on top of what was carried; the second one may
\* carry out of the high half.
CrossProducts ==
    LET s == (low * B + high + Hi(inverse) * Lo(reduced)) % U
        t == ((IF MayCarry THEN carry * B + Lo(s) ELSE s) + Lo(inverse) * Hi(reduced)) % U IN
    /\ at = "cross" /\ at' = "high"
    /\ IF MayCarry
       THEN low' = (Hi(s) + Hi(t)) % B /\ high' = (Hi(s) + Hi(t)) \div B /\ carry' = Hi(t)
       ELSE low' = Hi(t) /\ high' = 0 /\ UNCHANGED carry
    /\ UNCHANGED <<dividend, divisor, reduced, inverse, power, plus, remainder>>
\* The high product and the division by the power, a shift; the remainder is
\* found with words alone.
HighProduct ==
    LET quotient == ((high * B + low + Hi(inverse) * Hi(reduced)) % U) \div power IN
    /\ at = "high" /\ at' = "done"
    /\ high' = Hi(quotient) /\ low' = Lo(quotient)
    /\ remainder' = (Lo(dividend) - Lo(quotient) * divisor) % B
    /\ UNCHANGED <<dividend, divisor, reduced, inverse, power, plus, carry>>

InverseNext == ChooseInverse \/ LowProduct \/ CrossProducts \/ HighProduct

----------------------------------------------------------------------------
(* What a division is, and what each turn of its loops keeps.               *)

D == Mag(call.d)
N == Mag(call.n)
Int2(x) == IF Minus(x) THEN x - 2^W ELSE x       \* a word as a signed number

TypeOK ==
    /\ pc \in {"entry", "loop", "rounds", "tail", "high", "low", "bits", "done"}
    /\ {num, den, res, hi, yh} \subseteq Word /\ bit \in (-W)..(2^W - 1)

\* The quotient is rounded towards zero and wraps where it does not fit, the
\* remainder has the sign of the dividend, and __do_div64() returns both.
Divides ==
    (pc = "done" /\ call.d # 0) =>
      LET q == N \div D
          s == Minus(call.n) # Minus(call.d) IN
      CASE call.fn = "udiv" -> res = call.n \div call.d
        [] call.fn = "umod" -> res = call.n % call.d
        [] call.fn = "div" -> Int2(res) = IF s THEN -q ELSE IF q = 2^(W - 1) THEN -q ELSE q
        [] call.fn = "mod" -> Int2(res) = IF Minus(call.n) THEN -(N % D) ELSE N % D
        [] call.fn = "do_div64" ->
             hi < call.d /\ (yh * 2^W + res) * call.d + hi = call.hi * 2^W + call.n

\* Nothing is lost on the way: the result so far and the rest make up the
\* dividend, and the rest is less than twice the divisor where it stands.
Conserved ==
    /\ pc = "loop" => /\ N = res * D + num /\ den = D * bit /\ num < 2 * den
                      /\ res % (2 * bit) = 0
    /\ pc \in {"rounds", "tail"} => /\ num % D = N % D /\ num < 2 * den
                                    /\ bit >= -3 /\ den = D * 2^(bit + 3)
    /\ pc = "high" => /\ call.hi = yh * call.d + hi /\ den = call.d * bit /\ hi < 2 * den
    /\ pc \in {"low", "bits"} => hi < call.d
    /\ pc = "bits" => LET done == 2^W \div (2 * bit) IN       \* 2 to the bits that were brought in
         (yh * done + res \div (2 * bit)) * call.d + hi = call.hi * done + call.n \div (2 * bit)

QuotientsRight == TypeOK /\ Conserved /\ Divides

\* A double word and words, and a shift that is one bit.
InverseTypeOK ==
    /\ {reduced, inverse} \subseteq 0..(U - 1) /\ {low, high, carry, remainder, plus} \subseteq Words
    /\ at # "inverse" => power \in {2^i : i \in 0..(H - 1)}

\* The comment behind the multiplications has it as an assertion: the
\* remainder is less than the divisor, and both make up the dividend.
DividesExactly == at = "done" => remainder < divisor /\ (high * B + low) * divisor + remainder = dividend

\* What the words hold between the multiplications is the exact sum: no carry
\* is lost, and what is cut off could not have carried.
NoCarryLost ==
    /\ at = "cross" => low * B + high = (Lo(inverse) * Lo(reduced) + plus * inverse) \div B
    /\ at = "high" => high * B + low = (inverse * Lo(reduced) + Lo(inverse) * Hi(reduced) * B + plus * inverse) \div U
    /\ at = "done" => high * B + low = ((inverse * reduced + plus * inverse) \div U) \div power

InversesRight == InverseTypeOK /\ NoCarryLost /\ DividesExactly
=============================================================================
