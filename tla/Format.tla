------------------------------- MODULE Format -------------------------------
(* Numbers and texts.  vsnprintf() of lib/libc/vsprintf.c and those that    *)
(* call it: a format is a sequence of items with their arguments, the       *)
(* buffer lies in a memory of A addresses that wrap.  And strtol() with its *)
(* kin: a text is a sequence of characters with a NUL behind it.  An int    *)
(* has W bits, a short one less, a long long two more.                      *)
EXTENDS Integers, Sequences, FiniteSets, SequencesExt

CONSTANTS
    W,              \* the bits of an int
    A,              \* the number of addresses; a size from A / 2 on is negative
    Calls,          \* <<buf, size>>: where the buffer is, 0 for NULL
    Convs,          \* the conversions
    FlagSets, Widths, Precisions, Quals, Values,
    None,           \* no width, no precision, no qualifier; the string at NULL
    MaxItems,       \* bound on the items of a format
    Chars, Bases, MaxText   \* the characters of a text that is read, the bases, and how long it gets

FormatAssumption == W \in Nat \ {0, 1}

VARIABLES
    call,           \* the buffer and its size
    fmt,            \* the items so far
    mem, str,       \* what was written, and the next address
    ret,            \* None until the call returns
    text, base, signed      \* what is read, and by which function
printVars == <<call, fmt, mem, str, ret>>
readVars == <<text, base, signed>>

----------------------------------------------------------------------------
(* strtol(), strtoul(), strtoll(), strtoull()                               *)

Largest == 2^(W - 1) - 1
Smallest == -(2^(W - 1))
UMax == 2^W - 1

Decimals == <<"0", "1", "2", "3", "4", "5", "6", "7", "8", "9", "a", "b", "c", "d", "e", "f">>
Blanks == {" ", "\t"}
CharAt(s, i) == IF i \in DOMAIN s THEN s[i] ELSE "NUL"
\* What a character counts as, 99 for one that is no digit in any radix.
Digit(c) == IF \E d \in DOMAIN Decimals : Decimals[d] = c THEN (CHOOSE d \in DOMAIN Decimals : Decimals[d] = c) - 1
            ELSE IF c = "x" THEN 33 ELSE 99

\* Division as C does it, towards zero.
CDiv(a, b) == IF a >= 0 THEN a \div b ELSE -((-a) \div b)
CMod(a, b) == a - b * CDiv(a, b)

Cutoff_even(radix, neg, sgn) ==
    IF ~sgn THEN <<UMax \div radix, UMax % radix>> ELSE <<(IF neg THEN -1 ELSE 1) * (Largest \div radix), Largest % radix>>
Cutoff(radix, neg, sgn) ==
    IF ~sgn THEN <<UMax \div radix, UMax % radix>>
    ELSE IF ~neg THEN <<Largest \div radix, Largest % radix>>
    ELSE LET lim == CMod(Smallest, radix) IN
         IF lim > 0 THEN <<CDiv(Smallest, radix) + 1, -(lim - radix)>> ELSE <<CDiv(Smallest, radix), -lim>>

\* The digits from i on: <<acc, any, past>>, any is -1 after an overflow.
Digits(s, i, radix, neg, sgn) ==
    LET cutoff == Cutoff(radix, neg, sgn)[1]
        cutlim == Cutoff(radix, neg, sgn)[2]
        down == sgn /\ neg
        over == IF ~sgn THEN UMax ELSE IF neg THEN Smallest ELSE Largest
        f[k \in Nat, acc \in Int, any \in {-1, 0, 1}] ==
          LET c == Digit(CharAt(s, k))
              beyond == (IF down THEN acc < cutoff ELSE acc > cutoff) \/ (acc = cutoff /\ c > cutlim)
          IN  IF c >= radix THEN <<acc, any, k>>
              ELSE IF any < 0 \/ beyond THEN f[k + 1, over, -1]
              ELSE f[k + 1, acc * radix + (IF down THEN -c ELSE c), 1]
    IN  f[i, 0, 0]

Skipped(s) == CHOOSE i \in 1..(Len(s) + 1) : CharAt(s, i) \notin Blanks /\ \A j \in 1..(i - 1) : s[j] \in Blanks

\* Past a prefix 0x, and the radix.
Prefix(s, i, radix) ==
    IF radix \in {0, 16} /\ CharAt(s, i) = "0" /\ CharAt(s, i + 1) = "x" THEN <<i + 2, 16>>
    ELSE <<i, IF radix # 0 THEN radix ELSE IF CharAt(s, i) = "0" THEN 8 ELSE 10>>

\* The value, and how many characters it took (endptr), none without a digit.
strto(s, base0, sgn) ==
    LET i == Skipped(s)
        neg == CharAt(s, i) = "-"
        p == Prefix(s, IF CharAt(s, i) \in {"-", "+"} THEN i + 1 ELSE i, base0)
        r == Digits(s, p[1], p[2], neg, sgn)
    IN  [val |-> IF ~sgn /\ neg /\ r[2] > 0 THEN (-r[1]) % 2^W ELSE r[1],
         past |-> IF r[2] = 0 THEN 0 ELSE r[3] - 1,
         erange |-> r[2] < 0]

ReadInit == text = <<>> /\ base \in Bases /\ signed \in BOOLEAN
Type(c) == Len(text) < MaxText /\ text' = Append(text, c) /\ UNCHANGED <<base, signed>>
ReadNext == \E c \in Chars : Type(c)

----------------------------------------------------------------------------
(* vsnprintf()                                                              *)

Addr == 0..(A - 1)
buf == call[1]
size0 == call[2]
Wrapped == buf + size0 - 1 >= A         \* end < buf - 1
end == IF Wrapped THEN A - 1 ELSE (buf + size0 - 1) % A
size == IF Wrapped THEN A - buf ELSE size0

PrintInit ==
    /\ call \in Calls /\ fmt = <<>> /\ str = call[1]
    /\ mem = [a \in Addr |-> "?"] /\ ret = None

----------------------------------------------------------------------------
Bits(qual) == IF qual = "h" THEN W - 1 ELSE IF qual = "L" THEN W + 2 ELSE W
\* va_arg() and the casts behind it: the bits of v, signed for %d.
Taken(v, qual, conv) ==
    LET b == Bits(qual)
        u == v % 2^b
    IN  IF conv = "d" /\ u >= 2^(b - 1) THEN u - 2^b ELSE u

Large(s) == [i \in DOMAIN s |-> CASE s[i] = "a" -> "A" [] s[i] = "b" -> "B" [] s[i] = "c" -> "C" [] s[i] = "d" -> "D"
                                  [] s[i] = "e" -> "E" [] s[i] = "f" -> "F" [] s[i] = "x" -> "X" [] OTHER -> s[i]]
do_div(num, radix) ==
    LET f[n \in Nat] == IF n < radix THEN <<Decimals[n + 1]>> ELSE Append(f[n \div radix], Decimals[(n % radix) + 1])
    IN  f[num]
Times(c, n) == [i \in 1..(IF n > 0 THEN n ELSE 0) |-> c]
BaseOf(conv) == IF conv = "o" THEN 8 ELSE IF conv \in {"x", "X"} THEN 16 ELSE 10

number_signed(num, conv, field, precision, flags) ==
    LET sign == IF conv = "d" /\ num < 0 THEN <<"-">> ELSE IF "PLUS" \in flags THEN <<"+">> ELSE <<>>
        digits == do_div(IF num < 0 THEN -num ELSE num, BaseOf(conv))
        pad == field - Len(digits)
    IN  (IF "LEFT" \notin flags THEN Times(" ", pad) ELSE <<>>) \o sign \o digits
        \o (IF "LEFT" \in flags THEN Times(" ", pad) ELSE <<>>)
number(num, conv, field, precision, flags0) ==
    LET flags == IF "LEFT" \in flags0 THEN flags0 \ {"ZEROPAD"} ELSE flags0
        sign == IF conv # "d" THEN <<>>
                ELSE IF num < 0 THEN <<"-">>
                ELSE IF "PLUS" \in flags THEN <<"+">> ELSE IF "SPACE" \in flags THEN <<" ">> ELSE <<>>
        special == IF "SPECIAL" \notin flags THEN <<>>
                   ELSE IF BaseOf(conv) = 8 THEN <<"0">> ELSE IF BaseOf(conv) = 16 THEN <<"0", "x">> ELSE <<>>
        digits == do_div(IF num < 0 THEN -num ELSE num, BaseOf(conv))
        zeros == Times("0", precision - Len(digits))
        pad == field - Len(sign) - Len(special) - Len(zeros) - Len(digits)
        s == (IF flags \cap {"ZEROPAD", "LEFT"} = {} THEN Times(" ", pad) ELSE <<>>)
             \o sign \o special \o (IF "ZEROPAD" \in flags THEN Times("0", pad) ELSE <<>>)
             \o zeros \o digits \o (IF "LEFT" \in flags THEN Times(" ", pad) ELSE <<>>)
    IN  IF conv = "X" THEN Large(s) ELSE s

Padded(s, field, flags) ==
    IF "LEFT" \in flags THEN s \o Times(" ", field - Len(s)) ELSE Times(" ", field - Len(s)) \o s

\* %s: a pointer below 1024 is no string.
strings(s, field, precision, flags) ==
    LET t == IF s = None THEN <<"<", "N", "U", "L", "L", ">">> ELSE s
        n == IF precision = -1 \/ precision > Len(t) THEN Len(t) ELSE precision
    IN  Padded(SubSeq(t, 1, n), field, flags)

\* A negative width that comes as an argument is the flag LEFT, a negative
\* precision counts as zero.
Shown(item) ==
    LET flags == IF item.width # None /\ item.width < 0 THEN item.flags \cup {"LEFT"} ELSE item.flags
        field == IF item.width = None THEN -1 ELSE IF item.width < 0 THEN -item.width ELSE item.width
        precision == IF item.prec = None THEN -1 ELSE IF item.prec < 0 THEN 0 ELSE item.prec
    IN  CASE item.conv \in {"d", "u", "o", "x", "X"} ->
               number(Taken(item.arg, item.qual, item.conv), item.conv, field, precision, flags)
          [] item.conv = "c" -> Padded(<<item.arg>>, field, flags)
          [] item.conv = "s" -> strings(item.arg, field, precision, flags)
          [] item.conv = "%" -> <<"%">>
          [] item.conv = "lit" -> <<"a">>
          [] item.conv = "other" -> <<"%", "a">>      \* an unknown letter
          [] item.conv = "cut" -> <<"%">>             \* the format ends after the %

\* Each character is stored if its address is not beyond the last.
Put(m, p, s, last) ==
    [a \in Addr |-> IF (a - p) % A < Len(s) /\ a <= last THEN s[((a - p) % A) + 1] ELSE m[a]]

Args(conv) ==
    CASE conv \in {"d", "u", "o", "x", "X"} -> Values
      [] conv = "s" -> {None, <<>>, <<"a">>, <<"a", "b">>}
      [] OTHER -> {"c"}
ItemsOf(conv) ==
    [conv : {conv}, arg : Args(conv),
     flags : IF conv \in {"%", "lit", "other", "cut"} THEN {{}} ELSE FlagSets,
     width : IF conv \in {"%", "lit", "other", "cut"} THEN {None} ELSE Widths,
     prec : IF conv \in {"%", "lit", "other", "cut", "c"} THEN {None} ELSE Precisions,
     qual : IF conv \in {"d", "u", "o", "x", "X"} THEN Quals ELSE {None}]

\* A size that is negative as an int is refused.
Refused == size0 >= A \div 2
Refuse == ret = None /\ Refused /\ ret' = 0 /\ UNCHANGED <<call, fmt, mem, str>>
Convert(item) ==
    /\ ret = None /\ ~Refused /\ Len(fmt) < MaxItems /\ \A i \in DOMAIN fmt : fmt[i].conv # "cut"
    /\ fmt' = Append(fmt, item)
    /\ \E s \in {Shown(item)} : mem' = Put(mem, str, s, end) /\ str' = (str + Len(s)) % A
    /\ UNCHANGED <<call, ret>>

\* The NUL behind the text, or at the end of the buffer.
Ended(m, p) ==
    IF p <= end THEN [m EXCEPT ![p] = "NUL"] ELSE IF size > 0 THEN [m EXCEPT ![end] = "NUL"] ELSE m
Return ==
    /\ ret = None /\ ~Refused
    /\ mem' = Ended(mem, str)
    /\ ret' = (str - buf) % A
    /\ UNCHANGED <<call, fmt, str>>

PrintNext == Refuse \/ Return \/ \E conv \in Convs : \E item \in ItemsOf(conv) : Convert(item)

\* scnprintf() and vscnprintf(): an int compared with a size and made of one.
scnprintf == IF ret >= size0 THEN (IF size0 = 0 THEN -1 ELSE size0 - 1) ELSE ret

----------------------------------------------------------------------------
(* The text a format stands for, by the rules of C99, and where it goes.    *)

Done == ret # None

\* One item as C99 has it: the precision is the least number of digits, the
\* flag 0 pads only where no precision is given, # makes an octal number begin
\* with 0 and gives a hexadecimal one that is not 0 its prefix.
C99(item) ==
    LET v == Taken(item.arg, item.qual, item.conv)
        mag == IF v < 0 THEN -v ELSE v
        prec == IF item.prec = None \/ item.prec < 0 THEN 1 ELSE item.prec
        ds == IF mag = 0 THEN <<>> ELSE do_div(mag, BaseOf(item.conv))
        zs == Times("0", prec - Len(ds)) \o ds
        octal == "SPECIAL" \in item.flags /\ item.conv = "o" /\ (zs = <<>> \/ zs[1] # "0")
        body == IF octal THEN <<"0">> \o zs ELSE zs
        hex == IF "SPECIAL" \in item.flags /\ item.conv \in {"x", "X"} /\ mag # 0 THEN <<"0", "x">> ELSE <<>>
        sign == IF item.conv # "d" THEN <<>> ELSE IF v < 0 THEN <<"-">>
                ELSE IF "PLUS" \in item.flags THEN <<"+">> ELSE IF "SPACE" \in item.flags THEN <<" ">> ELSE <<>>
        width == IF item.width = None THEN 0 ELSE IF item.width < 0 THEN -item.width ELSE item.width
        left == "LEFT" \in item.flags \/ (item.width # None /\ item.width < 0)
        gap == width - Len(sign \o hex \o body)
        s == IF left THEN sign \o hex \o body \o Times(" ", gap)
             ELSE IF "ZEROPAD" \in item.flags /\ item.prec = None THEN sign \o hex \o Times("0", gap) \o body
             ELSE Times(" ", gap) \o sign \o hex \o body
    IN  IF item.conv = "X" THEN Large(s) ELSE s

\* Where the code goes its own way: # with 0 or with a precision, the flag 0
\* and a precision, and a precision of 0 or less.
Own(item) ==
    /\ item.conv \in {"d", "u", "o", "x", "X"}
    /\ \/ "SPECIAL" \in item.flags /\ (item.prec # None \/ Taken(item.arg, item.qual, item.conv) = 0)
       \/ "ZEROPAD" \in item.flags /\ item.prec # None
       \/ item.prec # None /\ item.prec <= 0

\* A string as far as the precision goes, or a character, in its field.
Word(item) ==
    LET t == IF item.conv = "c" THEN <<item.arg>> ELSE IF item.arg = None THEN <<"<", "N", "U", "L", "L", ">">> ELSE item.arg
        s == SelectSeq([i \in DOMAIN t |-> IF item.prec = None \/ i <= item.prec THEN t[i] ELSE None], LAMBDA c : c # None)
        gap == Times(" ", (IF item.width = None THEN 0 ELSE IF item.width < 0 THEN -item.width ELSE item.width) - Len(s))
    IN  IF "LEFT" \in item.flags \/ (item.width # None /\ item.width < 0) THEN s \o gap ELSE gap \o s

Meant(item) ==
    IF item.conv \in {"d", "u", "o", "x", "X"} /\ ~Own(item) THEN C99(item)
    ELSE IF item.conv \in {"c", "s"} THEN Word(item) ELSE Shown(item)
Text == FlattenSeq([i \in DOMAIN fmt |-> Meant(fmt[i])])

PrintTypeOK == str \in Addr /\ ret \in {None} \cup Addr /\ DOMAIN mem = Addr

\* The call returns the length of all of the text, also where it only asks for that
\* length with a size of 0, as vasprintf() does; and the buffer has the text up to its
\* size and the NUL behind it.
PrintsTheText ==
    (Done /\ ~Refused) => \A t \in {Text} :
      /\ ret = Len(t)
      /\ size > 0 =>
           LET n == IF Len(t) >= size THEN size - 1 ELSE Len(t) IN
           [i \in 1..(n + 1) |-> mem[buf + i - 1]] = Append(SubSeq(t, 1, n), "NUL")

\* Nothing is written outside of the buffer, and nothing for a size of 0, with one
\* exception, which is the call vasprintf() makes (lib/libc/vasprintf.c:14): with NULL
\* and 0 the last address is the end of memory, and all of the text is written from
\* address 0 on, with the NUL behind it.
Written == {a \in Addr : mem[a] # "?"}
AtNull == buf = 0 /\ size0 = 0
InBuffer ==
    IF AtNull THEN Written = 0..(IF Done THEN str ELSE str - 1)
    ELSE \A a \in Written : buf <= a /\ a < buf + size

\* What scnprintf() and vscnprintf() return is the number of characters in front of
\* the NUL, and 0 for a negative size.  For a size of 0, where the comments promise 0
\* (lib/libc/vsprintf.c:406 and :455), it is -1, whatever the format.
Counted ==
    Done => IF Refused THEN scnprintf = 0
            ELSE IF size0 = 0 THEN scnprintf = -1
            ELSE scnprintf >= 0 /\ mem[buf + scnprintf] = "NUL"

\* A number that is printed alone reads back as itself.
ReadsBack ==
    (Done /\ Len(fmt) = 1) => \A item \in {fmt[1]} :
      (item.conv \in {"d", "u", "o", "x"} /\ item.qual = None /\ "LEFT" \notin item.flags) =>
         strto(Text, BaseOf(item.conv), item.conv = "d").val = Taken(item.arg, None, item.conv)

TextRight == PrintTypeOK /\ PrintsTheText /\ InBuffer /\ Counted

----------------------------------------------------------------------------
(* The number a text denotes.                                               *)

\* A reading of the text: blanks, a sign, a prefix, and digits as far as they go.
Starts ==
    {<<b, sg, pre>> \in (0..Len(text)) \X {0, 1} \X {0, 2} :
       /\ b + sg + pre <= Len(text)
       /\ \A k \in 1..b : text[k] \in Blanks
       /\ sg = 1 => text[b + 1] \in {"+", "-"}
       /\ CharAt(text, b + 1) \notin Blanks /\ (sg = 0 => CharAt(text, b + 1) \notin {"+", "-"})
       /\ (pre = 2) <=> (base \in {0, 16} /\ CharAt(text, b + sg + 1) = "0" /\ CharAt(text, b + sg + 2) = "x")}
The == CHOOSE t \in Starts : TRUE
From == The[1] + The[2] + The[3] + 1
Base == IF base # 0 THEN base
        ELSE IF The[3] = 2 THEN 16 ELSE IF CharAt(text, From) = "0" THEN 8 ELSE 10
Past == CHOOSE k \in From..(Len(text) + 1) :
          (\A j \in From..(k - 1) : Digit(text[j]) < Base) /\ Digit(CharAt(text, k)) >= Base
Neg == The[2] = 1 /\ text[The[1] + 1] = "-"
Exact ==
    LET f[k \in Nat] == IF k < From THEN 0 ELSE f[k - 1] * Base + Digit(text[k]) IN f[Past - 1]

ReadTypeOK == \A r \in {strto(text, base, signed)} : r.val \in (IF signed THEN Smallest..Largest ELSE 0..UMax) /\ r.past \in 0..Len(text)

\* The value is the number the text denotes, or the end of the range it is
\* beyond; an unsigned one counts down from zero after a minus sign.
Denotes ==
    \A r \in {strto(text, base, signed)} :
      /\ r.val = IF signed
                 THEN (IF Neg THEN (IF -Exact < Smallest THEN Smallest ELSE -Exact) ELSE IF Exact > Largest THEN Largest ELSE Exact)
                 ELSE IF Exact > UMax THEN UMax ELSE IF Neg THEN (-Exact) % 2^W ELSE Exact
      /\ r.erange <=> IF signed THEN (IF Neg THEN -Exact < Smallest ELSE Exact > Largest) ELSE Exact > UMax

\* The end is right behind the last digit, and the start if there was none.
EndsBehind ==
    \A r \in {strto(text, base, signed)} :
      Cardinality(Starts) = 1 /\ r.past = IF Past = From THEN 0 ELSE Past - 1

NumberRight == ReadTypeOK /\ Denotes /\ EndsBehind
=============================================================================
