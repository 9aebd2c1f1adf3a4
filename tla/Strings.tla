------------------------------ MODULE Strings ------------------------------
(* lib/libc/string.c and strlcpy.c on a memory of A bytes, read and written *)
(* one byte after the other.  A byte has three bits, and char is signed.    *)
EXTENDS Integers, Sequences

CONSTANTS
    A,              \* the bytes of the memory
    Bytes,          \* what they hold: 0 is NUL, 1 and 2 are a letter in both cases, from 4 on a char is negative
    Fns             \* the functions that are called

StringsAssumption == Bytes \subseteq 0..7 /\ A \in Nat

VARIABLES
    mem, old,       \* the memory, and what it was before the call
    call,           \* the function and its arguments
    ret,
    strtok,         \* ___strtok, or what *s of strsep() points to
    toks            \* the tokens so far
vars == <<mem, old, call, ret, strtok, toks>>

NULL == -1
Addr == 0..(A - 1)
schar(c) == IF c % 8 >= 4 THEN (c % 8) - 8 ELSE c % 8
tolower(c) == IF c = 1 THEN 2 ELSE c

----------------------------------------------------------------------------
Copied(m, d, s, n) ==
    LET f[k \in 0..n] == IF k = 0 THEN m ELSE LET p == f[k - 1] IN [p EXCEPT ![d + k - 1] = p[s + k - 1]] IN f[n]
CopiedDown(m, d, s, n) ==
    LET f[k \in 0..n] == IF k = 0 THEN m ELSE LET p == f[k - 1] IN [p EXCEPT ![d + n - k] = p[s + n - k]] IN f[n]
\* Until a NUL was copied, which is told, or n bytes were.
Transfer(m, d, s, n) ==
    LET f[k \in 0..n] ==
          IF k = 0 THEN <<m, FALSE>>
          ELSE LET p == f[k - 1] IN
               IF p[2] THEN p ELSE <<[p[1] EXCEPT ![d + k - 1] = p[1][s + k - 1]], p[1][s + k - 1] = 0>>
    IN  f[n]
strnlen(m, s, n) == CHOOSE k \in 0..n : (k = n \/ m[s + k] = 0) /\ \A j \in 0..(k - 1) : m[s + j] # 0
strlen(m, s) == strnlen(m, s, A - s)

memmove(m, d, s, n) == IF d <= s THEN Copied(m, d, s, n) ELSE CopiedDown(m, d, s, n)
memset(m, d, c, n) == [a \in Addr |-> IF a \in d..(d + n - 1) THEN c ELSE m[a]]
strcat(m, d, s) == Transfer(m, d + strlen(m, d), s, A)[1]
strncat(m, d, s, n) ==
    LET e == d + strlen(m, d)
        r == Transfer(m, e, s, n)
    IN  IF n = 0 THEN m ELSE IF r[2] THEN r[1] ELSE [r[1] EXCEPT ![e + n] = 0]
strlcpy(m, d, s, n) ==
    LET len == strlen(m, s)
        k == IF len >= n THEN n - 1 ELSE len
    IN  IF n = 0 THEN m ELSE [Copied(m, d, s, k) EXCEPT ![d + k] = 0]

\* The first place where the loop stops, and the difference there as a char.
strncmp(m, s, t, n) ==
    LET f[k \in Nat] ==
          IF k = n THEN 0
          ELSE LET r == schar(schar(m[s + k]) - schar(m[t + k])) IN
               IF r # 0 \/ m[s + k] = 0 THEN r ELSE f[k + 1]
    IN  f[0]
strnicmp(m, s, t, n) ==
    LET f[k \in Nat] ==
          LET c1 == m[s + k] c2 == m[t + k] IN
          IF c1 = 0 \/ c2 = 0 THEN c1 - c2
          ELSE IF c1 # c2 /\ tolower(c1) # tolower(c2) THEN tolower(c1) - tolower(c2)
          ELSE IF k + 1 = n THEN 0 ELSE f[k + 1]
    IN  IF n = 0 THEN 0 ELSE f[0]
memcmp(m, s, t, n) ==
    LET f[k \in 0..n] == IF k = n THEN 0 ELSE IF m[s + k] # m[t + k] THEN m[s + k] - m[t + k] ELSE f[k + 1] IN f[0]

strchr(m, s, c) ==
    LET f[p \in Nat] == IF m[p] = c THEN p ELSE IF m[p] = 0 THEN NULL ELSE f[p + 1] IN f[s]
strrchr(m, s, c) ==
    LET f[p \in Int] == IF p < s THEN NULL ELSE IF m[p] = c THEN p ELSE f[p - 1] IN f[s + strlen(m, s)]
memchr(m, s, c, n) ==
    LET f[k \in 0..n] == IF k = n THEN NULL ELSE IF m[s + k] = c THEN s + k ELSE f[k + 1] IN f[0]
\* c is an int: a negative one is no byte, and the end is returned.
memscan(m, s, c, n) ==
    LET f[k \in 0..n] == IF k = n THEN s + n ELSE IF m[s + k] = c THEN s + k ELSE f[k + 1] IN f[0]
In(m, t, c) == \E k \in 0..(strlen(m, t) - 1) : m[t + k] = c
strspn(m, s, t) ==
    LET f[k \in Nat] == IF m[s + k] = 0 \/ ~In(m, t, m[s + k]) THEN k ELSE f[k + 1] IN f[0]
strpbrk(m, s, t) ==
    LET f[p \in Nat] == IF m[p] = 0 THEN NULL ELSE IF In(m, t, m[p]) THEN p ELSE f[p + 1] IN f[s]
strstr(m, s, t) ==
    LET l2 == strlen(m, t)
        f[k \in Nat] == IF strlen(m, s) - k < l2 THEN NULL ELSE IF memcmp(m, s + k, t, l2) = 0 THEN s + k ELSE f[k + 1]
    IN  IF l2 = 0 THEN s ELSE f[0]

----------------------------------------------------------------------------
Init ==
    /\ mem \in [Addr -> Bytes] /\ old = mem /\ call = [fn |-> "none"] /\ ret = NULL
    /\ strtok = NULL /\ toks = <<>>

String(s) == \E a \in s..(A - 1) : mem[a] = 0
Apart(d, n, s, k) == d + n <= s \/ s + k <= d

Do(c, m, r) == call' = c /\ mem' = m /\ old' = mem /\ ret' = r /\ UNCHANGED <<strtok, toks>>
Fn(name) == name \in Fns /\ call.fn = "none"

Fill(d, c, n) ==
    Fn("mem") /\ d + n <= A /\ Do([fn |-> "memset", d |-> d, c |-> c, n |-> n], memset(mem, d, c, n), d)
Move(d, s, n) ==
    /\ Fn("mem") /\ d + n <= A /\ s + n <= A
    /\ \/ Do([fn |-> "memmove", d |-> d, s |-> s, n |-> n], memmove(mem, d, s, n), d)
       \/ /\ Apart(d, n, s, n)          \* memcpy() and bcopy()
          /\ Do([fn |-> "memcpy", d |-> d, s |-> s, n |-> n], Copied(mem, d, s, n), d)
Copy(d, s, n) ==
    LET len == strlen(mem, s) IN
    /\ Fn("str") /\ String(s)
    /\ \/ /\ d + len + 1 <= A /\ Apart(d, len + 1, s, len + 1) /\ n = 0
          /\ Do([fn |-> "strcpy", d |-> d, s |-> s], Transfer(mem, d, s, A)[1], d)
       \/ /\ d + n <= A /\ Apart(d, n, s, len + 1)
          /\ Do([fn |-> "strncpy", d |-> d, s |-> s, n |-> n], Transfer(mem, d, s, n)[1], d)
       \/ /\ d + n <= A /\ Apart(d, n, s, len + 1)
          /\ Do([fn |-> "strlcpy", d |-> d, s |-> s, n |-> n], strlcpy(mem, d, s, n), len)
Append2(d, s, n) ==
    LET len == strlen(mem, s) IN
    /\ Fn("str") /\ String(s) /\ String(d)
    /\ \/ /\ d + strlen(mem, d) + len + 1 <= A /\ Apart(d, strlen(mem, d) + len + 1, s, len + 1) /\ n = 0
          /\ Do([fn |-> "strcat", d |-> d, s |-> s], strcat(mem, d, s), d)
       \/ /\ d + strlen(mem, d) + n + 1 <= A /\ Apart(d, strlen(mem, d) + n + 1, s, len + 1)
          /\ Do([fn |-> "strncat", d |-> d, s |-> s, n |-> n], strncat(mem, d, s, n), d)
Compare(s, t, n) ==
    /\ Fn("cmp")
    /\ \/ String(s) /\ String(t) /\ n = 0 /\ Do([fn |-> "strcmp", s |-> s, t |-> t], mem, strncmp(mem, s, t, -1))
       \/ String(s) /\ String(t) /\ Do([fn |-> "strncmp", s |-> s, t |-> t, n |-> n], mem, strncmp(mem, s, t, n))
       \/ String(s) /\ String(t) /\ Do([fn |-> "strnicmp", s |-> s, t |-> t, n |-> n], mem, strnicmp(mem, s, t, n))
       \/ s + n <= A /\ t + n <= A /\ Do([fn |-> "memcmp", s |-> s, t |-> t, n |-> n], mem, memcmp(mem, s, t, n))
\* A character is passed as an int, a negative one if it is a char.
Find(s, c, n) ==
    /\ Fn("find")
    /\ \/ String(s) /\ n = 0 /\ Do([fn |-> "strchr", s |-> s, c |-> c], mem, strchr(mem, s, c % 8))
       \/ String(s) /\ n = 0 /\ Do([fn |-> "strrchr", s |-> s, c |-> c], mem, strrchr(mem, s, c % 8))
       \/ String(s) /\ Do([fn |-> "strnlen", s |-> s, n |-> n], mem, strnlen(mem, s, n))
       \/ s + n <= A /\ Do([fn |-> "memchr", s |-> s, c |-> c, n |-> n], mem, memchr(mem, s, c % 8, n))
       \/ s + n <= A /\ Do([fn |-> "memscan", s |-> s, c |-> c, n |-> n], mem, memscan(mem, s, c, n))
FindAny(s, t) ==
    /\ Fn("find") /\ String(s) /\ String(t)
    /\ \/ Do([fn |-> "strspn", s |-> s, t |-> t], mem, strspn(mem, s, t))
       \/ Do([fn |-> "strpbrk", s |-> s, t |-> t], mem, strpbrk(mem, s, t))
       \/ Do([fn |-> "strstr", s |-> s, t |-> t], mem, strstr(mem, s, t))

\* The text is at 0 in a first call and NULL after it; the separators lie behind it.
Tokens(name, t) ==
    /\ name \in Fns /\ String(0) /\ String(t) /\ call.fn \in {"none", name}
    /\ call.fn = "none" => t > strlen(mem, 0)
    /\ call.fn = name => ret # NULL /\ t = call.t
    /\ call' = [fn |-> name, t |-> t]
    /\ old' = IF call.fn = "none" THEN mem ELSE old
Token(begin, send) ==
    /\ mem' = IF send = NULL THEN mem ELSE [mem EXCEPT ![send] = 0]
    /\ ret' = begin /\ strtok' = IF send = NULL THEN NULL ELSE send + 1
    /\ toks' = Append(toks, SubSeq([i \in 1..A |-> mem'[(begin + i - 1) % A]], 1, strlen(mem', begin)))
NoToken == ret' = NULL /\ strtok' = NULL /\ UNCHANGED <<mem, toks>>
Strtok(t) ==
    LET from == IF call.fn = "none" THEN 0 ELSE strtok
        begin == from + strspn(mem, from, t) IN
    /\ Tokens("strtok", t)
    /\ IF from = NULL \/ (from # NULL /\ mem[begin] = 0) THEN NoToken ELSE Token(begin, strpbrk(mem, begin, t))
Strsep(t) ==
    LET from == IF call.fn = "none" THEN 0 ELSE strtok IN
    /\ Tokens("strsep", t)
    /\ IF from = NULL THEN NoToken ELSE Token(from, strpbrk(mem, from, t))

Next ==
    \/ \E d \in Addr, n \in 0..A : (\E c \in Bytes : Fill(d, c, n)) \/ \E s \in Addr : Move(d, s, n) \/ Copy(d, s, n) \/ Append2(d, s, n)
    \/ \E s \in Addr, n \in 0..A : (\E t \in Addr : Compare(s, t, n)) \/ \E c \in Bytes \cup {schar(b) : b \in Bytes} : Find(s, c, n)
    \/ \E s, t \in Addr : FindAny(s, t)
    \/ \E t \in Addr : Strtok(t) \/ Strsep(t)
Spec == Init /\ [][Next]_vars

----------------------------------------------------------------------------
(* What the functions promise, in terms of the memory before the call.      *)
LOCAL INSTANCE SequencesExt

At(p, n) == SubSeq([i \in 1..A |-> old[(p + i - 1) % A]], 1, n)      \* n bytes as they were
Len0(p) == CHOOSE k \in 0..A : old[p + k] = 0 /\ \A j \in 0..(k - 1) : old[p + j] # 0
Text(p) == At(p, Len0(p))
Shorter(a, b) == IF a < b THEN a ELSE b
Is(names) == call.fn \in names

\* What a function writes: where, and which bytes.
Written ==
    CASE Is({"memset"}) -> <<call.d, [i \in 1..call.n |-> call.c]>>
      [] Is({"memmove", "memcpy"}) -> <<call.d, At(call.s, call.n)>>
      [] Is({"strcpy"}) -> <<call.d, Append(Text(call.s), 0)>>
      [] Is({"strncpy"}) -> <<call.d, SubSeq(Append(Text(call.s), 0), 1, Shorter(call.n, Len0(call.s) + 1))>>
      [] Is({"strlcpy"}) -> <<call.d, IF call.n = 0 THEN <<>> ELSE Append(SubSeq(Text(call.s), 1, Shorter(call.n - 1, Len0(call.s))), 0)>>
      [] Is({"strcat"}) -> <<call.d + Len0(call.d), Append(Text(call.s), 0)>>
      [] Is({"strncat"}) -> <<call.d + Len0(call.d), IF call.n = 0 THEN <<>> ELSE Append(SubSeq(Text(call.s), 1, Shorter(call.n, Len0(call.s))), 0)>>
      [] OTHER -> <<0, <<>>>>

\* The bytes a copy is meant to write are those its source had before the call,
\* overlapping or not, and no other byte has changed; strlcpy() returns the
\* length it wanted to copy.
WritesExactly ==
    /\ Is({"strlcpy"}) => ret = Len0(call.s)
    /\ LET w == Written IN
       ~Is({"strtok", "strsep"}) => \A a \in Addr : mem[a] = IF a >= w[1] /\ a < w[1] + Len(w[2]) THEN w[2][a - w[1] + 1] ELSE old[a]

\* The first or the last place that fits, or the answer for none.
FirstAt(s, P(_), n, none) ==
    IF \E k \in 0..(n - 1) : P(s + k) THEN (CHOOSE k \in 0..(n - 1) : P(s + k) /\ \A j \in 0..(k - 1) : ~P(s + j)) + s ELSE none
Finds ==
    /\ Is({"strchr"}) => LET P(p) == old[p] = call.c % 8 IN ret = FirstAt(call.s, P, Len0(call.s) + 1, NULL)
    /\ Is({"strrchr"}) => /\ ret = NULL <=> \A p \in call.s..(call.s + Len0(call.s)) : old[p] # call.c % 8
                          /\ ret # NULL => old[ret] = call.c % 8 /\ \A p \in (ret + 1)..(call.s + Len0(call.s)) : old[p] # call.c % 8
    /\ Is({"memchr"}) => LET P(p) == old[p] = call.c % 8 IN ret = FirstAt(call.s, P, call.n, NULL)
    /\ Is({"memscan"}) => LET P(p) == old[p] = call.c IN ret = FirstAt(call.s, P, call.n, call.s + call.n)
    /\ Is({"strnlen"}) => ret = Shorter(call.n, Len0(call.s))
    /\ Is({"strspn"}) => LET P(p) == old[p] \notin {old[q] : q \in call.t..(call.t + Len0(call.t) - 1)} IN
                         ret = FirstAt(call.s, P, Len0(call.s), call.s + Len0(call.s)) - call.s
    /\ Is({"strpbrk"}) => LET P(p) == old[p] \in {old[q] : q \in call.t..(call.t + Len0(call.t) - 1)} IN
                          ret = FirstAt(call.s, P, Len0(call.s), NULL)
    /\ Is({"strstr"}) => LET P(p) == p + Len0(call.t) <= call.s + Len0(call.s) /\ At(p, Len0(call.t)) = Text(call.t) IN
                         ret = FirstAt(call.s, P, Len0(call.s) + 1, NULL)

\* A comparison is 0 for equal texts only.  memcmp() and strnicmp() order by the
\* first byte that differs; the difference of two chars is cut to a char, so
\* strcmp() and strncmp() order only bytes of the same half.
Cut(p, n) == SubSeq(Append(Text(p), 0), 1, Shorter(n, Len0(p) + 1))
Sgn(x) == IF x < 0 THEN -1 ELSE IF x > 0 THEN 1 ELSE 0
Fold(x) == [i \in DOMAIN x |-> tolower(x[i])]
Order(x, y) ==
    LET D == {i \in DOMAIN x \cap DOMAIN y : x[i] # y[i]} IN
    IF D = {} THEN 0 ELSE LET i == CHOOSE i \in D : \A j \in D : i <= j IN Sgn(x[i] - y[i])
Compares ==
    /\ Is({"memcmp"}) => Sgn(ret) = Order(At(call.s, call.n), At(call.t, call.n))
    /\ Is({"strnicmp"}) => Sgn(ret) = Order(Fold(Cut(call.s, call.n)), Fold(Cut(call.t, call.n)))
    /\ Is({"strcmp", "strncmp"}) =>
         LET n == IF Is({"strcmp"}) THEN A ELSE call.n
             x == Cut(call.s, n)
             y == Cut(call.t, n) IN
         /\ ret = 0 <=> x = y
         /\ (\A i \in DOMAIN x, j \in DOMAIN y : (x[i] >= 4) = (y[j] >= 4)) => Sgn(ret) = Order(x, y)

\* The tokens of strsep() are the pieces between the separators, empty ones
\* included; those of strtok() are the ones that are not empty.
Pieces ==
    LET text == Text(0)
        seps == {old[q] : q \in call.t..(call.t + Len0(call.t) - 1)}
        cuts == {i \in DOMAIN text : text[i] \in seps} \cup {0, Len(text) + 1}
        ends == {<<i, j>> \in cuts \X cuts : i < j /\ \A k \in cuts : k <= i \/ k >= j}
    IN  [n \in 1..Cardinality(ends) |->
          LET e == CHOOSE e \in ends : Cardinality({f \in ends : f[1] <= e[1]}) = n IN SubSeq(text, e[1] + 1, e[2] - 1)]
Splits ==
    /\ Is({"strsep"}) => IsPrefix(toks, Pieces) /\ (ret = NULL => toks = Pieces)
    /\ Is({"strtok"}) => \A p \in {SelectSeq(Pieces, LAMBDA x : x # <<>>)} :
                           IsPrefix(toks, p) /\ (ret = NULL => toks = p)
=============================================================================
