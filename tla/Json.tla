-------------------------------- MODULE Json --------------------------------
(* json_parse() and json_free() of lib/libx/json.c: the text of the device  *)
(* tree is gone through twice by the same machine, the first pass makes the *)
(* values and counts, the second takes them in the order they were made and *)
(* fills memory of the sizes counted.  A character is a symbol: "t" stands  *)
(* for a whole literal, "u2".."u4" for a \u escape of as many bytes.        *)
EXTENDS Integers, Sequences, SequencesExt, FiniteSets, FiniteSetsExt, TLC

CONSTANTS
    Alphabet,       \* the symbols of the text
    Letters,        \* those that may be typed within a string
    MaxText,        \* bound on its length
    MaxDigits,      \* bound on the digits in a row
    MaxStarve       \* the allocation that fails is one of 1..MaxStarve, or none (0)

JsonAssumption == MaxText \in Nat /\ MaxDigits \in Nat /\ MaxStarve \in Nat

VARIABLES
    text, ended,    \* the text as far as the parser has looked
    p               \* the locals of json_parse()
vars == <<text, ended, p>>

End == "end"
Digit == "0" :> 0 @@ "1" :> 1
Blank == {" ", "newline"}
Container == {"ARRAY", "OBJECT"}

Start(q, first) ==
    [q EXCEPT !.first = first, !.ptr = 1, !.top = 0, !.root = 0, !.flags = {"SEEK_VALUE"}, !.str = <<>>]
Init ==
    /\ text = <<>> /\ ended = FALSE
    /\ \E n \in 0..MaxStarve :
         p = [first |-> TRUE, ptr |-> 1, flags |-> {"SEEK_VALUE"}, top |-> 0, root |-> 0, alloc |-> 0,
              vals |-> <<>>,            \* the values in the order they were made
              str |-> <<>>,             \* string[0..string_length - 1]
              digits |-> 0, frac |-> 0, e |-> 0,
              starve |-> n, allocs |-> 0, taken |-> {}, freed |-> <<>>, over |-> FALSE,
              out |-> "parsing"]

With(q, on, off) == [q EXCEPT !.flags = (@ \ off) \cup on]
Continue(q) == [q EXCEPT !.ptr = @ + 1]
Type(q) == IF q.top = 0 THEN "none" ELSE q.vals[q.top].type

----------------------------------------------------------------------------
(* Memory                                                                   *)

\* The calls json_free() makes, value by value from the last to the first; a
\* container without elements frees the memory it never had ("null").
FreeOrder(q) ==
    LET f[i \in 0..Len(q.vals)] ==
          IF i = 0 THEN <<>>
          ELSE LET v == q.vals[i] IN
               FlattenSeq([k \in 1..v.len |-> IF v.type \in Container THEN f[v.kids[v.len + 1 - k]] ELSE <<>>])
               \o (IF v.type \in Container \cup {"STRING"} THEN <<<<IF v.size = 0 THEN "null" ELSE "mem", i>>>> ELSE <<>>)
               \o <<<<"value", i>>>>
    IN  f[q.root]
json_free(q) == [q EXCEPT !.freed = @ \o FreeOrder(q)]

\* e_failed: the first pass frees the chain of all values, the second those it
\* has not come to, and then the tree.
Failed(q) ==
    LET chain == IF q.first THEN [i \in 1..Len(q.vals) |-> <<"value", i>>]
                 ELSE [i \in 1..(Len(q.vals) + 1 - q.alloc) |-> <<"value", q.alloc + i - 1>>]
    IN  [q EXCEPT !.freed = chain \o (IF q.first THEN <<>> ELSE FreeOrder(q)), !.out = "failed"]
\* e_alloc_failure: a root without its memory has its length still, and
\* json_free() follows the null pointer.
Starved(q) ==
    IF ~q.first /\ q.top = q.root /\ Type(q) \in Container THEN [q EXCEPT !.out = "crashed"]
    ELSE [Failed(q) EXCEPT !.out = "starved"]

\* json_alloc() of the block b: what follows depends on its result.
Allocated(q, b) ==
    LET r == [q EXCEPT !.allocs = @ + 1] IN
    IF r.allocs = r.starve THEN Starved(r) ELSE [r EXCEPT !.taken = @ \cup {b}]
IfParsing(q, rest(_)) == IF q.out = "parsing" THEN rest(q) ELSE q

new_value(q, type) ==
    IF q.first
    THEN LET n == Len(q.vals) + 1
             v == [type |-> type, parent |-> q.top, len |-> 0, size |-> 0, kids |-> <<>>, keys |-> <<>>,
                   names |-> 0, mem |-> 0, str |-> <<>>, int |-> 0, dbl |-> <<>>]
         IN  IfParsing(Allocated(q, <<"value", n>>), LAMBDA r :
                [r EXCEPT !.vals = Append(@, v), !.top = n, !.alloc = n, !.root = IF @ = 0 THEN n ELSE @])
    ELSE LET i == q.alloc
             v == q.vals[i]
             r0 == [q EXCEPT !.top = i, !.alloc = i + 1, !.root = IF @ = 0 THEN i ELSE @]
             size == IF v.type = "STRING" THEN v.len + 1 ELSE v.len
         IN  IF v.type \notin Container \cup {"STRING"} \/ size = 0 THEN r0
             ELSE IfParsing(Allocated(r0, <<"mem", i>>), LAMBDA r :
                    [r EXCEPT !.vals[i].size = size, !.vals[i].mem = v.names, !.vals[i].len = 0])

----------------------------------------------------------------------------
(* The end of a value                                                       *)

\* FLAG_NEXT: the value is one more of its parent, which comes to the top.
Complete(q) ==
    LET r == With(q, {"NEED_COMMA"}, {})
        up == r.vals[r.top].parent
        v == r.vals[up]
    IN  IF up = 0 THEN With(r, {"DONE"}, {})
        ELSE [With(r, IF v.type = "ARRAY" THEN {"SEEK_VALUE"} ELSE {}, {}) EXCEPT
                !.top = up, !.vals[up].len = @ + 1,
                !.vals[up].kids = IF r.first THEN @ ELSE Append(@, r.top),
                !.over = @ \/ (~r.first /\ v.len >= v.size)]

----------------------------------------------------------------------------
(* One symbol in each state of the machine                                  *)

\* Where a string is written, and whether n bytes more of it fit: the value's
\* own memory, or what is left of the names of the object.
Fits(q, n) ==
    \/ q.first
    \/ Type(q) = "STRING" /\ Len(q.str) + n <= q.vals[q.top].size
    \/ Type(q) = "OBJECT" /\ Len(q.str) + n <= q.vals[q.top].mem
PutBytes(q, s) == Continue([q EXCEPT !.str = @ \o s, !.over = @ \/ ~Fits(q, Len(s))])
Utf8(b) == CASE b = "u2" -> <<b, b>> [] b = "u3" -> <<b, b, b>> [] b = "u4" -> <<b, b, b, b>> [] OTHER -> <<b>>

CloseString(q) ==
    LET r == [With(q, {}, {"STRING"}) EXCEPT !.over = @ \/ ~Fits(q, 1)]
        n == Len(q.str)
    IN  IF Type(q) = "STRING"
        THEN Continue(Complete([r EXCEPT !.vals[q.top].len = n, !.vals[q.top].str = q.str]))
        ELSE Continue(With([r EXCEPT !.vals[q.top].names = IF q.first THEN @ + n + 1 ELSE @,
                                     !.vals[q.top].mem = IF q.first THEN @ ELSE @ - (n + 1),
                                     !.vals[q.top].keys = IF q.first THEN @ ELSE Append(@, q.str)],
                           {"SEEK_VALUE", "NEED_COLON"}, {}))
InString(q, b) ==
    CASE b = End -> Failed(q)
      [] b # End /\ "ESCAPED" \in q.flags -> PutBytes(With(q, {}, {"ESCAPED"}), Utf8(b))
      [] b = "backslash" /\ "ESCAPED" \notin q.flags -> Continue(With(q, {"ESCAPED"}, {}))
      [] b = "quote" /\ "ESCAPED" \notin q.flags -> CloseString(q)
      [] OTHER -> PutBytes(q, <<b>>)

InComment(q, b, next) ==
    CASE "LINE_COMMENT" \in q.flags /\ b \in {"newline", End} -> With(q, {}, {"LINE_COMMENT"})
      [] "BLOCK_COMMENT" \in q.flags /\ b = End -> Failed(q)
      [] "BLOCK_COMMENT" \in q.flags /\ b = "*" /\ next = "/" -> Continue(Continue(With(q, {}, {"BLOCK_COMMENT"})))
      [] OTHER -> Continue(q)
Slash(q, next) ==
    IF (q.flags \cap {"SEEK_VALUE", "DONE"} = {} /\ Type(q) # "OBJECT") \/ next \notin {"/", "*"} THEN Failed(q)
    ELSE Continue(Continue(With(q, {IF next = "/" THEN "LINE_COMMENT" ELSE "BLOCK_COMMENT"}, {})))

AfterEnd(q, b) ==
    CASE b = End -> [q EXCEPT !.out = "passed"] [] b \in Blank -> Continue(q) [] OTHER -> Failed(q)

Literal(q) == IfParsing(new_value(q, "BOOLEAN"), LAMBDA r : Continue(Complete(r)))
\* Past a number, in the second pass.
NumberEnd(ptr) ==
    CHOOSE i \in ptr..(Len(text) + 1) :
      /\ \A j \in ptr..(i - 1) : text[j] \in DOMAIN Digit \cup {"+", "-", "e", "."}
      /\ i <= Len(text) => text[i] \notin DOMAIN Digit \cup {"+", "-", "e", "."}
NewNumber(q, b) ==
    IfParsing(new_value(q, "INTEGER"), LAMBDA r :
      IF ~q.first THEN [Complete(r) EXCEPT !.ptr = NumberEnd(@)]
      ELSE LET z == [With(r, {}, {"NEG", "E", "GOT_SIGN", "ENEG", "ZERO"}) EXCEPT !.digits = 0, !.frac = 0, !.e = 0]
           IN  IF b = "-" THEN Continue(With(z, {"NEG"}, {})) ELSE z)

SeekValue(q, b) ==
    LET v == With(q, {}, {"SEEK_VALUE"}) IN
    CASE b \in Blank -> Continue(q)
      [] b = "]" -> IF Type(q) = "ARRAY" THEN Continue(Complete(With(v, {}, {"NEED_COMMA"}))) ELSE Failed(q)
      [] b # "]" /\ "NEED_COMMA" \in q.flags ->
           IF b = "," THEN Continue(With(q, {}, {"NEED_COMMA"})) ELSE Failed(q)
      [] b # "]" /\ "NEED_COLON" \in q.flags /\ "NEED_COMMA" \notin q.flags ->
           IF b = ":" THEN Continue(With(q, {}, {"NEED_COLON"})) ELSE Failed(q)
      [] OTHER ->
           CASE b = "{" -> IfParsing(new_value(v, "OBJECT"), Continue)
             [] b = "[" -> IfParsing(new_value(v, "ARRAY"), LAMBDA r : Continue(With(r, {"SEEK_VALUE"}, {})))
             [] b = "quote" -> IfParsing(new_value(v, "STRING"), LAMBDA r : Continue([With(r, {"STRING"}, {}) EXCEPT !.str = <<>>]))
             [] b = "t" -> Literal(v)
             [] b \in DOMAIN Digit \cup {"-"} -> NewNumber(v, b)
             [] OTHER -> Failed(q)

InObject(q, b) ==
    CASE b \in Blank -> Continue(q)
      [] b = "quote" /\ "NEED_COMMA" \notin q.flags -> Continue([With(q, {"STRING"}, {}) EXCEPT !.str = <<>>])
      [] b = "}" -> Continue(Complete(With(q, {}, {"NEED_COMMA"})))
      [] b = "," /\ "NEED_COMMA" \in q.flags -> Continue(With(q, {}, {"NEED_COMMA"}))
      [] OTHER -> Failed(q)

\* A digit of the integer, of the fraction or of the exponent.
DigitOf(q, d) ==
    LET r == Continue([q EXCEPT !.digits = @ + 1])
        i == q.top
    IN  CASE "E" \in q.flags -> With([r EXCEPT !.e = @ * 10 + d], {"GOT_SIGN"}, {})
          [] "E" \notin q.flags /\ Type(q) = "DOUBLE" -> [r EXCEPT !.frac = @ * 10 + d]
          [] "E" \notin q.flags /\ Type(q) = "INTEGER" ->
               IF "ZERO" \in q.flags THEN Failed(q)
               ELSE With([r EXCEPT !.vals[i].int = @ * 10 + d], IF r.digits = 1 /\ d = 0 THEN {"ZERO"} ELSE {}, {})
\* A double is <<sign, integer, fraction, its digits, exponent>>.
ToDouble(q) == [q EXCEPT !.vals[q.top].type = "DOUBLE", !.vals[q.top].dbl = <<1, q.vals[q.top].int, 0, 0, 0>>, !.digits = 0]
Fraction(q) ==
    IF Type(q) = "DOUBLE" /\ "E" \notin q.flags
    THEN [q EXCEPT !.vals[q.top].dbl = <<1, @[2], q.frac, q.digits, 0>>] ELSE q
NumberDone(q) ==
    LET sign == IF "NEG" \in q.flags THEN -1 ELSE 1
        r == IF "E" \in q.flags THEN [q EXCEPT !.vals[q.top].dbl[5] = IF "ENEG" \in q.flags THEN -q.e ELSE q.e] ELSE Fraction(q)
    IN  Complete(IF Type(q) = "INTEGER" THEN [r EXCEPT !.vals[q.top].int = sign * @]
                                        ELSE [r EXCEPT !.vals[q.top].dbl[1] = sign])
InNumber(q, b) ==
    CASE b \in DOMAIN Digit -> DigitOf(q, Digit[b])
      [] b \in {"+", "-"} /\ "E" \in q.flags /\ "GOT_SIGN" \notin q.flags ->
           Continue(With(q, {"GOT_SIGN"} \cup (IF b = "-" THEN {"ENEG"} ELSE {}), {}))
      [] b = "." /\ Type(q) = "INTEGER" -> IF q.digits = 0 THEN Failed(q) ELSE Continue(ToDouble(q))
      [] OTHER ->
           CASE q.digits = 0 /\ ("E" \in q.flags \/ Type(q) = "DOUBLE") -> Failed(q)
             [] b = "e" /\ "E" \notin q.flags ->
                  Continue(With([(IF Type(q) = "INTEGER" THEN ToDouble(q) ELSE Fraction(q)) EXCEPT !.digits = 0], {"E"}, {"ZERO"}))
             [] OTHER -> NumberDone(q)

\* One turn of the loop, at b with next behind it.
Turn(q, b, next) ==
    CASE "STRING" \in q.flags -> InString(q, b)
      [] q.flags \cap {"LINE_COMMENT", "BLOCK_COMMENT"} # {} -> InComment(q, b, next)
      [] q.flags \cap {"STRING", "LINE_COMMENT", "BLOCK_COMMENT"} = {} ->
           CASE b = "/" -> Slash(q, next)
             [] b # "/" /\ "DONE" \in q.flags -> AfterEnd(q, b)
             [] b # "/" /\ "DONE" \notin q.flags /\ "SEEK_VALUE" \in q.flags -> SeekValue(q, b)
             [] OTHER -> IF Type(q) = "OBJECT" THEN InObject(q, b) ELSE InNumber(q, b)

At(i) == IF i <= Len(text) THEN text[i] ELSE End
\* The parser looks one symbol ahead in comments.
Looked == ended \/ p.ptr + (IF At(p.ptr) \in {"/", "*"} THEN 1 ELSE 0) <= Len(text)

\* The text goes on, or ends.
Text ==
    /\ p.out = "parsing" /\ p.first /\ ~Looked
    /\ \/ /\ Len(text) < MaxText /\ UNCHANGED ended
          /\ \E b \in IF "STRING" \in p.flags THEN Letters ELSE Alphabet :
               text' = Append(text, b) /\ ((b \in DOMAIN Digit /\ Type(p) \in {"INTEGER", "DOUBLE"}) => p.digits < MaxDigits)
       \/ ended' = TRUE /\ UNCHANGED text
    /\ UNCHANGED p
json_parse ==
    /\ p.out = "parsing" /\ Looked
    /\ p' = Turn(p, At(p.ptr), At(p.ptr + 1))
    /\ UNCHANGED <<text, ended>>
SecondPass ==
    /\ p.out = "passed" /\ p.first
    /\ p' = [Start(p, FALSE) EXCEPT !.alloc = p.root, !.out = "parsing"]
    /\ UNCHANGED <<text, ended>>
\* The caller has probed its devices.
Freed ==
    /\ p.out = "passed" /\ ~p.first
    /\ p' = [json_free(p) EXCEPT !.out = "freed"]
    /\ UNCHANGED <<text, ended>>

Next == Text \/ json_parse \/ SecondPass \/ Freed
Spec == Init /\ [][Next]_vars

-----------------------------------------------------------------------------
(* The readers of the device tree, core/dtree.c, over the values that       *)
(* json_parse() made: what a driver gets for a name at its probe.           *)

LOCAL First(S) == IF S = {} THEN 0 ELSE Min(S)

\* The members of the object n with this name and a value of this type.
Members(n, name, type) ==
    IF n = 0 THEN {}
    ELSE LET v == p.vals[n] IN
         {i \in 1..v.len : v.type = "OBJECT" /\ v.keys[i] = name /\ p.vals[v.kids[i]].type = type}
Member(n, i) == p.vals[p.vals[n].kids[i]]

dt_read(n, name, type, field, def) ==
    LET i == First(Members(n, name, type)) IN IF i = 0 THEN def ELSE Member(n, i)[field]
dt_read_int(n, name, def) == dt_read(n, name, "INTEGER", "int", def)
\* The other widths, u16 to u64, differ in the modulus alone.
dt_read_u8(n, name, def) == dt_read_int(n, name, def) % 256
dt_read_string(n, name, def) == dt_read(n, name, "STRING", "str", def)
dt_read_object(n, name) ==
    LET i == First(Members(n, name, "OBJECT")) IN IF i = 0 THEN 0 ELSE p.vals[n].kids[i]
dt_read_array_length(n, name) == dt_read(n, name, "ARRAY", "len", 0)

\* An array that is too short, or has another type at idx, is passed over.
dt_read_array(n, name, idx, type) ==
    LET i == First({j \in Members(n, name, "ARRAY") :
                      idx \in 0..(Member(n, j).len - 1) /\ p.vals[Member(n, j).kids[idx + 1]].type = type})
    IN  IF i = 0 THEN 0 ELSE Member(n, i).kids[idx + 1]
dt_read_array_int(n, name, idx, def) ==
    LET k == dt_read_array(n, name, idx, "INTEGER") IN IF k = 0 THEN def ELSE p.vals[k].int
dt_read_array_u8(n, name, idx, def) == dt_read_array_int(n, name, idx, def) % 256
dt_read_array_object(n, name, idx) == dt_read_array(n, name, idx, "OBJECT")

-----------------------------------------------------------------------------
(* What the parser promises, against a grammar of its own: JSON with the    *)
(* liberties the parser takes.  A list may end in a comma, a comment stands *)
(* where a blank may (but not right after a number), and a minus sign needs *)
(* no digits after it.                                                      *)

Bad == [ok |-> FALSE, v |-> <<>>, i |-> 0]
Good(v, i) == [ok |-> TRUE, v |-> v, i |-> i]

RECURSIVE Ws(_), Run(_), Value(_), Elements(_, _), Pairs(_, _), Quoted(_, _)

\* Past blanks and comments.
Ws(i) ==
    LET ends == {j \in (i + 2)..Len(text) : At(j) = "*" /\ At(j + 1) = "/"}
        lines == {j \in (i + 2)..(Len(text) + 1) : At(j) \in {"newline", End}}
    IN  CASE At(i) \in Blank -> Ws(i + 1)
          [] At(i) = "/" /\ At(i + 1) = "/" -> Ws(Min(lines))
          [] At(i) = "/" /\ At(i + 1) = "*" /\ ends # {} -> Ws(Min(ends) + 2)
          [] OTHER -> i

\* Past a run of digits, and the number one stands for.
Run(i) == IF At(i) \in DOMAIN Digit THEN Run(i + 1) ELSE i
Decimal(i, j) == FoldLeft(LAMBDA n, b : 10 * n + Digit[b], 0, SubSeq(text, i, j - 1))

Number(i) ==
    LET neg == At(i) = "-"
        a == IF neg THEN i + 1 ELSE i
        b == Run(a)
        f == IF At(b) = "." THEN Run(b + 1) ELSE b
        s == IF At(f) = "e" /\ At(f + 1) \in {"+", "-"} THEN f + 2 ELSE f + 1
        x == IF At(f) = "e" THEN Run(s) ELSE f
        sign == IF neg THEN -1 ELSE 1
        exp == IF x = f THEN 0 ELSE IF At(f + 1) = "-" THEN -Decimal(s, x) ELSE Decimal(s, x)
    IN  IF \/ b > a + 1 /\ At(a) = "0"
           \/ At(b) = "." /\ (b = a \/ f = b + 1)
           \/ At(f) = "e" /\ x = s
           \/ At(x) = "/" \/ (b = a /\ ~neg)
        THEN Bad
        ELSE Good(IF x = b THEN <<"integer", sign * Decimal(a, b)>>
                  ELSE <<"double", <<sign, Decimal(a, b), IF f = b THEN 0 ELSE Decimal(b + 1, f),
                                     IF f = b THEN 0 ELSE f - b - 1, exp>>>>, x)

Quoted(i, s) ==
    CASE At(i) = End \/ (At(i) = "backslash" /\ At(i + 1) = End) -> Bad
      [] At(i) = "quote" -> Good(s, i + 1)
      [] At(i) = "backslash" /\ At(i + 1) # End -> Quoted(i + 2, s \o Utf8(At(i + 1)))
      [] OTHER -> Quoted(i + 1, Append(s, At(i)))

Value(j) ==
    LET i == Ws(j) IN
    CASE At(i) = "t" -> Good(<<"true">>, i + 1)
      [] At(i) = "quote" -> LET r == Quoted(i + 1, <<>>) IN IF r.ok THEN Good(<<"string", r.v>>, r.i) ELSE Bad
      [] At(i) = "[" -> Elements(Ws(i + 1), <<>>)
      [] At(i) = "{" -> Pairs(Ws(i + 1), <<>>)
      [] At(i) \in DOMAIN Digit \cup {"-"} -> Number(i)
      [] OTHER -> Bad

Elements(i, s) ==
    IF At(i) = "]" THEN Good(<<"array", s>>, i + 1)
    ELSE LET r == Value(i)
             k == Ws(r.i)
         IN  CASE r.ok /\ At(k) = "," -> Elements(Ws(k + 1), Append(s, r.v))
               [] r.ok /\ At(k) = "]" -> Good(<<"array", Append(s, r.v)>>, k + 1)
               [] OTHER -> Bad

Pairs(i, s) ==
    IF At(i) = "}" THEN Good(<<"object", s>>, i + 1)
    ELSE IF At(i) # "quote" THEN Bad
    ELSE LET q == Quoted(i + 1, <<>>) IN
         IF ~q.ok \/ At(Ws(q.i)) # ":" THEN Bad
         ELSE LET r == Value(Ws(q.i) + 1)
                  k == Ws(r.i)
              IN  CASE r.ok /\ At(k) = "," -> Pairs(Ws(k + 1), Append(s, <<q.v, r.v>>))
                    [] r.ok /\ At(k) = "}" -> Good(<<"object", Append(s, <<q.v, r.v>>)>>, k + 1)
                    [] OTHER -> Bad

Meaning == LET r == Value(1) IN IF r.ok /\ At(Ws(r.i)) = End THEN r ELSE Bad

\* The tree the parser has built.
Tree ==
    LET f[i \in 1..Len(p.vals)] ==
          LET v == p.vals[i] IN
          CASE v.type = "OBJECT" -> <<"object", [k \in 1..v.len |-> <<v.keys[k], f[v.kids[k]]>>]>>
            [] v.type = "ARRAY" -> <<"array", [k \in 1..v.len |-> f[v.kids[k]]]>>
            [] v.type = "INTEGER" -> <<"integer", v.int>> [] v.type = "DOUBLE" -> <<"double", v.dbl>>
            [] v.type = "STRING" -> <<"string", v.str>> [] OTHER -> <<"true">>
    IN  f[p.root]
Built == p.out = "passed" /\ ~p.first

TypeOK ==
    /\ p.out \in {"parsing", "passed", "failed", "starved", "crashed", "freed"}
    /\ p.ptr \in 1..(Len(text) + 1) /\ p.top \in 0..Len(p.vals) /\ p.root \in {0, 1}
    /\ \A i \in DOMAIN p.vals : p.vals[i].parent < i

\* The parser takes the texts of the grammar and no other, and the second
\* pass accepts what the first has accepted.
TakesTheGrammar == (p.out = "failed" => p.first /\ ~Meaning.ok) /\ (Built => Meaning.ok)

\* The tree it builds is the one the text means.
BuildsTheMeaning == Built => Tree = Meaning.v

\* What the second pass writes fits the memory the first has measured: the
\* elements, the members, the names and the strings with their ends.
Fitting == ~p.over /\ (Built => \A i \in DOMAIN p.vals : p.vals[i].type = "OBJECT" => p.vals[i].mem = 0)

\* No block is given back twice, or without having been taken.
NothingTwice ==
    LET blocks == SelectSeq(p.freed, LAMBDA b : b[1] # "null")
    IN  IsInjective(blocks) /\ ToSet(blocks) \subseteq p.taken

\* A parse that failed, and a tree that is freed, leave nothing behind; only
\* when memory runs out in the second pass are the open containers lost.
AllGivenBack ==
    (p.out \in {"failed", "freed"} \/ (p.out = "starved" /\ p.first)) => p.taken \subseteq ToSet(p.freed)

\* What a driver reads of a member is what the text says: the first member of
\* that name that has the type, and for an array the first that has it there.
ReadsTheText ==
    (Built /\ Type([p EXCEPT !.top = p.root]) = "OBJECT") =>
      LET FirstOf(S, v(_), def) == IF S = {} THEN def ELSE v(Min(S))
      IN \A m \in {Meaning.v[2]} : \A name \in {m[k][1] : k \in DOMAIN m} :
           LET of(t) == {k \in DOMAIN m : m[k][1] = name /\ m[k][2][1] = t} IN
           /\ dt_read_int(p.root, name, -7) = FirstOf(of("integer"), LAMBDA k : m[k][2][2], -7)
           /\ dt_read_u8(p.root, name, 7) = FirstOf(of("integer"), LAMBDA k : m[k][2][2] % 256, 7)
           /\ dt_read_string(p.root, name, <<>>) = FirstOf(of("string"), LAMBDA k : m[k][2][2], <<>>)
           /\ (dt_read_object(p.root, name) = 0) = (of("object") = {})
           /\ dt_read_array_length(p.root, name) = FirstOf(of("array"), LAMBDA k : Len(m[k][2][2]), 0)
           /\ \A idx \in -1..2 :
                LET has(t) == {k \in of("array") : idx \in 0..(Len(m[k][2][2]) - 1) /\ m[k][2][2][idx + 1][1] = t} IN
                /\ dt_read_array_int(p.root, name, idx, -7) = FirstOf(has("integer"), LAMBDA k : m[k][2][2][idx + 1][2], -7)
                /\ dt_read_array_u8(p.root, name, idx, 7) = FirstOf(has("integer"), LAMBDA k : m[k][2][2][idx + 1][2] % 256, 7)
                /\ (dt_read_array_object(p.root, name, idx) = 0) = (has("object") = {})

JsonRight == TypeOK /\ TakesTheGrammar /\ BuildsTheMeaning /\ Fitting /\ NothingTwice /\ AllGivenBack
=============================================================================
