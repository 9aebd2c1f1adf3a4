----------------------------- MODULE MCLibrary -----------------------------
(* The model-checking instances of what the kernel takes from its library:  *)
(* lists, trees, strings, numbers and the text of the device tree.  A run   *)
(* starts in one of the subjects and stays there.                           *)
EXTENDS DList, TLC

CONSTANT None

VARIABLES
    subject,
    t, op,                                      \* RbTree
    bytes, old, copying, copied, strtok, toks,  \* Strings
    call, fmt, mem, str, ret, text, base, signed,   \* Format
    division, pc, num, den, res, bit, hi, yh,   \* Divide
    dividend, divisor, reduced, inverse, power, plus, low, high, carry, at, remainder,   \* do_div()
    json, ended, p                              \* Json

treeVars == <<t, op>>
stringVars == <<bytes, old, copying, copied, strtok, toks>>
printVars == <<call, fmt, mem, str, ret>>
readVars == <<text, base, signed>>
divideVars == <<division, pc, num, den, res, bit, hi, yh>>
inverseVars == <<dividend, divisor, reduced, inverse, power, plus, low, high, carry, at, remainder>>
jsonVars == <<json, ended, p>>
suiteVars == <<vars, treeVars, stringVars, printVars, readVars, divideVars, inverseVars, jsonVars, subject>>

-----------------------------------------------------------------------------

RB == INSTANCE RbTree WITH N <- 8, Twins <- 2

Copies == INSTANCE Strings WITH mem <- bytes, call <- copying, ret <- copied, A <- 5, Bytes <- 0..2, Fns <- {"mem", "str"}
Finds == INSTANCE Strings WITH mem <- bytes, call <- copying, ret <- copied, A <- 4, Bytes <- {0, 1, 2, 6}, Fns <- {"cmp", "find"}
Tokens == INSTANCE Strings WITH mem <- bytes, call <- copying, ret <- copied, A <- 7, Bytes <- 0..2, Fns <- {"strtok", "strsep"}

\* The buffer is at 8, or at 40 where a large size wraps, as the one sprintf()
\* gives does; 40 is negative as an int.  A size of 0 comes with a buffer and with
\* NULL, as vasprintf() asks for a length.
Numbers == INSTANCE Format WITH
    W <- 4, A <- 64, Calls <- {<<40, 28>>, <<8, 40>>}, Convs <- {"d", "u", "o", "x", "X"},
    FlagSets <- {{}, {"ZEROPAD"}, {"LEFT"}, {"PLUS", "SPACE"}, {"SPECIAL"}, {"SPECIAL", "ZEROPAD"}, {"SPACE", "LEFT", "SPECIAL"}},
    Widths <- {None, 4, -4}, Precisions <- {None, -1, 0, 2}, Quals <- {None, "h", "L"}, Values <- {-8, -1, 0, 7, 11}, MaxItems <- 1,
    Chars <- {}, Bases <- {10}, MaxText <- 0
Words == INSTANCE Format WITH
    W <- 4, A <- 64, Calls <- {<<0, 0>>, <<8, 0>>, <<8, 1>>, <<8, 3>>, <<8, 15>>, <<40, 28>>, <<8, 40>>}, Convs <- {"c", "s", "%", "lit", "other", "cut"},
    FlagSets <- {{}, {"LEFT"}}, Widths <- {None, 0, 2, -2}, Precisions <- {None, 1}, Quals <- {None}, Values <- {}, MaxItems <- 2,
    Chars <- {}, Bases <- {10}, MaxText <- 0
Reads == INSTANCE Format WITH
    W <- 5, A <- 64, Calls <- {<<8, 0>>}, Convs <- {}, FlagSets <- {}, Widths <- {}, Precisions <- {}, Quals <- {}, Values <- {}, MaxItems <- 0,
    Chars <- {" ", "-", "0", "1", "6", "x", "f"}, Bases <- {0, 8, 10, 16}, MaxText <- 4

Divide32 == INSTANCE Divide WITH call <- division, W <- 6, H <- 4, Fns <- {"udiv", "umod", "div", "mod"}, Highs <- {0}
Divide64 == INSTANCE Divide WITH call <- division, W <- 5, H <- 4, Fns <- {"do_div64"}, Highs <- {0, 1, 4, 11, 15, 16, 30, 31}

Structure == {"{", "}", "[", "]", ",", ":", "quote", "1"}
Trees == INSTANCE Json WITH text <- json, MaxText <- 8, MaxDigits <- 1, MaxStarve <- 0,
    Alphabet <- Structure, Letters <- {"1", "quote", "backslash", "u3"}
Members == INSTANCE Json WITH text <- json, MaxText <- 13, MaxDigits <- 1, MaxStarve <- 0,
    Alphabet <- Structure, Letters <- {"quote"}
Numerals == INSTANCE Json WITH text <- json, MaxText <- 6, MaxDigits <- 3, MaxStarve <- 0,
    Alphabet <- {"[", ",", "]", "0", "1", "-", "+", ".", "e", "/"}, Letters <- {}
Comments == INSTANCE Json WITH text <- json, MaxText <- 5, MaxDigits <- 3, MaxStarve <- 6,
    Alphabet <- {"{", "}", "[", "]", ":", "quote", "/", "*", "newline", "t", "1"}, Letters <- {"quote", "backslash", "u3", "/"}

ASSUME
    /\ RB!RbTreeAssumption /\ Copies!StringsAssumption /\ Finds!StringsAssumption /\ Tokens!StringsAssumption
    /\ Numbers!FormatAssumption /\ Words!FormatAssumption /\ Reads!FormatAssumption
    /\ Divide32!DivideAssumption /\ Divide64!DivideAssumption 
    /\ Trees!JsonAssumption /\ Members!JsonAssumption /\ Numerals!JsonAssumption /\ Comments!JsonAssumption

-----------------------------------------------------------------------------

CONSTANT Subjects

\* The items are not told apart.
Symmetric == Permutations(Items)

\* What a subject is not about has one initial state.
Parked(subjects, state) == IF subject \in subjects THEN TRUE ELSE state
SuiteInit ==
    /\ subject \in Subjects
    /\ Init /\ RB!Init
    /\ Parked({"copies", "finds", "tokens"}, bytes = [a0 \in 0..6 |-> 0])
    /\ IF subject = "copies" THEN Copies!Init ELSE IF subject = "finds" THEN Finds!Init ELSE Tokens!Init
    /\ IF subject = "numbers" THEN Numbers!PrintInit ELSE IF subject = "words" THEN Words!PrintInit ELSE Reads!PrintInit
    /\ Parked({"reads"}, base = 0 /\ signed = TRUE) /\ Reads!ReadInit
    /\ Parked({"divide32", "divide64"}, division = [fn |-> "do_div64", n |-> 0, d |-> 1, hi |-> 0, clz |-> TRUE])
    /\ IF subject = "divide32" THEN Divide32!Init ELSE Divide64!Init
    /\ Parked({"constant"}, dividend = 0 /\ divisor = 3) /\ Divide32!InverseInit
    /\ IF subject = "comments" THEN Comments!Init ELSE Trees!Init

TreeStep == subject = "tree" /\ RB!Next
StringStep ==
    \/ subject = "copies" /\ Copies!Next
    \/ subject = "finds" /\ Finds!Next
    \/ subject = "tokens" /\ Tokens!Next
PrintStep ==
    \/ subject = "numbers" /\ Numbers!PrintNext
    \/ subject = "words" /\ Words!PrintNext
DivideStep ==
    \/ subject = "divide32" /\ Divide32!Next
    \/ subject = "divide64" /\ Divide64!Next
JsonStep ==
    \/ subject = "trees" /\ Trees!Next
    \/ subject = "members" /\ Members!Next
    \/ subject = "numerals" /\ Numerals!Next
    \/ subject = "comments" /\ Comments!Next

SuiteNext ==
    \/ subject = "lists" /\ Next /\ UNCHANGED <<treeVars, stringVars, printVars, readVars, divideVars, inverseVars, jsonVars, subject>>
    \/ TreeStep /\ UNCHANGED <<vars, stringVars, printVars, readVars, divideVars, inverseVars, jsonVars, subject>>
    \/ StringStep /\ UNCHANGED <<vars, treeVars, printVars, readVars, divideVars, inverseVars, jsonVars, subject>>
    \/ PrintStep /\ UNCHANGED <<vars, treeVars, stringVars, readVars, divideVars, inverseVars, jsonVars, subject>>
    \/ subject = "reads" /\ Reads!ReadNext /\ UNCHANGED <<vars, treeVars, stringVars, printVars, divideVars, inverseVars, jsonVars, subject>>
    \/ DivideStep /\ UNCHANGED <<vars, treeVars, stringVars, printVars, readVars, inverseVars, jsonVars, subject>>
    \/ subject = "constant" /\ Divide32!InverseNext /\ UNCHANGED <<vars, treeVars, stringVars, printVars, readVars, divideVars, jsonVars, subject>>
    \/ JsonStep /\ UNCHANGED <<vars, treeVars, stringVars, printVars, readVars, divideVars, inverseVars, subject>>
SuiteSpec == SuiteInit /\ [][SuiteNext]_suiteVars

-----------------------------------------------------------------------------

\* A tree is balanced after every operation, its walks and its augmented values
\* are right, and the loops keep what their comments say.
TreeRight == subject = "tree" => RB!TreeRight

\* The pointers implement sequences, as ListSpec says; the tree is a queue by key,
\* first come first served among the same key.
OrderKept ==
    [][ /\ subject = "lists" => [Abstract!Next]_ListContent
        /\ subject = "tree" => RB!KeepsOrder ]_suiteVars

\* What vsnprintf() puts into its buffer, what scnprintf() says of it, and what a
\* text is as a number; for a size of 0 what the code does, which is not what the
\* comments say.
PrintedAndRead ==
    /\ subject \in {"numbers", "words"} => Words!TextRight
    /\ subject = "numbers" => Numbers!ReadsBack
    /\ subject = "reads" => Reads!NumberRight

\* What string functions write and find, the values that are built of the device
\* tree's text, and what a division returns.
TextAndNumbersRight ==
    /\ subject = "copies" => Copies!WritesExactly
    /\ subject = "finds" => Finds!Finds /\ Finds!Compares
    /\ subject = "tokens" => Tokens!Splits
    /\ subject \in {"trees", "numerals", "comments"} => Trees!JsonRight
    /\ subject = "members" => Trees!ReadsTheText /\ Trees!Fitting
    /\ subject = "divide32" => Divide32!QuotientsRight
    /\ subject = "divide64" => Divide64!QuotientsRight
    /\ subject = "constant" => Divide32!InversesRight
=============================================================================
