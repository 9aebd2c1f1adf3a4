SPECIFICATION SuiteSpec
CONSTANTS
    Null = null
    None = none
    Heads = {h1, h2}
    Items = {n1, n2, n3}
    Subjects = {"lists", "tree", "copies", "finds", "tokens", "numbers", "words", "reads", "divide32", "divide64", "constant", "trees", "members", "numerals", "comments"}
INVARIANTS
    Rings
    TreeRight
    PrintedAndRead
    TextAndNumbersRight
PROPERTIES
    OrderKept
SYMMETRY Symmetric
CHECK_DEADLOCK FALSE
