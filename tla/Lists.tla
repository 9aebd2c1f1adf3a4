-------------------------------- MODULE Lists --------------------------------
(* What the users of list.h rely on: every head has a sequence of items, an *)
(* item is in one sequence at most, and a head whose items were spliced     *)
(* away has none to speak of until it is initialised again.                 *)
EXTENDS Integers, Sequences, SequencesExt

CONSTANTS Heads, Items

VARIABLE content

Lost == <<"lost">>
Has(h) == content[h] # Lost
In(h, x) == Has(h) /\ x \in ToSet(content[h])
Free(x) == \A h \in Heads : ~In(h, x)
Without(x) == [h \in Heads |-> IF In(h, x) THEN RemoveFirst(content[h], x) ELSE content[h]]
Become(h, s) == content' = [content EXCEPT ![h] = s]

Start(h) == content[h] \in {Lost, <<>>} /\ Become(h, <<>>)
Insert(h, i, x) == Has(h) /\ Free(x) /\ Become(h, InsertAt(content[h], i, x))
Delete(x) == ~Free(x) /\ content' = Without(x)
Replace(x, y) ==
    \E h \in Heads : In(h, x) /\ Free(y) /\ Become(h, ReplaceAll(content[h], x, y))
Move(x, h) == ~Free(x) /\ Has(h) /\ content' = [Without(x) EXCEPT ![h] = <<x>> \o @]
MoveTail(x, h) == ~Free(x) /\ Has(h) /\ content' = [Without(x) EXCEPT ![h] = Append(@, x)]

\* The items from the i-th to the j-th of g go to the end of h.
MoveRange(g, i, j, h) ==
    /\ Has(h) /\ Has(g) /\ 1 <= i /\ i <= j /\ j <= Len(content[g])
    /\ LET rest == SubSeq(content[g], 1, i - 1) \o SubSeq(content[g], j + 1, Len(content[g]))
           moved == SubSeq(content[g], i, j)
       IN content' = [[content EXCEPT ![g] = rest] EXCEPT ![h] = @ \o moved]
Rotate(h) ==
    Has(h) /\ content[h] # <<>> /\ Become(h, Append(Tail(content[h]), Head(content[h])))

\* The first i items of h become the list l.
Cut(l, h, i) ==
    /\ l # h /\ content[l] \in {Lost, <<>>} /\ Has(h) /\ i \in 0..Len(content[h])
    /\ content' = [content EXCEPT ![l] = SubSeq(content[h], 1, i),
                                  ![h] = SubSeq(content[h], i + 1, Len(content[h]))]

Splice(l, h, s, left) ==
    /\ l # h /\ Has(l) /\ Has(h) /\ content[l] # <<>>
    /\ content' = [content EXCEPT ![h] = s, ![l] = left]

Init == content = [h \in Heads |-> <<>>]
Next ==
    \/ \E h \in Heads, x \in Items :
         \/ \E i \in 1..Len(content[h]) + 1 : Insert(h, i, x)
         \/ Move(x, h) \/ MoveTail(x, h)
    \/ \E x, y \in Items : Delete(x) \/ Replace(x, y)
    \/ \E h \in Heads : Start(h) \/ Rotate(h)
    \/ \E l, h \in Heads :
         \/ \E i, j \in 1..Len(content[l]) : MoveRange(l, i, j, h)
         \/ \E i \in 0..Len(content[h]) : Cut(l, h, i)
    \/ \E l, h \in Heads, left \in {<<>>, Lost} :
         Splice(l, h, content[l] \o content[h], left) \/ Splice(l, h, content[h] \o content[l], left)
Spec == Init /\ [][Next]_content

=============================================================================
