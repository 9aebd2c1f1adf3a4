-------------------------------- MODULE DList --------------------------------
(* The doubly linked lists of include/list.h.  A list is a ring of nodes,   *)
(* the head among them; every function is the pointer assignments of the    *)
(* code in their order.  What may be passed to each is in the guards.       *)
EXTENDS Integers, Sequences, FiniteSets

CONSTANTS
    Heads, Items,   \* the nodes: heads of lists, and the nodes in the items
    Null            \* what a pointer holds that points to none

ASSUME DListAssumption == Heads \cap Items = {} /\ Null \notin Heads \cup Items

Node == Heads \cup Items

VARIABLES
    heap,       \* the pointers next and prev of each node
    live        \* the nodes whose pointers are meant: heads that were initialised, items in a list
vars == <<heap, live>>

Self(n) == heap.next[n] = n
Empty(h) == Self(h)                             \* list_empty()
Singular(h) == ~Empty(h) /\ heap.next[h] = heap.prev[h]    \* list_is_singular()
\* Memory, or a node that list_del_init() has left, to which nothing else points
Loose(n) == n \notin live \/ Self(n)

----------------------------------------------------------------------------
(* The pointers that the functions set                                      *)

WithPrev(H, n, p) == [H EXCEPT !.prev[n] = p]
WithNext(H, n, p) == [H EXCEPT !.next[n] = p]

Ringed(H, n) == WithPrev(WithNext(H, n, n), n, n)
Linked_late(H, new, p, q) ==
    WithNext(WithPrev(WithNext(WithPrev(H, q, new), new, H.next[p]), new, p), q, new)
Linked(H, new, p, q) ==
    WithNext(WithPrev(WithNext(WithPrev(H, q, new), new, q), new, p), p, new)
Joined(H, p, q) == WithNext(WithPrev(H, q, p), p, q)
Unlinked(H, e) == Joined(H, H.prev[e], H.next[e])
Front(H, new, head) == Linked(H, new, head, H.next[head])
Back(H, new, head) == Linked(H, new, H.prev[head], head)
Cleared(H, e) == WithPrev(WithNext(H, e, Null), e, Null)

\* list_replace(): if old is alone in its ring, the second assignment is to old itself.
Replaced(H, old, new) ==
    LET a == WithNext(H, new, H.next[old])
        b == WithPrev(a, a.next[new], new)
        c == WithPrev(b, new, b.prev[old])
    IN WithNext(c, c.prev[new], new)

\* list_bulk_move_tail()
Bulk(H, head, first, last) ==
    LET a == WithNext(H, H.prev[first], H.next[last])
        b == WithPrev(a, a.next[last], a.prev[first])
        c == WithNext(b, b.prev[head], first)
        d == WithPrev(c, first, c.prev[head])
    IN WithPrev(WithNext(d, last, head), head, last)

CutAt(H, list, head, entry) ==
    LET first == H.next[entry]
        a == WithNext(H, list, H.next[head])
        b == WithPrev(WithPrev(a, a.next[list], list), list, entry)
    IN Joined(WithNext(b, entry, list), head, first)
CutBefore(H, list, head, entry) ==
    LET a == WithNext(H, list, H.next[head])
        b == WithPrev(a, a.next[list], list)
        c == WithPrev(b, list, b.prev[entry])
        d == WithNext(c, c.prev[list], list)
    IN WithPrev(WithNext(d, head, entry), entry, head)

Spliced(H, list, p, q) ==
    LET first == H.next[list] last == H.prev[list]
        a == WithNext(WithPrev(H, first, p), p, first)
    IN WithPrev(WithNext(a, last, q), q, last)

----------------------------------------------------------------------------
(* The functions                                                            *)

Init ==
    /\ heap = [next |-> [n \in Node |-> IF n \in Heads THEN n ELSE Null],
               prev |-> [n \in Node |-> IF n \in Heads THEN n ELSE Null]]
    /\ live = Heads

init_list_head(n) ==
    /\ Loose(n) /\ heap' = Ringed(heap, n) /\ live' = live \cup {n}
list_add(new, head) ==
    /\ Loose(new) /\ head \in live /\ head # new
    /\ heap' = Front(heap, new, head) /\ live' = live \cup {new}
list_add_tail(new, head) ==
    /\ Loose(new) /\ head \in live /\ head # new
    /\ heap' = Back(heap, new, head) /\ live' = live \cup {new}
list_del(e) ==
    /\ e \in live /\ heap' = Cleared(Unlinked(heap, e), e) /\ live' = live \ {e}
list_del_init(e) ==
    /\ e \in live /\ heap' = Ringed(Unlinked(heap, e), e) /\ UNCHANGED live
list_replace(old, new) ==
    /\ old \in live /\ Loose(new) /\ old # new
    /\ heap' = Replaced(heap, old, new) /\ live' = (live \ {old}) \cup {new}
list_replace_init(old, new) ==
    /\ old \in live /\ Loose(new) /\ old # new
    /\ heap' = Ringed(Replaced(heap, old, new), old) /\ live' = live \cup {new}
list_move(e, head) ==
    /\ {e, head} \subseteq live /\ e # head
    /\ heap' = Front(Unlinked(heap, e), e, head) /\ UNCHANGED live
list_move_tail(e, head) ==
    /\ {e, head} \subseteq live /\ e # head
    /\ heap' = Back(Unlinked(heap, e), e, head) /\ UNCHANGED live
list_bulk_move_tail(head, first, last) ==
    /\ {head, first, last} \subseteq live /\ head \notin {first, last}
    /\ heap' = Bulk(heap, head, first, last) /\ UNCHANGED live
list_rotate_left(head) ==
    /\ head \in live /\ ~Empty(head)
    /\ heap' = Back(Unlinked(heap, heap.next[head]), heap.next[head], head) /\ UNCHANGED live

\* list is not initialised when head is empty, or has one entry that is not the one given.
list_cut_position(list, head, entry) ==
    /\ Loose(list) /\ {head, entry} \subseteq live /\ list \notin {head, entry}
    /\ ~Empty(head) /\ (Singular(head) => entry \in {head, heap.next[head]})
    /\ heap' = IF entry = head THEN Ringed(heap, list) ELSE CutAt(heap, list, head, entry)
    /\ live' = live \cup {list}
list_cut_before(list, head, entry) ==
    /\ Loose(list) /\ {head, entry} \subseteq live /\ list \notin {head, entry}
    /\ heap' = IF heap.next[head] = entry THEN Ringed(heap, list)
               ELSE CutBefore(heap, list, head, entry)
    /\ live' = live \cup {list}

\* The head of the list that is spliced is on no other list, so never next to the other head.
Apart(list, head) ==
    /\ {list, head} \subseteq live /\ list \notin {head, heap.next[head], heap.prev[head]}

\* The head that is left behind points to items that are another's: it has to be
\* initialised, which the second pair of functions does.
list_splice(list, head) ==
    /\ Apart(list, head) /\ ~Empty(list)
    /\ heap' = Spliced(heap, list, head, heap.next[head]) /\ live' = live \ {list}
list_splice_tail(list, head) ==
    /\ Apart(list, head) /\ ~Empty(list)
    /\ heap' = Spliced(heap, list, heap.prev[head], head) /\ live' = live \ {list}
list_splice_init_wrong(list, head) ==
    /\ Apart(list, head) /\ ~Empty(list)
    /\ heap' = Ringed(Spliced(heap, list, head, heap.next[head]), head) /\ UNCHANGED live
list_splice_init(list, head) ==
    /\ Apart(list, head) /\ ~Empty(list)
    /\ heap' = Ringed(Spliced(heap, list, head, heap.next[head]), list) /\ UNCHANGED live
list_splice_tail_init(list, head) ==
    /\ Apart(list, head) /\ ~Empty(list)
    /\ heap' = Ringed(Spliced(heap, list, heap.prev[head], head), list) /\ UNCHANGED live

----------------------------------------------------------------------------
(* The nodes that list_for_each() visits from a head, and the callers: a    *)
(* head is never an item, and what is passed as an entry is on the list.    *)

Steps == 0..Cardinality(Node)
Walk(h) == LET visit[i \in Steps] == IF i = 0 THEN h ELSE heap.next[visit[i - 1]] IN visit
Length(h) == LET w == Walk(h) IN Cardinality({n \in Steps \ {0} : \A i \in 1..n : w[i] # h})
ItemsOf(h) == LET w == Walk(h) IN [i \in 1..Length(h) |-> w[i]]
Ring(h) == LET w == Walk(h) IN {w[i] : i \in 0..Length(h)}
Alive == Heads \cap live
Entry(x) == x \in live /\ ~Self(x)

\* The items from first to last, in this order, of the list h
Segment(h, first, last) ==
    \E i, j \in 1..Length(h) : i <= j /\ Walk(h)[i] = first /\ Walk(h)[j] = last

Next ==
    \/ \E h \in Heads : (h \notin live \/ Empty(h)) /\ init_list_head(h)
    \/ \E x \in Items, h \in Alive : list_add(x, h) \/ list_add_tail(x, h)
    \/ \E x \in Items : Entry(x) /\ (list_del(x) \/ list_del_init(x))
    \/ \E x, y \in Items : Entry(x) /\ (list_replace(x, y) \/ list_replace_init(x, y))
    \/ \E x \in Items, h \in Alive : Entry(x) /\ (list_move(x, h) \/ list_move_tail(x, h))
    \/ \E h \in Alive, x, y \in Items : Segment(h, x, y) /\ list_bulk_move_tail(h, x, y)
    \/ \E h \in Alive : list_rotate_left(h)
    \/ \E l \in Heads, h \in Alive : \E x \in Ring(h) :
         list_cut_position(l, h, x) \/ list_cut_before(l, h, x)
    \/ \E l, h \in Alive :
         \/ list_splice(l, h) \/ list_splice_tail(l, h)
         \/ list_splice_init(l, h) \/ list_splice_tail_init(l, h)
Spec == Init /\ [][Next]_vars

----------------------------------------------------------------------------
(* What the functions of list.h keep.                                       *)

Pointers == [Node -> Node \cup {Null}]
Heap == [next : Pointers, prev : Pointers]
TypeOK == heap \in Heap /\ live \subseteq Node

\* Forwards and backwards are inverse to each other on the nodes in use, which no pointer
\* leads out of: so they form rings, and a list can be walked in both directions.
Well(H, L) ==
    \A n \in L :
        /\ H.next[n] \in L /\ H.prev[n] \in L
        /\ H.prev[H.next[n]] = n /\ H.next[H.prev[n]] = n
Rings == Well(heap, live)

\* The pointers implement sequences: whatever the order of the calls, walking a list gives
\* the items that the calls so far have put into it.
ListContent == [h \in Heads |-> IF h \in live THEN ItemsOf(h) ELSE <<"lost">>]
Abstract == INSTANCE Lists WITH content <- ListContent
ListSpec == Abstract!Spec
=============================================================================
