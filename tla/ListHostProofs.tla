--------------------------- MODULE ListHostProofs ---------------------------
(* The theorems about two parts of the system that have nothing to do with  *)
(* each other, each with its own variables and its own specification.       *)
(* list.h: however many heads and items there are, and in whatever order    *)
(* its functions are called on them, the pointers stay rings.               *)
(* The SD host: however many tasks there are, and whatever sizes transfers  *)
(* and the FIFO have, what the tasks are told of their transfers is true.   *)
EXTENDS DList, Host, SequenceTheorems, TLAPS

\* The assignments keep the heap a heap.
LEMMA WithNextType ==
    ASSUME NEW H \in Heap, NEW n \in Node, NEW p \in Node \cup {Null}
    PROVE  /\ WithNext(H, n, p) \in Heap
           /\ WithNext(H, n, p).next = [H.next EXCEPT ![n] = p]
           /\ WithNext(H, n, p).prev = H.prev
BY DEF WithNext, Heap, Pointers

LEMMA WithPrevType ==
    ASSUME NEW H \in Heap, NEW n \in Node, NEW p \in Node \cup {Null}
    PROVE  /\ WithPrev(H, n, p) \in Heap
           /\ WithPrev(H, n, p).prev = [H.prev EXCEPT ![n] = p]
           /\ WithPrev(H, n, p).next = H.next
BY DEF WithPrev, Heap, Pointers

LEMMA HeapType ==
    ASSUME NEW H \in Heap, NEW n \in Node
    PROVE  /\ H.next \in Pointers /\ H.prev \in Pointers
           /\ H.next[n] \in Node \cup {Null} /\ H.prev[n] \in Node \cup {Null}
BY DEF Heap, Pointers

\* init_list_head() of a node that is in no ring, or alone in its own.
LEMMA RingedKeeps ==
    ASSUME NEW H \in Heap, NEW L \in SUBSET Node, NEW n \in Node, Well(H, L),
           n \notin L \/ H.next[n] = n
    PROVE  Ringed(H, n) \in Heap /\ Well(Ringed(H, n), L \cup {n})
<1> DEFINE A == WithNext(H, n, n)
<1>1. A \in Heap /\ A.next = [H.next EXCEPT ![n] = n] /\ A.prev = H.prev
  BY WithNextType
<1>2. /\ Ringed(H, n) \in Heap /\ Ringed(H, n).next = [H.next EXCEPT ![n] = n]
      /\ Ringed(H, n).prev = [H.prev EXCEPT ![n] = n]
  BY <1>1, WithPrevType DEF Ringed
<1>3. H.next \in Pointers /\ H.prev \in Pointers
  BY HeapType
<1> QED
  BY <1>2, <1>3 DEF Well, Pointers

\* __list_add() between two neighbours of a node that is in no ring, or alone in its own.
LEMMA LinkedKeeps ==
    ASSUME NEW H \in Heap, NEW L \in SUBSET Node, NEW new \in Node, NEW p \in L, NEW q \in L,
           Well(H, L), H.next[p] = q, new \notin {p, q}, new \notin L \/ H.next[new] = new
    PROVE  Linked(H, new, p, q) \in Heap /\ Well(Linked(H, new, p, q), L \cup {new})
<1> DEFINE A == WithPrev(H, q, new)
           B == WithNext(A, new, q)
           C == WithPrev(B, new, p)
           D == WithNext(C, p, new)
<1>1. p \in Node /\ q \in Node
  OBVIOUS
<1>2. A \in Heap /\ A.prev = [H.prev EXCEPT ![q] = new] /\ A.next = H.next
  BY <1>1, WithPrevType
<1>3. B \in Heap /\ B.next = [A.next EXCEPT ![new] = q] /\ B.prev = A.prev
  BY <1>1, <1>2, WithNextType
<1>4. C \in Heap /\ C.prev = [B.prev EXCEPT ![new] = p] /\ C.next = B.next
  BY <1>1, <1>3, WithPrevType
<1>5. D \in Heap /\ D.next = [C.next EXCEPT ![p] = new] /\ D.prev = C.prev
  BY <1>1, <1>4, WithNextType
<1>6. D = Linked(H, new, p, q)
  BY DEF Linked
<1>7. H.next \in Pointers /\ H.prev \in Pointers
  BY HeapType
<1>8. /\ D.next = [[H.next EXCEPT ![new] = q] EXCEPT ![p] = new]
      /\ D.prev = [[H.prev EXCEPT ![q] = new] EXCEPT ![new] = p]
  BY <1>2, <1>3, <1>4, <1>5
<1> HIDE DEF A, B, C, D
<1>9. Well(D, L \cup {new})
  BY <1>1, <1>7, <1>8 DEF Well, Pointers
<1> QED
  BY <1>5, <1>6, <1>9

\* __list_del() of a node and its neighbours: the node is out of the ring.
LEMMA UnlinkedKeeps ==
    ASSUME NEW H \in Heap, NEW L \in SUBSET Node, NEW e \in L, Well(H, L)
    PROVE  Unlinked(H, e) \in Heap /\ Well(Unlinked(H, e), L \ {e})
<1> DEFINE p == H.prev[e]
           q == H.next[e]
           A == WithPrev(H, q, p)
           B == WithNext(A, p, q)
<1>1. p \in L /\ q \in L /\ e \in Node /\ p \in Node /\ q \in Node
  BY DEF Well
<1>2. A \in Heap /\ A.prev = [H.prev EXCEPT ![q] = p] /\ A.next = H.next
  BY <1>1, WithPrevType
<1>3. B \in Heap /\ B.next = [A.next EXCEPT ![p] = q] /\ B.prev = A.prev
  BY <1>1, <1>2, WithNextType
<1>4. B = Unlinked(H, e)
  BY DEF Unlinked, Joined
<1>5. H.next \in Pointers /\ H.prev \in Pointers
  BY HeapType
<1>6. B.next = [H.next EXCEPT ![p] = q] /\ B.prev = [H.prev EXCEPT ![q] = p]
  BY <1>2, <1>3
<1> HIDE DEF A, B
<1>7. Well(B, L \ {e})
  BY <1>1, <1>5, <1>6 DEF Well, Pointers
<1> QED
  BY <1>3, <1>4, <1>7

\* Nodes out of use may hold anything.
LEMMA ClearedKeeps ==
    ASSUME NEW H \in Heap, NEW L \in SUBSET Node, NEW e \in Node, e \notin L, Well(H, L)
    PROVE  Cleared(H, e) \in Heap /\ Well(Cleared(H, e), L)
<1> DEFINE A == WithNext(H, e, Null)
           B == WithPrev(A, e, Null)
<1>1. A \in Heap /\ A.next = [H.next EXCEPT ![e] = Null] /\ A.prev = H.prev
  BY WithNextType
<1> HIDE DEF A
<1>2. B \in Heap /\ B.next = A.next /\ B.prev = [A.prev EXCEPT ![e] = Null]
  <2>1. A \in Heap /\ Null \in Node \cup {Null}
    BY <1>1
  <2> QED
    BY <2>1, WithPrevType
<1>3. H.next \in Pointers /\ H.prev \in Pointers
  BY HeapType
<1>4. B = Cleared(H, e)
  BY DEF Cleared, A
<1> HIDE DEF B
<1>5. Well(B, L)
  BY <1>1, <1>2, <1>3 DEF Well, Pointers
<1> QED
  BY <1>2, <1>4, <1>5

\* list_replace(): the new node stands where the old one stood.
LEMMA ReplacedKeeps ==
    ASSUME NEW H \in Heap, NEW L \in SUBSET Node, NEW old \in L, NEW new \in Node, Well(H, L),
           old # new, new \notin L \/ H.next[new] = new
    PROVE  Replaced(H, old, new) \in Heap /\ Well(Replaced(H, old, new), (L \ {old}) \cup {new})
<1> DEFINE A == WithNext(H, new, H.next[old])
           B == WithPrev(A, A.next[new], new)
           C == WithPrev(B, new, B.prev[old])
           D == WithNext(C, C.prev[new], new)
<1>1. H.next[old] \in L /\ H.prev[old] \in L /\ old \in Node
  BY DEF Well
<1>2. H.next \in Pointers /\ H.prev \in Pointers
  BY HeapType
<1>3. A \in Heap /\ A.next = [H.next EXCEPT ![new] = H.next[old]] /\ A.prev = H.prev
  BY <1>1, WithNextType
<1>4. A.next[new] = H.next[old]
  BY <1>2, <1>3 DEF Pointers
<1>5. B \in Heap /\ B.prev = [A.prev EXCEPT ![H.next[old]] = new] /\ B.next = A.next
  BY <1>1, <1>3, <1>4, WithPrevType
<1>6. B.prev[old] \in Node
  BY <1>1, <1>2, <1>3, <1>5 DEF Pointers
<1>7. C \in Heap /\ C.prev = [B.prev EXCEPT ![new] = B.prev[old]] /\ C.next = B.next
  BY <1>5, <1>6, WithPrevType
<1>8. C.prev[new] = B.prev[old]
  BY <1>2, <1>3, <1>5, <1>7 DEF Pointers
<1>9. D \in Heap /\ D.next = [C.next EXCEPT ![B.prev[old]] = new] /\ D.prev = C.prev
  <2>1. C.prev[new] \in Node
    BY <1>6, <1>8
  <2> HIDE DEF A, B, C
  <2>2. D \in Heap /\ D.next = [C.next EXCEPT ![C.prev[new]] = new] /\ D.prev = C.prev
    BY <1>7, <2>1, WithNextType
  <2> QED
    BY <1>8, <2>2
<1>10. D = Replaced(H, old, new)
  BY DEF Replaced
<1>11. /\ D.next = [[H.next EXCEPT ![new] = H.next[old]] EXCEPT ![B.prev[old]] = new]
       /\ D.prev = [[H.prev EXCEPT ![H.next[old]] = new] EXCEPT ![new] = B.prev[old]]
       /\ B.prev[old] = IF H.next[old] = old THEN new ELSE H.prev[old]
  <2> HIDE DEF A, B, C, D
  <2>1. D.next = [[H.next EXCEPT ![new] = H.next[old]] EXCEPT ![B.prev[old]] = new]
    BY <1>3, <1>5, <1>7, <1>9
  <2>2. B.prev = [H.prev EXCEPT ![H.next[old]] = new]
    BY <1>3, <1>5
  <2>3. D.prev = [[H.prev EXCEPT ![H.next[old]] = new] EXCEPT ![new] = B.prev[old]]
    BY <1>7, <1>9, <2>2
  <2>4. B.prev[old] = IF H.next[old] = old THEN new ELSE H.prev[old]
    BY <1>1, <1>2, <2>2 DEF Pointers
  <2> QED
    BY <2>1, <2>3, <2>4
<1> HIDE DEF A, B, C, D
<1>12. Well(D, (L \ {old}) \cup {new})
  <2>1. CASE H.next[old] = old
    BY <1>1, <1>2, <1>11, <2>1 DEF Well, Pointers
  <2>2. CASE H.next[old] # old
    BY <1>1, <1>2, <1>11, <2>2 DEF Well, Pointers
  <2> QED
    BY <2>1, <2>2
<1> QED
  BY <1>9, <1>10, <1>12

\* list_bulk_move_tail(): whatever the section is, the pointers stay inverse to each other.
LEMMA BulkKeeps ==
    ASSUME NEW H \in Heap, NEW L \in SUBSET Node, NEW head \in L, NEW first \in L, NEW last \in L,
           Well(H, L), head \notin {first, last}
    PROVE  Bulk(H, head, first, last) \in Heap /\ Well(Bulk(H, head, first, last), L)
<1> DEFINE p == H.prev[first]
           n == H.next[last]
           A == WithNext(H, p, n)
           B == WithPrev(A, A.next[last], A.prev[first])
           t == B.prev[head]
           C == WithNext(B, t, first)
           D == WithPrev(C, first, C.prev[head])
           E == WithNext(D, last, head)
           G == WithPrev(E, head, last)
<1>1. H.next \in Pointers /\ H.prev \in Pointers
  BY HeapType
<1>2. /\ p \in L /\ n \in L /\ p \in Node /\ n \in Node
      /\ head \in Node /\ first \in Node /\ last \in Node
  BY DEF Well
<1>3. A \in Heap /\ A.next = [H.next EXCEPT ![p] = n] /\ A.prev = H.prev
  BY <1>2, WithNextType
<1>4. A.next[last] = n /\ A.prev[first] = p
  BY <1>1, <1>2, <1>3 DEF Pointers
<1>5. B \in Heap /\ B.prev = [H.prev EXCEPT ![n] = p] /\ B.next = A.next
  BY <1>2, <1>3, <1>4, WithPrevType
<1>6. t \in Node /\ t = IF n = head THEN p ELSE H.prev[head]
  BY <1>1, <1>2, <1>5 DEF Pointers, Well
<1> HIDE DEF A, B, t
<1>7. C \in Heap /\ C.next = [A.next EXCEPT ![t] = first] /\ C.prev = B.prev
  BY <1>2, <1>5, <1>6, WithNextType
<1>8. C.prev[head] = t
  BY <1>7 DEF t
<1>9. D \in Heap /\ D.prev = [B.prev EXCEPT ![first] = t] /\ D.next = C.next
  BY <1>2, <1>6, <1>7, <1>8, WithPrevType
<1>10. E \in Heap /\ E.next = [C.next EXCEPT ![last] = head] /\ E.prev = D.prev
  BY <1>2, <1>9, WithNextType
<1>11. G \in Heap /\ G.prev = [D.prev EXCEPT ![head] = last] /\ G.next = E.next
  BY <1>2, <1>10, WithPrevType
<1>12. G = Bulk(H, head, first, last)
  BY DEF Bulk, A, B, C, D, E, G, t
<1>13. /\ G.next = [[[H.next EXCEPT ![p] = n] EXCEPT ![t] = first] EXCEPT ![last] = head]
       /\ G.prev = [[[H.prev EXCEPT ![n] = p] EXCEPT ![first] = t] EXCEPT ![head] = last]
  BY <1>3, <1>5, <1>7, <1>9, <1>10, <1>11
<1> HIDE DEF C, D, E, G
<1>14. Well(G, L)
  <2>1. CASE n = head
    BY <1>1, <1>2, <1>6, <1>13, <2>1 DEF Well, Pointers
  <2>2. CASE n # head
    BY <1>1, <1>2, <1>6, <1>13, <2>2 DEF Well, Pointers
  <2> QED
    BY <2>1, <2>2
<1> QED
  BY <1>11, <1>12, <1>14

\* __list_cut_position() with an entry other than the head
LEMMA CutAtKeeps ==
    ASSUME NEW H \in Heap, NEW L \in SUBSET Node, NEW list \in Node, NEW head \in L, NEW entry \in L,
           Well(H, L), list \notin {head, entry}, entry # head, list \notin L \/ H.next[list] = list
    PROVE  CutAt(H, list, head, entry) \in Heap /\ Well(CutAt(H, list, head, entry), L \cup {list})
<1> DEFINE first == H.next[entry]
           second == H.next[head]
           A == WithNext(H, list, second)
           B == WithPrev(A, A.next[list], list)
           C == WithPrev(B, list, entry)
           D == WithNext(C, entry, list)
           E == WithPrev(D, first, head)
           G == WithNext(E, head, first)
<1>1. H.next \in Pointers /\ H.prev \in Pointers
  BY HeapType
<1>2. /\ first \in L /\ second \in L /\ first \in Node /\ second \in Node
      /\ head \in Node /\ entry \in Node
  BY DEF Well
<1>3. A \in Heap /\ A.next = [H.next EXCEPT ![list] = second] /\ A.prev = H.prev
  BY <1>2, WithNextType
<1>4. A.next[list] = second
  BY <1>1, <1>3 DEF Pointers
<1> HIDE DEF A
<1>5. B \in Heap /\ B.prev = [H.prev EXCEPT ![second] = list] /\ B.next = A.next
  BY <1>2, <1>3, <1>4, WithPrevType
<1> HIDE DEF B
<1>6. C \in Heap /\ C.prev = [B.prev EXCEPT ![list] = entry] /\ C.next = B.next
  BY <1>2, <1>5, WithPrevType
<1>7. D \in Heap /\ D.next = [C.next EXCEPT ![entry] = list] /\ D.prev = C.prev
  BY <1>2, <1>6, WithNextType
<1>8. E \in Heap /\ E.prev = [D.prev EXCEPT ![first] = head] /\ E.next = D.next
  BY <1>2, <1>7, WithPrevType
<1>9. G \in Heap /\ G.next = [E.next EXCEPT ![head] = first] /\ G.prev = E.prev
  BY <1>2, <1>8, WithNextType
<1>10. G = CutAt(H, list, head, entry)
  BY DEF CutAt, Joined, A, B
<1>11. /\ G.next = [[[H.next EXCEPT ![list] = second] EXCEPT ![entry] = list] EXCEPT ![head] = first]
       /\ G.prev = [[[H.prev EXCEPT ![second] = list] EXCEPT ![list] = entry] EXCEPT ![first] = head]
  BY <1>3, <1>5, <1>6, <1>7, <1>8, <1>9
<1> HIDE DEF C, D, E, G
<1>12. Well(G, L \cup {list})
  BY <1>1, <1>2, <1>11 DEF Well, Pointers
<1> QED
  BY <1>9, <1>10, <1>12

\* list_cut_before() with an entry that is not the first
LEMMA CutBeforeKeeps ==
    ASSUME NEW H \in Heap, NEW L \in SUBSET Node, NEW list \in Node, NEW head \in L, NEW entry \in L,
           Well(H, L), list \notin {head, entry}, H.next[head] # entry,
           list \notin L \/ H.next[list] = list
    PROVE  /\ CutBefore(H, list, head, entry) \in Heap
           /\ Well(CutBefore(H, list, head, entry), L \cup {list})
<1> DEFINE second == H.next[head]
           before == H.prev[entry]
           A == WithNext(H, list, second)
           B == WithPrev(A, A.next[list], list)
           C == WithPrev(B, list, B.prev[entry])
           D == WithNext(C, C.prev[list], list)
           E == WithNext(D, head, entry)
           G == WithPrev(E, entry, head)
<1>1. H.next \in Pointers /\ H.prev \in Pointers
  BY HeapType
<1>2. /\ second \in L /\ before \in L /\ second \in Node /\ before \in Node
      /\ head \in Node /\ entry \in Node
  BY DEF Well
<1>3. A \in Heap /\ A.next = [H.next EXCEPT ![list] = second] /\ A.prev = H.prev
  BY <1>2, WithNextType
<1>4. A.next[list] = second
  BY <1>1, <1>3 DEF Pointers
<1> HIDE DEF A
<1>5. B \in Heap /\ B.prev = [H.prev EXCEPT ![second] = list] /\ B.next = A.next
  BY <1>2, <1>3, <1>4, WithPrevType
<1>6. B.prev[entry] = before
  BY <1>1, <1>2, <1>5 DEF Pointers
<1> HIDE DEF B
<1>7. C \in Heap /\ C.prev = [B.prev EXCEPT ![list] = before] /\ C.next = B.next
  <2>1. C = WithPrev(B, list, before)
    BY <1>6
  <2> HIDE DEF C
  <2> QED
    BY <1>2, <1>5, <2>1, WithPrevType
<1>8. C.prev[list] = before
  BY <1>1, <1>5, <1>7 DEF Pointers
<1> HIDE DEF C
<1>9. D \in Heap /\ D.next = [C.next EXCEPT ![before] = list] /\ D.prev = C.prev
  BY <1>2, <1>7, <1>8, WithNextType
<1> HIDE DEF D
<1>10. E \in Heap /\ E.next = [D.next EXCEPT ![head] = entry] /\ E.prev = D.prev
  BY <1>2, <1>9, WithNextType
<1> HIDE DEF E
<1>11. G \in Heap /\ G.prev = [E.prev EXCEPT ![entry] = head] /\ G.next = E.next
  BY <1>2, <1>10, WithPrevType
<1>12. G = CutBefore(H, list, head, entry)
  BY DEF CutBefore, A, B, C, D, E
<1>13. /\ G.next = [[[H.next EXCEPT ![list] = second] EXCEPT ![before] = list] EXCEPT ![head] = entry]
       /\ G.prev = [[[H.prev EXCEPT ![second] = list] EXCEPT ![list] = before] EXCEPT ![entry] = head]
  BY <1>3, <1>5, <1>7, <1>9, <1>10, <1>11
<1> HIDE DEF G
<1>14. Well(G, L \cup {list})
  BY <1>1, <1>2, <1>13 DEF Well, Pointers
<1> QED
  BY <1>11, <1>12, <1>14

\* __list_splice() between two neighbours that are not the head of the list spliced
LEMMA SplicedKeeps ==
    ASSUME NEW H \in Heap, NEW L \in SUBSET Node, NEW list \in L, NEW p \in L, NEW q \in L,
           Well(H, L), H.next[p] = q, list \notin {p, q}, H.next[list] # list
    PROVE  /\ Spliced(H, list, p, q) \in Heap
           /\ Well(Spliced(H, list, p, q), L \ {list})
<1> DEFINE first == H.next[list]
           last == H.prev[list]
           A == WithPrev(H, first, p)
           B == WithNext(A, p, first)
           C == WithNext(B, last, q)
           D == WithPrev(C, q, last)
<1>1. H.next \in Pointers /\ H.prev \in Pointers
  BY HeapType
<1>2. /\ first \in L /\ last \in L /\ first \in Node /\ last \in Node
      /\ p \in Node /\ q \in Node
  BY DEF Well
<1>3. A \in Heap /\ A.prev = [H.prev EXCEPT ![first] = p] /\ A.next = H.next
  BY <1>2, WithPrevType
<1> HIDE DEF A
<1>4. B \in Heap /\ B.next = [A.next EXCEPT ![p] = first] /\ B.prev = A.prev
  BY <1>2, <1>3, WithNextType
<1> HIDE DEF B
<1>5. C \in Heap /\ C.next = [B.next EXCEPT ![last] = q] /\ C.prev = B.prev
  BY <1>2, <1>4, WithNextType
<1> HIDE DEF C
<1>6. D \in Heap /\ D.prev = [C.prev EXCEPT ![q] = last] /\ D.next = C.next
  BY <1>2, <1>5, WithPrevType
<1>7. D = Spliced(H, list, p, q)
  BY DEF Spliced, A, B, C
<1>8. /\ D.next = [[H.next EXCEPT ![p] = first] EXCEPT ![last] = q]
      /\ D.prev = [[H.prev EXCEPT ![first] = p] EXCEPT ![q] = last]
  BY <1>3, <1>4, <1>5, <1>6
<1> HIDE DEF D
<1>9. Well(D, L \ {list})
  BY <1>1, <1>2, <1>8 DEF Well, Pointers
<1> QED
  BY <1>6, <1>7, <1>9

-----------------------------------------------------------------------------
(* The functions, one lemma for each group: state is what they start from.  *)

\* A node that may be added is in no ring, or alone.
LEMMA FrontKeeps ==
    ASSUME NEW H \in Heap, NEW L \in SUBSET Node, NEW new \in Node, NEW head \in L,
           Well(H, L), new # head, new \notin L \/ H.next[new] = new
    PROVE  /\ Front(H, new, head) \in Heap /\ Well(Front(H, new, head), L \cup {new})
           /\ Back(H, new, head) \in Heap /\ Well(Back(H, new, head), L \cup {new})
<1>1. H.next[head] \in L /\ H.prev[head] \in L /\ H.next[H.prev[head]] = head
  BY DEF Well
<1>2. H.prev[H.next[head]] = head
  BY DEF Well
<1>3. new \notin {head, H.next[head]} /\ new \notin {H.prev[head], head}
  BY <1>1, <1>2 DEF Well
<1>4. Front(H, new, head) \in Heap /\ Well(Front(H, new, head), L \cup {new})
  BY <1>1, <1>3, LinkedKeeps DEF Front
<1>5. Back(H, new, head) \in Heap /\ Well(Back(H, new, head), L \cup {new})
  BY <1>1, <1>3, LinkedKeeps DEF Back
<1> QED
  BY <1>4, <1>5

LEMMA AddKeeps ==
    ASSUME TypeOK, Rings, NEW new \in Node, NEW head,
           list_add(new, head) \/ list_add_tail(new, head)
    PROVE  TypeOK' /\ Rings'
<1>1. head \in live /\ new # head /\ (new \notin live \/ heap.next[new] = new)
  BY DEF list_add, list_add_tail, Loose, Self
<1>2. heap \in Heap /\ live \in SUBSET Node /\ Well(heap, live)
  BY DEF TypeOK, Rings
<1>3. live' = live \cup {new} /\ heap' \in {Front(heap, new, head), Back(heap, new, head)}
  BY DEF list_add, list_add_tail
<1>4. heap' \in Heap /\ Well(heap', live')
  BY <1>1, <1>2, <1>3, FrontKeeps
<1> QED
  BY <1>2, <1>3, <1>4 DEF TypeOK, Rings

\* A node that is taken out may be put back anywhere.
LEMMA MovedKeeps ==
    ASSUME NEW H \in Heap, NEW L \in SUBSET Node, NEW e \in L, NEW head \in L, e # head, Well(H, L)
    PROVE  /\ Front(Unlinked(H, e), e, head) \in Heap /\ Well(Front(Unlinked(H, e), e, head), L)
           /\ Back(Unlinked(H, e), e, head) \in Heap /\ Well(Back(Unlinked(H, e), e, head), L)
<1>1. Unlinked(H, e) \in Heap /\ Well(Unlinked(H, e), L \ {e})
  BY UnlinkedKeeps
<1>2. head \in L \ {e} /\ e \notin L \ {e} /\ e \in Node /\ (L \ {e}) \cup {e} = L
  OBVIOUS
<1> QED
  BY <1>1, <1>2, FrontKeeps

LEMMA DeleteKeeps ==
    ASSUME TypeOK, Rings, NEW e, list_del(e) \/ list_del_init(e)
    PROVE  TypeOK' /\ Rings'
<1>1. heap \in Heap /\ live \in SUBSET Node /\ Well(heap, live) /\ e \in live
  BY DEF TypeOK, Rings, list_del, list_del_init
<1>2. Unlinked(heap, e) \in Heap /\ Well(Unlinked(heap, e), live \ {e})
  BY <1>1, UnlinkedKeeps
<1>3. e \in Node /\ e \notin live \ {e} /\ live \ {e} \in SUBSET Node /\ (live \ {e}) \cup {e} = live
  BY <1>1
<1>4. CASE list_del(e)
  <2>1. heap' \in Heap /\ Well(heap', live \ {e})
    BY <1>2, <1>3, <1>4, ClearedKeeps DEF list_del
  <2> QED
    BY <1>3, <1>4, <2>1 DEF TypeOK, Rings, list_del
<1>5. CASE list_del_init(e)
  <2>1. heap' \in Heap /\ Well(heap', live)
    BY <1>2, <1>3, <1>5, RingedKeeps DEF list_del_init
  <2> QED
    BY <1>1, <1>5, <2>1 DEF TypeOK, Rings, list_del_init
<1> QED
  BY <1>4, <1>5

LEMMA ReplaceKeeps ==
    ASSUME TypeOK, Rings, NEW old, NEW new \in Node,
           list_replace(old, new) \/ list_replace_init(old, new)
    PROVE  TypeOK' /\ Rings'
<1> DEFINE L == (live \ {old}) \cup {new}
<1>1. /\ heap \in Heap /\ live \in SUBSET Node /\ Well(heap, live) /\ old \in live /\ old # new
      /\ new \notin live \/ heap.next[new] = new
  BY DEF TypeOK, Rings, list_replace, list_replace_init, Loose, Self
<1>2. Replaced(heap, old, new) \in Heap /\ Well(Replaced(heap, old, new), L)
  BY <1>1, ReplacedKeeps
<1>3. old \in Node /\ old \notin L /\ L \in SUBSET Node /\ L \cup {old} = live \cup {new}
  BY <1>1
<1>4. CASE list_replace(old, new)
  BY <1>2, <1>3, <1>4 DEF TypeOK, Rings, list_replace
<1>5. CASE list_replace_init(old, new)
  <2>1. heap' \in Heap /\ Well(heap', live \cup {new})
    BY <1>2, <1>3, <1>5, RingedKeeps DEF list_replace_init
  <2> QED
    BY <1>3, <1>5, <2>1 DEF TypeOK, Rings, list_replace_init
<1> QED
  BY <1>4, <1>5

LEMMA MoveKeeps ==
    ASSUME TypeOK, Rings, NEW e, NEW head,
           list_move(e, head) \/ list_move_tail(e, head) \/ list_rotate_left(head)
    PROVE  TypeOK' /\ Rings'
<1>1. heap \in Heap /\ live \in SUBSET Node /\ Well(heap, live) /\ head \in live /\ live' = live
  BY DEF TypeOK, Rings, list_move, list_move_tail, list_rotate_left
<1>2. CASE list_move(e, head) \/ list_move_tail(e, head)
  <2>1. e \in live /\ e # head
    BY <1>2 DEF list_move, list_move_tail
  <2>2. heap' \in Heap /\ Well(heap', live)
    BY <1>1, <1>2, <2>1, MovedKeeps DEF list_move, list_move_tail
  <2> QED
    BY <1>1, <2>2 DEF TypeOK, Rings
<1>3. CASE list_rotate_left(head)
  <2>1. heap.next[head] \in live /\ heap.next[head] # head
    BY <1>1, <1>3 DEF Well, list_rotate_left, Empty, Self
  <2>2. heap' \in Heap /\ Well(heap', live)
    BY <1>1, <1>3, <2>1, MovedKeeps DEF list_rotate_left
  <2> QED
    BY <1>1, <2>2 DEF TypeOK, Rings
<1> QED
  BY <1>2, <1>3

LEMMA CutKeeps ==
    ASSUME TypeOK, Rings, NEW list \in Node, NEW head, NEW entry,
           list_cut_position(list, head, entry) \/ list_cut_before(list, head, entry)
    PROVE  TypeOK' /\ Rings'
<1>1. /\ heap \in Heap /\ live \in SUBSET Node /\ Well(heap, live) /\ live' = live \cup {list}
      /\ head \in live /\ entry \in live /\ list \notin {head, entry}
      /\ list \notin live \/ heap.next[list] = list
  BY DEF TypeOK, Rings, list_cut_position, list_cut_before, Loose, Self
<1>2. /\ Ringed(heap, list) \in Heap /\ Well(Ringed(heap, list), live')
      /\ entry # head => CutAt(heap, list, head, entry) \in Heap
      /\ entry # head => Well(CutAt(heap, list, head, entry), live')
      /\ heap.next[head] # entry => CutBefore(heap, list, head, entry) \in Heap
      /\ heap.next[head] # entry => Well(CutBefore(heap, list, head, entry), live')
  BY <1>1, RingedKeeps, CutAtKeeps, CutBeforeKeeps
<1>3. heap' \in Heap /\ Well(heap', live')
  BY <1>2 DEF list_cut_position, list_cut_before
<1> QED
  BY <1>1, <1>3 DEF TypeOK, Rings

LEMMA SpliceKeeps ==
    ASSUME TypeOK, Rings, NEW list, NEW head,
           \/ list_splice(list, head) \/ list_splice_tail(list, head)
           \/ list_splice_init(list, head) \/ list_splice_tail_init(list, head)
    PROVE  TypeOK' /\ Rings'
<1> DEFINE G == Spliced(heap, list, head, heap.next[head])
           K == Spliced(heap, list, heap.prev[head], head)
<1>1. /\ heap \in Heap /\ live \in SUBSET Node /\ Well(heap, live)
      /\ list \in live /\ head \in live /\ heap.next[list] # list
      /\ list \notin {head, heap.next[head], heap.prev[head]}
  BY DEF TypeOK, Rings, list_splice, list_splice_tail, list_splice_init, list_splice_tail_init,
         Apart, Empty, Self
<1>2. heap.next[head] \in live /\ heap.prev[head] \in live /\ heap.next[heap.prev[head]] = head
  BY <1>1 DEF Well
<1>3. /\ G \in Heap /\ Well(G, live \ {list}) /\ K \in Heap /\ Well(K, live \ {list})
  BY <1>1, <1>2, SplicedKeeps
<1> HIDE DEF G, K
<1>4. list \in Node /\ list \notin live \ {list} /\ live \ {list} \in SUBSET Node
      /\ (live \ {list}) \cup {list} = live
  BY <1>1
<1>5. /\ Ringed(G, list) \in Heap /\ Well(Ringed(G, list), live)
      /\ Ringed(K, list) \in Heap /\ Well(Ringed(K, list), live)
  BY <1>3, <1>4, RingedKeeps
<1>6. CASE list_splice(list, head) \/ list_splice_tail(list, head)
  BY <1>3, <1>4, <1>6 DEF list_splice, list_splice_tail, G, K, TypeOK, Rings
<1>7. CASE list_splice_init(list, head) \/ list_splice_tail_init(list, head)
  BY <1>1, <1>5, <1>7 DEF list_splice_init, list_splice_tail_init, G, K, TypeOK, Rings
<1> QED
  BY <1>6, <1>7

-----------------------------------------------------------------------------
(* The theorems                                                             *)

LEMMA RingsInit == Init => TypeOK /\ Rings
<1> SUFFICES ASSUME Init PROVE TypeOK /\ Rings
  OBVIOUS
<1>1. heap \in Heap /\ live = Heads /\ live \subseteq Node
  BY DEF Init, Heap, Pointers, Node
<1>2. \A n \in Heads : heap.next[n] = n /\ heap.prev[n] = n
  BY DEF Init, Node
<1> QED
  BY <1>1, <1>2 DEF TypeOK, Rings, Well

LEMMA RingsNext == TypeOK /\ Rings /\ [Next]_vars => TypeOK' /\ Rings'
<1> SUFFICES ASSUME TypeOK, Rings, [Next]_vars PROVE TypeOK' /\ Rings'
  OBVIOUS
<1> USE DEF Node, Alive
<1>1. CASE \E h \in Heads : init_list_head(h)
  <2>1. PICK h \in Heads : init_list_head(h)
    BY <1>1
  <2>2. heap \in Heap /\ live \in SUBSET Node /\ Well(heap, live) /\ (h \notin live \/ heap.next[h] = h)
    BY <2>1 DEF TypeOK, Rings, init_list_head, Loose, Self
  <2>3. h \in Node /\ heap' = Ringed(heap, h) /\ live' = live \cup {h}
    BY <2>1 DEF init_list_head
  <2>4. heap' \in Heap /\ Well(heap', live')
    BY <2>2, <2>3, RingedKeeps
  <2> QED
    BY <2>2, <2>3, <2>4 DEF TypeOK, Rings
<1>2. CASE \E x \in Items, h \in Alive : list_add(x, h) \/ list_add_tail(x, h)
  BY <1>2, AddKeeps
<1>3. CASE \E x \in Items : list_del(x) \/ list_del_init(x)
  BY <1>3, DeleteKeeps
<1>4. CASE \E x, y \in Items : list_replace(x, y) \/ list_replace_init(x, y)
  BY <1>4, ReplaceKeeps
<1>5. CASE \E x \in Items, h \in Alive : list_move(x, h) \/ list_move_tail(x, h)
  BY <1>5, MoveKeeps
<1>6. CASE \E h \in Alive, x, y \in Items : list_bulk_move_tail(h, x, y)
  <2>1. PICK h \in Alive, x \in Items, y \in Items : list_bulk_move_tail(h, x, y)
    BY <1>6
  <2>2. heap \in Heap /\ live \in SUBSET Node /\ Well(heap, live)
    BY DEF TypeOK, Rings
  <2>3. /\ h \in live /\ x \in live /\ y \in live /\ h \notin {x, y}
        /\ heap' = Bulk(heap, h, x, y) /\ live' = live
    BY <2>1 DEF list_bulk_move_tail
  <2>4. heap' \in Heap /\ Well(heap', live')
    BY <2>2, <2>3, BulkKeeps
  <2> QED
    BY <2>2, <2>3, <2>4 DEF TypeOK, Rings
<1>7. CASE \E h \in Alive : list_rotate_left(h)
  BY <1>7, MoveKeeps
<1>8. CASE \E l \in Heads, h, x \in Node : list_cut_position(l, h, x) \/ list_cut_before(l, h, x)
  BY <1>8, CutKeeps
<1>9. CASE \E l, h \in Alive :
             \/ list_splice(l, h) \/ list_splice_tail(l, h)
             \/ list_splice_init(l, h) \/ list_splice_tail_init(l, h)
  BY <1>9, SpliceKeeps
<1>10. CASE UNCHANGED vars
  BY <1>10 DEF vars, TypeOK, Rings
<1>11. ASSUME NEW l \in Heads, NEW h \in Alive, NEW x \in Ring(h),
              list_cut_position(l, h, x) \/ list_cut_before(l, h, x)
       PROVE  h \in Node /\ x \in Node
  BY <1>11 DEF list_cut_position, list_cut_before, TypeOK
<1> QED
  BY <1>1, <1>2, <1>3, <1>4, <1>5, <1>6, <1>7, <1>8, <1>9, <1>10, <1>11 DEF Next

\* Every pointer holds a node, or none, whatever was called.
THEOREM TypeCorrect == Spec => []TypeOK
<1>1. TypeOK /\ Rings /\ [Next]_vars => (TypeOK /\ Rings)'
  BY RingsNext
<1> QED
  BY RingsInit, <1>1, PTL DEF Spec

\* No order of the calls leaves a pointer that its neighbour does not return.
THEOREM AlwaysRings == Spec => []Rings
<1>1. TypeOK /\ Rings /\ [Next]_vars => (TypeOK /\ Rings)'
  BY RingsNext
<1> QED
  BY RingsInit, <1>1, PTL DEF Spec

----------------------------------------------------------------------------
(* The SD host.  TransfersTrue is not inductive: the registers say nothing  *)
(* of whose transfer they are about.  What carries it is that as long as no *)
(* two tasks have crossed only one is in a transfer, the command and the    *)
(* data in progress are its own, and each of its steps finds BYTCNT, the    *)
(* flags and the FIFO as its last one left them.                            *)

At(t, places) == task[t].at \in places
Of(s, t) == \A i \in 1..Len(s) : s[i] = t

\* Where a transfer is, of which kind, and how much of it is left.
StageOf(t) ==
    /\ task[t].want <= task[t].n
    /\ task[t].at # "idle" => task[t].kind \in Kinds /\ task[t].n \in Counts
    /\ At(t, {"read", "ack", "poll", "drained", "stop", "stopcmd", "stopped"}) => task[t].kind = "read"
    /\ At(t, {"write", "fill", "dto"}) => task[t].kind = "write"
    /\ task[t].kind = "read" => Len(task[t].got) = task[t].n - task[t].want
    /\ At(t, {"wait", "count", "clear", "cmd", "cd", "write"}) => task[t].want = task[t].n
    /\ At(t, {"drained", "flush", "stop", "stopcmd", "stopped", "dto"}) \/ Done(t, "read") => task[t].want = 0
    /\ At(t, {"flush", "stop", "stopcmd", "stopped"}) => task[t].n > 1
    /\ At(t, {"flush"}) /\ task[t].kind = "write" => unstopped
Stages == (\A t \in Tasks : StageOf(t)) /\ ("ERR" \in sts => erred)

\* The command is that of the one task inside; so is the transfer of data, until its end.
Lone == \A t, u \in Tasks : Inside(t) /\ Inside(u) => t = u
Commanded ==
    cmd # Nothing =>
        /\ sts = {} /\ ~Busy
        /\ Inside(cmd.by) /\ cmd.n = task[cmd.by].n
        /\ \/ At(cmd.by, {"cd"}) /\ cmd.kind = task[cmd.by].kind
           \/ At(cmd.by, {"stopped"}) /\ cmd.kind = "stop"
Moved ==
    Busy =>
        /\ "ERR" \notin sts /\ "RTO" \notin sts
        /\ mover.supply = mover.left
        /\ mover.kind = "read" => "TXDR" \notin sts
AloneOf(t) ==
    /\ Busy /\ Inside(t) =>
         /\ mover.by = t /\ mover.kind = task[t].kind /\ mover.n = task[t].n
         /\ At(t, {"cd", "read", "ack", "poll", "drained", "flush", "write", "fill", "dto"})
    /\ At(t, {"cmd", "stopcmd"}) => sts = {}
    /\ At(t, {"clear", "cmd", "cd"}) => byt = task[t].n
    /\ At(t, {"cd", "stopped"}) => cmd # Nothing \/ Answered
Alone ==
    /\ Lone /\ Commanded /\ Moved
    /\ "TXDR" \in sts => fifo = <<>>
    /\ Len(fifo) <= Depth
    /\ \A t \in Tasks : AloneOf(t)

\* The FIFO holds what the task inside is to take, or has given.
Left == IF Busy THEN mover.left ELSE 0
Filling(t) ==
    /\ task[t].kind = "write"
    /\ At(t, {"write", "fill", "dto"}) \/ (At(t, {"cd"}) /\ cmd = Nothing /\ "RTO" \notin sts)
CleanOf(t) ==
    /\ At(t, {"count", "clear", "cmd", "flush", "stop", "stopcmd", "stopped"}) => fifo = <<>>
    /\ Inside(t) => Of(fifo, t)
    /\ task[t].kind = "read" => Of(task[t].got, t)
    /\ Of(medium[t], t)
    /\ At(t, {"cd", "read", "ack", "poll", "drained", "flush"}) /\ task[t].kind = "read" => Len(fifo) + Left <= task[t].want
    /\ Filling(t) =>
         /\ Len(medium[t]) + Len(fifo) + task[t].want = task[t].n
         /\ Busy => Len(medium[t]) + mover.left = task[t].n
         /\ ~Busy /\ "ERR" \notin sts => Len(medium[t]) = task[t].n
    /\ At(t, {"flush"}) /\ task[t].kind = "write" => Len(medium[t]) = task[t].n
Clean ==
    /\ (\A t \in Tasks : ~Inside(t)) => fifo = <<>> /\ Left = 0
    /\ cmd # Nothing => fifo = <<>>
    /\ \A t \in Tasks : CleanOf(t)

\* The card is in the middle of data for a block in progress, or for the task inside.
InData(t) ==
    /\ task[t].n > 1
    /\ \/ At(t, {"read", "ack", "poll", "drained", "flush", "stop", "stopcmd", "write", "fill", "dto"})
       \/ At(t, {"cd"}) /\ cmd = Nothing
       \/ At(t, {"stopped"}) /\ cmd # Nothing
ReadyOf(t) ==
    /\ At(t, {"cd", "stopped"}) /\ "RTO" \in sts => card = "gone"
    /\ InData(t) /\ task[t].kind = "read" => card \in {"data", "gone"}
Ready ==
    /\ card \in {"data", "rcv"} => (Busy /\ mover.n = 1) \/ \E t \in Tasks : InData(t)
    /\ \A t \in Tasks : ReadyOf(t)

\* What a task that is done has got, has written, or has failed by.
ResultOf(t) ==
    /\ Done(t, "read") /\ ~crossed /\ ~stale => Of(task[t].got, t)
    /\ Done(t, "write") /\ ~crossed /\ ~stale /\ ~early => Len(medium[t]) = task[t].n /\ Of(medium[t], t)
    /\ task[t].res = "fail" => card = "gone" \/ erred \/ crossed \/ unstopped

IInv ==
    /\ HostTypeOK /\ Stages
    /\ ~crossed => Alone
    /\ ~crossed /\ ~stale /\ ~panic => Clean
    /\ ~crossed /\ ~unstopped => Ready
    /\ \A t \in Tasks : ResultOf(t)
    /\ PanicsOnlyIfCrossed
----------------------------------------------------------------------------
(* Types                                                                    *)

TaskType == [at : Places, kind : Kinds \cup {"none"}, n : Nat, want : Nat, got : Seq(Tasks), res : {"none", "ok", "fail"}]
Typed ==
    /\ \A u \in Tasks :
         /\ task[u].at \in Places /\ task[u].kind \in Kinds \cup {"none"} /\ task[u].res \in {"none", "ok", "fail"}
         /\ task[u].n \in Nat /\ task[u].want \in Nat /\ task[u].got \in Seq(Tasks) /\ medium[u] \in Seq(Tasks)
    /\ fifo \in Seq(Tasks) /\ sts \subseteq Flags /\ byt \in Nat
    /\ card \in {"tran", "data", "rcv", "gone"}
    /\ cmd # Nothing => cmd.by \in Tasks /\ cmd.kind \in Kinds \cup {"stop"} /\ cmd.n \in Counts
    /\ Busy => /\ mover.by \in Tasks /\ mover.kind \in Kinds /\ mover.n \in Counts
               /\ mover.left \in Nat /\ mover.supply \in Nat

\* What a step of a task leaves to the others, and of its own fields.
Others(t) == \A u \in Tasks \ {t} : task'[u] = task[u]

LEMMA GotoFields ==
    ASSUME HostTypeOK, NEW t \in Tasks, NEW at \in Places, Goto(t, at)
    PROVE  /\ task' \in [Tasks -> TaskType] /\ Others(t)
           /\ task'[t].at = at /\ task'[t].kind = task[t].kind /\ task'[t].n = task[t].n
           /\ task'[t].want = task[t].want /\ task'[t].got = task[t].got /\ task'[t].res = task[t].res
<1> DEFINE r == [task[t] EXCEPT !.at = at]
<1>1. task \in [Tasks -> TaskType]
  BY DEF HostTypeOK, TaskType
<1>2. task' = [task EXCEPT ![t] = r]
  BY DEF Goto
<1>3. task[t] \in TaskType
  BY <1>1
<1>4. /\ r \in TaskType /\ r.at = at /\ r.kind = task[t].kind /\ r.n = task[t].n
      /\ r.want = task[t].want /\ r.got = task[t].got /\ r.res = task[t].res
  BY <1>3 DEF TaskType
<1> HIDE DEF r
<1>5. task'[t] = r /\ task' \in [Tasks -> TaskType] /\ Others(t)
  BY <1>1, <1>2, <1>4 DEF Others
<1> QED
  BY <1>4, <1>5

LEMMA FinishFields ==
    ASSUME HostTypeOK, NEW t \in Tasks, NEW res \in {"ok", "fail"}, Finish(t, res)
    PROVE  /\ task' \in [Tasks -> TaskType] /\ Others(t)
           /\ task'[t].at = "idle" /\ task'[t].kind = task[t].kind /\ task'[t].n = task[t].n
           /\ task'[t].want = task[t].want /\ task'[t].got = task[t].got /\ task'[t].res = res
<1> DEFINE r == [task[t] EXCEPT !.at = "idle", !.res = res]
<1>1. task \in [Tasks -> TaskType]
  BY DEF HostTypeOK, TaskType
<1>2. task' = [task EXCEPT ![t] = r]
  BY DEF Finish
<1>3. task[t] \in TaskType
  BY <1>1
<1>4. /\ r \in TaskType /\ r.at = "idle" /\ r.kind = task[t].kind /\ r.n = task[t].n
      /\ r.want = task[t].want /\ r.got = task[t].got /\ r.res = res
  BY <1>3 DEF TaskType, Places
<1> HIDE DEF r
<1>5. task'[t] = r /\ task' \in [Tasks -> TaskType] /\ Others(t)
  BY <1>1, <1>2, <1>4 DEF Others
<1> QED
  BY <1>4, <1>5

USE HostAssumption DEF Errors, Nothing, Inside, Intrudes, Answered, NoAnswer, Busy, Kinds, Flags, Places, At

LEMMA TypedFields == HostTypeOK => Typed
BY DEF HostTypeOK, Typed

LEMMA OfSequences ==
    ASSUME NEW t \in Tasks, NEW s \in Seq(Tasks), Of(s, t)
    PROVE  /\ Of(Append(s, t), t) /\ Of(<<>>, t)
           /\ s # <<>> => Head(s) = t /\ Of(Tail(s), t)
<1>1. Of(Append(s, t), t) /\ Of(<<>>, t)
  BY AppendProperties DEF Of
<1>2. s # <<>> => Head(s) = t /\ Of(Tail(s), t)
  BY HeadTailProperties DEF Of
<1> QED
  BY <1>1, <1>2


LEMMA OfEmpty == \A t \in Tasks : Of(<<>>, t)
BY DEF Of

\* A task that finds the controller free sets up its transfer.
LEMMA WaitStep ==
    ASSUME IInv, ~panic, NEW t \in Tasks, Wait(t)
    PROVE  IInv'
<1>1. HostTypeOK /\ Typed /\ Stages
  BY TypedFields DEF IInv
<1>2. /\ task[t].at = "wait" /\ ~Busy
      /\ (~crossed' => ~crossed /\ \A u \in Tasks \ {t} : ~Inside(u))
      /\ (crossed => crossed') /\ crossed' \in BOOLEAN
      /\ byt' = byt /\ sts' = sts /\ cmd' = cmd /\ mover' = mover /\ fifo' = fifo
      /\ card' = card /\ medium' = medium /\ panic' = panic /\ unstopped' = unstopped /\ stale' = stale
      /\ early' = early /\ erred' = erred
  BY <1>1 DEF Wait, hvars, ctl, HostTypeOK
<1>3. /\ task' \in [Tasks -> TaskType] /\ Others(t)
      /\ task'[t].at = "count" /\ task'[t].kind = task[t].kind /\ task'[t].n = task[t].n
      /\ task'[t].want = task[t].want /\ task'[t].got = task[t].got /\ task'[t].res = task[t].res
  <2>1. Goto(t, "count")
    BY DEF Wait
  <2> QED
    BY <1>1, <2>1, GotoFields
<1>4. HostTypeOK'
  BY <1>1, <1>2, <1>3 DEF HostTypeOK, TaskType, StageOf, Stages
<1>5. Stages'
  <2>1. ASSUME NEW u \in Tasks, u # t PROVE StageOf(u)'
    BY <1>1, <1>2, <1>3, <2>1 DEF Others, Stages, StageOf, Done
  <2>2. StageOf(t)'
    BY <1>1, <1>2, <1>3 DEF Typed, Stages, StageOf, Done
  <2> QED
    BY <1>1, <1>2, <1>3, <2>1, <2>2 DEF Stages
<1>6. ASSUME ~crossed'
      PROVE  Alone /\ ~crossed /\ \A u \in Tasks \ {t} : task'[u] = task[u] /\ task[u].at \in {"idle", "wait"}
  BY <1>1, <1>2, <1>3, <1>6 DEF IInv, Alone, Lone, Others
<1>7. ASSUME ~crossed' PROVE Alone'
  <2>1. Lone'
    BY <1>1, <1>2, <1>3, <1>6, <1>7 DEF Lone
  <2>2. Commanded'
    BY <1>1, <1>2, <1>3, <1>6, <1>7 DEF Typed, Alone, Commanded, Moved, Stages, StageOf, AloneOf
  <2>3. Moved'
    BY <1>1, <1>2, <1>3, <1>6, <1>7 DEF Typed, Alone, Moved
  <2>4. ("TXDR" \in sts => fifo = <<>>)' /\ (Len(fifo) <= Depth)'
    BY <1>1, <1>2, <1>3, <1>6, <1>7 DEF Typed, Alone
  <2>5. ASSUME NEW u \in Tasks, u # t PROVE AloneOf(u)'
    BY <1>1, <1>2, <1>3, <1>6, <1>7, <2>5 DEF AloneOf
  <2>6. AloneOf(t)'
    BY <1>1, <1>2, <1>3, <1>6, <1>7 DEF Typed, Alone, AloneOf, Commanded, Moved, Stages, StageOf
  <2> QED
    BY <2>1, <2>2, <2>3, <2>4, <2>5, <2>6 DEF Alone
<1>8. ASSUME ~crossed', ~stale', ~panic' PROVE Clean'
  <2>1. Clean
    BY <1>1, <1>2, <1>3, <1>6, <1>8 DEF IInv
  <2>2. ((\A u \in Tasks : ~Inside(u)) => fifo = <<>> /\ Left = 0)' /\ (cmd # Nothing => fifo = <<>>)'
     BY <1>1, <1>2, <1>3, <1>6, <1>8, <2>1 DEF Typed, Clean, CleanOf, Left, Stages, StageOf, Alone,
       AloneOf, Commanded, Moved
  <2>3. ASSUME NEW u \in Tasks, u # t PROVE CleanOf(u)'
    BY <1>1, <1>2, <1>3, <1>6, <1>8, <2>1, <2>3 DEF Clean, CleanOf, Filling
  <2>4. CleanOf(t)'
    <3>1. CleanOf(t) /\ Alone /\ StageOf(t) /\ AloneOf(t) /\ Of(<<>>, t)
      BY <1>1, <1>2, <1>3, <1>6, <1>8, <2>1, OfEmpty DEF Clean, Stages, Alone
    <3>2. CleanOf(t)!1'
       BY <1>1, <1>2, <1>3, <1>6, <1>8, <2>1, <3>1 DEF Typed, Clean, CleanOf, Left, AloneOf, Stages,
         StageOf
    <3>3. CleanOf(t)!2' /\ CleanOf(t)!3' /\ CleanOf(t)!4'
      BY <1>1, <1>2, <1>3, <1>6, <1>8, <2>1, <3>1 DEF Typed, CleanOf, Clean
    <3>4. CleanOf(t)!5'
      BY <1>1, <1>2, <1>3, <1>6, <1>8, <2>1, <3>1 DEF Typed, Clean, CleanOf, Left, StageOf, AloneOf
    <3>5. CleanOf(t)!6'
       BY <1>1, <1>2, <1>3, <1>6, <1>8, <2>1, <3>1 DEF Typed, CleanOf, Filling, StageOf, AloneOf,
         Commanded, Alone
    <3>6. CleanOf(t)!7'
      BY <1>1, <1>2, <1>3, <1>6, <1>8, <2>1, <3>1 DEF Typed, CleanOf, Filling, StageOf, AloneOf
    <3> QED
      BY <3>2, <3>3, <3>4, <3>5, <3>6 DEF CleanOf
  <2> QED
    BY <2>2, <2>3, <2>4 DEF Clean
<1>9. ASSUME ~crossed', ~unstopped' PROVE Ready'
  <2>1. Ready
    BY <1>1, <1>2, <1>3, <1>6, <1>9 DEF IInv
  <2>2. (card \in {"data", "rcv"} => (Busy /\ mover.n = 1) \/ \E u \in Tasks : InData(u))'
    <3>1. (card \in {"data", "rcv"} => (Busy /\ mover.n = 1) \/ InData(t))
      BY <1>6, <1>9, <2>1 DEF Ready, InData
    <3>2. (card \in {"data", "rcv"} => (Busy /\ mover.n = 1) \/ InData(t))'
       BY <1>1, <1>2, <1>3, <1>6, <1>9, <2>1, <3>1 DEF Typed, Ready, ReadyOf, InData, Stages,
         StageOf, Alone, AloneOf, Commanded, Moved
    <3> QED
      BY <3>2
  <2>3. ASSUME NEW u \in Tasks, u # t PROVE ReadyOf(u)'
    BY <1>1, <1>2, <1>3, <1>6, <1>9, <2>1, <2>3 DEF Ready, ReadyOf, InData
  <2>4. ReadyOf(t)'
     BY <1>1, <1>2, <1>3, <1>6, <1>9, <2>1 DEF Typed, Ready, ReadyOf, InData, Stages, StageOf,
       Alone, AloneOf, Commanded, Moved
  <2> QED
    BY <2>2, <2>3, <2>4 DEF Ready
<1>10. ASSUME NEW u \in Tasks PROVE ResultOf(u)'
  <2>1. CASE u # t
    BY <1>1, <1>2, <1>3, <2>1 DEF IInv, Others, ResultOf, Done
  <2>2. CASE u = t
    BY <1>1, <1>2, <1>3, <2>2 DEF IInv, ResultOf, Done
  <2> QED
    BY <2>1, <2>2
<1>11. PanicsOnlyIfCrossed'
  BY <1>1, <1>2, <1>3 DEF PanicsOnlyIfCrossed
<1> QED
  BY <1>4, <1>5, <1>7, <1>8, <1>9, <1>10, <1>11 DEF IInv

\* The size of the transfer is loaded.
LEMMA CountStep ==
    ASSUME IInv, ~panic, NEW t \in Tasks, Count(t)
    PROVE  IInv'
<1>1. HostTypeOK /\ Typed /\ Stages
  BY TypedFields DEF IInv
<1>2. /\ task[t].at = "count"
      /\ byt' = task[t].n /\ sts' = sts /\ cmd' = cmd /\ mover' = mover /\ fifo' = fifo
      /\ card' = card /\ medium' = medium /\ panic' = panic /\ crossed' = crossed /\ unstopped' = unstopped
      /\ stale' = stale /\ early' = early /\ erred' = erred
  BY DEF Count, hvars, ctl
<1>3. /\ task' \in [Tasks -> TaskType] /\ Others(t)
      /\ task'[t].at = "clear" /\ task'[t].kind = task[t].kind /\ task'[t].n = task[t].n
      /\ task'[t].want = task[t].want /\ task'[t].got = task[t].got /\ task'[t].res = task[t].res
  <2>1. Goto(t, "clear")
    BY DEF Count
  <2> QED
    BY <1>1, <2>1, GotoFields
<1>4. HostTypeOK'
  BY <1>1, <1>2, <1>3 DEF HostTypeOK, TaskType, StageOf, Stages
<1>5. Stages'
  <2>1. ASSUME NEW u \in Tasks, u # t PROVE StageOf(u)'
    BY <1>1, <1>2, <1>3, <2>1 DEF Others, Stages, StageOf, Done
  <2>2. StageOf(t)'
    BY <1>1, <1>2, <1>3 DEF Typed, Stages, StageOf, Done
  <2> QED
    BY <1>1, <1>2, <1>3, <2>1, <2>2 DEF Stages
<1>6. ASSUME ~crossed'
      PROVE  Alone /\ ~crossed /\ \A u \in Tasks \ {t} : task'[u] = task[u] /\ task[u].at \in {"idle", "wait"}
  BY <1>1, <1>2, <1>3, <1>6 DEF IInv, Alone, Lone, Others
<1>7. ASSUME ~crossed' PROVE Alone'
  <2>1. Lone'
    BY <1>1, <1>2, <1>3, <1>6, <1>7 DEF Lone
  <2>2. Commanded'
    BY <1>1, <1>2, <1>3, <1>6, <1>7 DEF Typed, Alone, Commanded, Moved, Stages, StageOf, AloneOf
  <2>3. Moved'
    BY <1>1, <1>2, <1>3, <1>6, <1>7 DEF Typed, Alone, Moved
  <2>4. ("TXDR" \in sts => fifo = <<>>)' /\ (Len(fifo) <= Depth)'
    BY <1>1, <1>2, <1>3, <1>6, <1>7 DEF Typed, Alone
  <2>5. ASSUME NEW u \in Tasks, u # t PROVE AloneOf(u)'
    BY <1>1, <1>2, <1>3, <1>6, <1>7, <2>5 DEF AloneOf
  <2>6. AloneOf(t)'
    BY <1>1, <1>2, <1>3, <1>6, <1>7 DEF Typed, Alone, AloneOf, Commanded, Moved, Stages, StageOf
  <2> QED
    BY <2>1, <2>2, <2>3, <2>4, <2>5, <2>6 DEF Alone
<1>8. ASSUME ~crossed', ~stale', ~panic' PROVE Clean'
  <2>1. Clean
    BY <1>1, <1>2, <1>3, <1>6, <1>8 DEF IInv
  <2>2. ((\A u \in Tasks : ~Inside(u)) => fifo = <<>> /\ Left = 0)' /\ (cmd # Nothing => fifo = <<>>)'
     BY <1>1, <1>2, <1>3, <1>6, <1>8, <2>1 DEF Typed, Clean, CleanOf, Left, Stages, StageOf, Alone,
       AloneOf, Commanded, Moved
  <2>3. ASSUME NEW u \in Tasks, u # t PROVE CleanOf(u)'
    BY <1>1, <1>2, <1>3, <1>6, <1>8, <2>1, <2>3 DEF Clean, CleanOf, Filling
  <2>4. CleanOf(t)'
    <3>1. CleanOf(t) /\ Alone /\ StageOf(t) /\ AloneOf(t) /\ Of(<<>>, t)
      BY <1>1, <1>2, <1>3, <1>6, <1>8, <2>1, OfEmpty DEF Clean, Stages, Alone
    <3>2. CleanOf(t)!1'
       BY <1>1, <1>2, <1>3, <1>6, <1>8, <2>1, <3>1 DEF Typed, Clean, CleanOf, Left, AloneOf, Stages,
         StageOf
    <3>3. CleanOf(t)!2' /\ CleanOf(t)!3' /\ CleanOf(t)!4'
      BY <1>1, <1>2, <1>3, <1>6, <1>8, <2>1, <3>1 DEF Typed, CleanOf, Clean
    <3>4. CleanOf(t)!5'
      BY <1>1, <1>2, <1>3, <1>6, <1>8, <2>1, <3>1 DEF Typed, Clean, CleanOf, Left, StageOf, AloneOf
    <3>5. CleanOf(t)!6'
       BY <1>1, <1>2, <1>3, <1>6, <1>8, <2>1, <3>1 DEF Typed, CleanOf, Filling, StageOf, AloneOf,
         Commanded, Alone
    <3>6. CleanOf(t)!7'
      BY <1>1, <1>2, <1>3, <1>6, <1>8, <2>1, <3>1 DEF Typed, CleanOf, Filling, StageOf, AloneOf
    <3> QED
      BY <3>2, <3>3, <3>4, <3>5, <3>6 DEF CleanOf
  <2> QED
    BY <2>2, <2>3, <2>4 DEF Clean
<1>9. ASSUME ~crossed', ~unstopped' PROVE Ready'
  <2>1. Ready
    BY <1>1, <1>2, <1>3, <1>6, <1>9 DEF IInv
  <2>2. (card \in {"data", "rcv"} => (Busy /\ mover.n = 1) \/ \E u \in Tasks : InData(u))'
    <3>1. (card \in {"data", "rcv"} => (Busy /\ mover.n = 1) \/ InData(t))
      BY <1>6, <1>9, <2>1 DEF Ready, InData
    <3>2. (card \in {"data", "rcv"} => (Busy /\ mover.n = 1) \/ InData(t))'
       BY <1>1, <1>2, <1>3, <1>6, <1>9, <2>1, <3>1 DEF Typed, Ready, ReadyOf, InData, Stages,
         StageOf, Alone, AloneOf, Commanded, Moved
    <3> QED
      BY <3>2
  <2>3. ASSUME NEW u \in Tasks, u # t PROVE ReadyOf(u)'
    BY <1>1, <1>2, <1>3, <1>6, <1>9, <2>1, <2>3 DEF Ready, ReadyOf, InData
  <2>4. ReadyOf(t)'
     BY <1>1, <1>2, <1>3, <1>6, <1>9, <2>1 DEF Typed, Ready, ReadyOf, InData, Stages, StageOf,
       Alone, AloneOf, Commanded, Moved
  <2> QED
    BY <2>2, <2>3, <2>4 DEF Ready
<1>10. ASSUME NEW u \in Tasks PROVE ResultOf(u)'
  <2>1. CASE u # t
    BY <1>1, <1>2, <1>3, <2>1 DEF IInv, Others, ResultOf, Done
  <2>2. CASE u = t
    BY <1>1, <1>2, <1>3, <2>2 DEF IInv, ResultOf, Done
  <2> QED
    BY <2>1, <2>2
<1>11. PanicsOnlyIfCrossed'
  BY <1>1, <1>2, <1>3 DEF PanicsOnlyIfCrossed
<1> QED
  BY <1>4, <1>5, <1>7, <1>8, <1>9, <1>10, <1>11 DEF IInv

\* The flags are cleared before a command.
LEMMA ClearStep ==
    ASSUME IInv, ~panic, NEW t \in Tasks, NEW at \in Places, NEW next \in Places, Clear(t, at, next),
           (at = "clear" /\ next = "cmd") \/ (at = "stop" /\ next = "stopcmd")
    PROVE  IInv'
<1>1. HostTypeOK /\ Typed /\ Stages
  BY TypedFields DEF IInv
<1>2. /\ task[t].at = at
      /\ byt' = byt /\ sts' = {} /\ cmd' = cmd /\ mover' = mover /\ fifo' = fifo
      /\ card' = card /\ medium' = medium /\ panic' = panic /\ crossed' = crossed /\ unstopped' = unstopped
      /\ stale' = stale /\ early' = early /\ erred' = erred
  BY DEF Clear, hvars, ctl
<1>3. /\ task' \in [Tasks -> TaskType] /\ Others(t)
      /\ task'[t].at = next /\ task'[t].kind = task[t].kind /\ task'[t].n = task[t].n
      /\ task'[t].want = task[t].want /\ task'[t].got = task[t].got /\ task'[t].res = task[t].res
  <2>1. Goto(t, next)
    BY DEF Clear
  <2> QED
    BY <1>1, <2>1, GotoFields
<1>4. HostTypeOK'
  BY <1>1, <1>2, <1>3 DEF HostTypeOK, TaskType, StageOf, Stages
<1>5. Stages'
  <2>1. ASSUME NEW u \in Tasks, u # t PROVE StageOf(u)'
    BY <1>1, <1>2, <1>3, <2>1 DEF Others, Stages, StageOf, Done
  <2>2. StageOf(t)'
    BY <1>1, <1>2, <1>3 DEF Typed, Stages, StageOf, Done
  <2> QED
    BY <1>1, <1>2, <1>3, <2>1, <2>2 DEF Stages
<1>6. ASSUME ~crossed'
      PROVE  Alone /\ ~crossed /\ \A u \in Tasks \ {t} : task'[u] = task[u] /\ task[u].at \in {"idle", "wait"}
  BY <1>1, <1>2, <1>3, <1>6 DEF IInv, Alone, Lone, Others
<1>7. ASSUME ~crossed' PROVE Alone'
  <2>1. Lone'
    BY <1>1, <1>2, <1>3, <1>6, <1>7 DEF Lone
  <2>2. Commanded'
    BY <1>1, <1>2, <1>3, <1>6, <1>7 DEF Typed, Alone, Commanded, Moved, Stages, StageOf, AloneOf
  <2>3. Moved'
    BY <1>1, <1>2, <1>3, <1>6, <1>7 DEF Typed, Alone, Moved
  <2>4. ("TXDR" \in sts => fifo = <<>>)' /\ (Len(fifo) <= Depth)'
    BY <1>1, <1>2, <1>3, <1>6, <1>7 DEF Typed, Alone
  <2>5. ASSUME NEW u \in Tasks, u # t PROVE AloneOf(u)'
    BY <1>1, <1>2, <1>3, <1>6, <1>7, <2>5 DEF AloneOf
  <2>6. AloneOf(t)'
    BY <1>1, <1>2, <1>3, <1>6, <1>7 DEF Typed, Alone, AloneOf, Commanded, Moved, Stages, StageOf
  <2> QED
    BY <2>1, <2>2, <2>3, <2>4, <2>5, <2>6 DEF Alone
<1>8. ASSUME ~crossed', ~stale', ~panic' PROVE Clean'
  <2>1. Clean
    BY <1>1, <1>2, <1>3, <1>6, <1>8 DEF IInv
  <2>2. ((\A u \in Tasks : ~Inside(u)) => fifo = <<>> /\ Left = 0)' /\ (cmd # Nothing => fifo = <<>>)'
     BY <1>1, <1>2, <1>3, <1>6, <1>8, <2>1 DEF Typed, Clean, CleanOf, Left, Stages, StageOf, Alone,
       AloneOf, Commanded, Moved
  <2>3. ASSUME NEW u \in Tasks, u # t PROVE CleanOf(u)'
    BY <1>1, <1>2, <1>3, <1>6, <1>8, <2>1, <2>3 DEF Clean, CleanOf, Filling
  <2>4. CleanOf(t)'
    <3>1. CleanOf(t) /\ Alone /\ StageOf(t) /\ AloneOf(t) /\ Of(<<>>, t)
      BY <1>1, <1>2, <1>3, <1>6, <1>8, <2>1, OfEmpty DEF Clean, Stages, Alone
    <3>2. CleanOf(t)!1'
       BY <1>1, <1>2, <1>3, <1>6, <1>8, <2>1, <3>1 DEF Typed, Clean, CleanOf, Left, AloneOf, Stages,
         StageOf
    <3>3. CleanOf(t)!2' /\ CleanOf(t)!3' /\ CleanOf(t)!4'
      BY <1>1, <1>2, <1>3, <1>6, <1>8, <2>1, <3>1 DEF Typed, CleanOf, Clean
    <3>4. CleanOf(t)!5'
      BY <1>1, <1>2, <1>3, <1>6, <1>8, <2>1, <3>1 DEF Typed, Clean, CleanOf, Left, StageOf, AloneOf
    <3>5. CleanOf(t)!6'
       BY <1>1, <1>2, <1>3, <1>6, <1>8, <2>1, <3>1 DEF Typed, CleanOf, Filling, StageOf, AloneOf,
         Commanded, Alone
    <3>6. CleanOf(t)!7'
      BY <1>1, <1>2, <1>3, <1>6, <1>8, <2>1, <3>1 DEF Typed, CleanOf, Filling, StageOf, AloneOf
    <3> QED
      BY <3>2, <3>3, <3>4, <3>5, <3>6 DEF CleanOf
  <2> QED
    BY <2>2, <2>3, <2>4 DEF Clean
<1>9. ASSUME ~crossed', ~unstopped' PROVE Ready'
  <2>1. Ready
    BY <1>1, <1>2, <1>3, <1>6, <1>9 DEF IInv
  <2>2. (card \in {"data", "rcv"} => (Busy /\ mover.n = 1) \/ \E u \in Tasks : InData(u))'
    <3>1. (card \in {"data", "rcv"} => (Busy /\ mover.n = 1) \/ InData(t))
      BY <1>6, <1>9, <2>1 DEF Ready, InData
    <3>2. (card \in {"data", "rcv"} => (Busy /\ mover.n = 1) \/ InData(t))'
       BY <1>1, <1>2, <1>3, <1>6, <1>9, <2>1, <3>1 DEF Typed, Ready, ReadyOf, InData, Stages,
         StageOf, Alone, AloneOf, Commanded, Moved
    <3> QED
      BY <3>2
  <2>3. ASSUME NEW u \in Tasks, u # t PROVE ReadyOf(u)'
    BY <1>1, <1>2, <1>3, <1>6, <1>9, <2>1, <2>3 DEF Ready, ReadyOf, InData
  <2>4. ReadyOf(t)'
     BY <1>1, <1>2, <1>3, <1>6, <1>9, <2>1 DEF Typed, Ready, ReadyOf, InData, Stages, StageOf,
       Alone, AloneOf, Commanded, Moved
  <2> QED
    BY <2>2, <2>3, <2>4 DEF Ready
<1>10. ASSUME NEW u \in Tasks PROVE ResultOf(u)'
  <2>1. CASE u # t
    BY <1>1, <1>2, <1>3, <2>1 DEF IInv, Others, ResultOf, Done
  <2>2. CASE u = t
    BY <1>1, <1>2, <1>3, <2>2 DEF IInv, ResultOf, Done
  <2> QED
    BY <2>1, <2>2
<1>11. PanicsOnlyIfCrossed'
  BY <1>1, <1>2, <1>3 DEF PanicsOnlyIfCrossed
<1> QED
  BY <1>4, <1>5, <1>7, <1>8, <1>9, <1>10, <1>11 DEF IInv

\* The command is loaded.
LEMMA LoadStep ==
    ASSUME IInv, ~panic, NEW t \in Tasks, NEW at \in Places, NEW next \in Places, NEW kind \in Kinds \cup {"stop"}, Load(t, at, next, kind),
           (at = "cmd" /\ next = "cd" /\ kind = task[t].kind) \/ (at = "stopcmd" /\ next = "stopped" /\ kind = "stop")
    PROVE  IInv'
<1>1. HostTypeOK /\ Typed /\ Stages
  BY TypedFields DEF IInv
<1>2. /\ task[t].at = at /\ cmd = Nothing
      /\ byt' = byt /\ sts' = sts /\ cmd' = [by |-> t, kind |-> kind, n |-> task[t].n] /\ mover' = mover /\ fifo' = fifo
      /\ card' = card /\ medium' = medium /\ panic' = panic /\ crossed' = crossed /\ unstopped' = unstopped
      /\ stale' = stale /\ early' = early /\ erred' = erred
  BY DEF Load, hvars, ctl
<1>3. /\ task' \in [Tasks -> TaskType] /\ Others(t)
      /\ task'[t].at = next /\ task'[t].kind = task[t].kind /\ task'[t].n = task[t].n
      /\ task'[t].want = task[t].want /\ task'[t].got = task[t].got /\ task'[t].res = task[t].res
  <2>1. Goto(t, next)
    BY DEF Load
  <2> QED
    BY <1>1, <2>1, GotoFields
<1>4. HostTypeOK'
  BY <1>1, <1>2, <1>3 DEF HostTypeOK, TaskType, StageOf, Stages
<1>5. Stages'
  <2>1. ASSUME NEW u \in Tasks, u # t PROVE StageOf(u)'
    BY <1>1, <1>2, <1>3, <2>1 DEF Others, Stages, StageOf, Done
  <2>2. StageOf(t)'
    BY <1>1, <1>2, <1>3 DEF Typed, Stages, StageOf, Done
  <2> QED
    BY <1>1, <1>2, <1>3, <2>1, <2>2 DEF Stages
<1>6. ASSUME ~crossed'
      PROVE  Alone /\ ~crossed /\ \A u \in Tasks \ {t} : task'[u] = task[u] /\ task[u].at \in {"idle", "wait"}
  BY <1>1, <1>2, <1>3, <1>6 DEF IInv, Alone, Lone, Others
<1>7. ASSUME ~crossed' PROVE Alone'
  <2>1. Lone'
    BY <1>1, <1>2, <1>3, <1>6, <1>7 DEF Lone
  <2>2. Commanded'
    BY <1>1, <1>2, <1>3, <1>6, <1>7 DEF Typed, Alone, Commanded, Moved, Stages, StageOf, AloneOf
  <2>3. Moved'
    BY <1>1, <1>2, <1>3, <1>6, <1>7 DEF Typed, Alone, Moved
  <2>4. ("TXDR" \in sts => fifo = <<>>)' /\ (Len(fifo) <= Depth)'
    BY <1>1, <1>2, <1>3, <1>6, <1>7 DEF Typed, Alone
  <2>5. ASSUME NEW u \in Tasks, u # t PROVE AloneOf(u)'
    BY <1>1, <1>2, <1>3, <1>6, <1>7, <2>5 DEF AloneOf
  <2>6. AloneOf(t)'
    BY <1>1, <1>2, <1>3, <1>6, <1>7 DEF Typed, Alone, AloneOf, Commanded, Moved, Stages, StageOf
  <2> QED
    BY <2>1, <2>2, <2>3, <2>4, <2>5, <2>6 DEF Alone
<1>8. ASSUME ~crossed', ~stale', ~panic' PROVE Clean'
  <2>1. Clean
    BY <1>1, <1>2, <1>3, <1>6, <1>8 DEF IInv
  <2>2. ((\A u \in Tasks : ~Inside(u)) => fifo = <<>> /\ Left = 0)' /\ (cmd # Nothing => fifo = <<>>)'
     BY <1>1, <1>2, <1>3, <1>6, <1>8, <2>1 DEF Typed, Clean, CleanOf, Left, Stages, StageOf, Alone,
       AloneOf, Commanded, Moved
  <2>3. ASSUME NEW u \in Tasks, u # t PROVE CleanOf(u)'
    BY <1>1, <1>2, <1>3, <1>6, <1>8, <2>1, <2>3 DEF Clean, CleanOf, Filling
  <2>4. CleanOf(t)'
    <3>1. CleanOf(t) /\ Alone /\ StageOf(t) /\ AloneOf(t) /\ Of(<<>>, t)
      BY <1>1, <1>2, <1>3, <1>6, <1>8, <2>1, OfEmpty DEF Clean, Stages, Alone
    <3>2. CleanOf(t)!1'
       BY <1>1, <1>2, <1>3, <1>6, <1>8, <2>1, <3>1 DEF Typed, Clean, CleanOf, Left, AloneOf, Stages,
         StageOf
    <3>3. CleanOf(t)!2' /\ CleanOf(t)!3' /\ CleanOf(t)!4'
      BY <1>1, <1>2, <1>3, <1>6, <1>8, <2>1, <3>1 DEF Typed, CleanOf, Clean
    <3>4. CleanOf(t)!5'
      BY <1>1, <1>2, <1>3, <1>6, <1>8, <2>1, <3>1 DEF Typed, Clean, CleanOf, Left, StageOf, AloneOf
    <3>5. CleanOf(t)!6'
       BY <1>1, <1>2, <1>3, <1>6, <1>8, <2>1, <3>1 DEF Typed, CleanOf, Filling, StageOf, AloneOf,
         Commanded, Alone
    <3>6. CleanOf(t)!7'
      BY <1>1, <1>2, <1>3, <1>6, <1>8, <2>1, <3>1 DEF Typed, CleanOf, Filling, StageOf, AloneOf
    <3> QED
      BY <3>2, <3>3, <3>4, <3>5, <3>6 DEF CleanOf
  <2> QED
    BY <2>2, <2>3, <2>4 DEF Clean
<1>9. ASSUME ~crossed', ~unstopped' PROVE Ready'
  <2>1. Ready
    BY <1>1, <1>2, <1>3, <1>6, <1>9 DEF IInv
  <2>2. (card \in {"data", "rcv"} => (Busy /\ mover.n = 1) \/ \E u \in Tasks : InData(u))'
    <3>1. (card \in {"data", "rcv"} => (Busy /\ mover.n = 1) \/ InData(t))
      BY <1>6, <1>9, <2>1 DEF Ready, InData
    <3>2. (card \in {"data", "rcv"} => (Busy /\ mover.n = 1) \/ InData(t))'
       BY <1>1, <1>2, <1>3, <1>6, <1>9, <2>1, <3>1 DEF Typed, Ready, ReadyOf, InData, Stages,
         StageOf, Alone, AloneOf, Commanded, Moved
    <3> QED
      BY <3>2
  <2>3. ASSUME NEW u \in Tasks, u # t PROVE ReadyOf(u)'
    BY <1>1, <1>2, <1>3, <1>6, <1>9, <2>1, <2>3 DEF Ready, ReadyOf, InData
  <2>4. ReadyOf(t)'
    <3>1. sts = {} /\ ReadyOf(t) /\ (InData(t)' => InData(t))
      BY <1>1, <1>2, <1>3, <1>6, <1>9, <2>1 DEF Alone, AloneOf, Ready, InData
    <3> QED
      BY <1>2, <1>3, <3>1 DEF ReadyOf
  <2> QED
    BY <2>2, <2>3, <2>4 DEF Ready
<1>10. ASSUME NEW u \in Tasks PROVE ResultOf(u)'
  <2>1. CASE u # t
    BY <1>1, <1>2, <1>3, <2>1 DEF IInv, Others, ResultOf, Done
  <2>2. CASE u = t
    BY <1>1, <1>2, <1>3, <2>2 DEF IInv, ResultOf, Done
  <2> QED
    BY <2>1, <2>2
<1>11. PanicsOnlyIfCrossed'
  BY <1>1, <1>2, <1>3 DEF PanicsOnlyIfCrossed
<1> QED
  BY <1>4, <1>5, <1>7, <1>8, <1>9, <1>10, <1>11 DEF IInv

\* A task goes on, with flags of its own cleared.
LEMMA PassOnStep ==
    ASSUME IInv, ~panic, NEW t \in Tasks, NEW at \in Places, Goto(t, at),
           UNCHANGED <<byt, cmd, mover, fifo, card, medium, panic, hvars>>, sts' \subseteq sts, sts \ {"CD", "RXDR", "DTO"} \subseteq sts',
           \/ task[t].at = "ack" /\ at = "poll"
           \/ task[t].at = "poll" /\ at = "read"
           \/ task[t].at \in {"read", "poll"} /\ task[t].want = 0 /\ at = "drained"
           \/ task[t].at = "write" /\ at = "fill"
           \/ task[t].at = "fill" /\ task[t].want = 0 /\ at = "dto"
           \/ task[t].at = "cd" /\ Answered /\ "RTO" \notin sts /\ at = task[t].kind
           \/ task[t].at = "flush" /\ ~Busy /\ task[t].kind = "read" /\ at = "stop"
    PROVE  IInv'
<1>1. HostTypeOK /\ Typed /\ Stages
  BY TypedFields DEF IInv
<1>2. /\ sts' \subseteq sts /\ sts \ {"CD", "RXDR", "DTO"} \subseteq sts'
      /\ byt' = byt /\ cmd' = cmd /\ mover' = mover /\ fifo' = fifo /\ card' = card
      /\ medium' = medium /\ panic' = panic /\ crossed' = crossed /\ unstopped' = unstopped /\ stale' = stale
      /\ early' = early /\ erred' = erred
  BY DEF hvars
<1>3. /\ task' \in [Tasks -> TaskType] /\ Others(t)
      /\ task'[t].at = at /\ task'[t].kind = task[t].kind /\ task'[t].n = task[t].n
      /\ task'[t].want = task[t].want /\ task'[t].got = task[t].got /\ task'[t].res = task[t].res
  BY <1>1, GotoFields
<1>4. HostTypeOK'
  BY <1>1, <1>2, <1>3 DEF HostTypeOK, TaskType, StageOf, Stages
<1>5. Stages'
  <2>1. ASSUME NEW u \in Tasks, u # t PROVE StageOf(u)'
    BY <1>1, <1>2, <1>3, <2>1 DEF Others, Stages, StageOf, Done
  <2>2. StageOf(t)'
    BY <1>1, <1>2, <1>3 DEF Typed, Stages, StageOf, Done
  <2> QED
    BY <1>1, <1>2, <1>3, <2>1, <2>2 DEF Stages
<1>6. ASSUME ~crossed'
      PROVE  Alone /\ ~crossed /\ \A u \in Tasks \ {t} : task'[u] = task[u] /\ task[u].at \in {"idle", "wait"}
  BY <1>1, <1>2, <1>3, <1>6 DEF IInv, Alone, Lone, Others
<1>7. ASSUME ~crossed' PROVE Alone'
  <2>1. Lone'
    BY <1>1, <1>2, <1>3, <1>6, <1>7 DEF Lone
  <2>2. Commanded'
    BY <1>1, <1>2, <1>3, <1>6, <1>7 DEF Typed, Alone, Commanded, Moved, Stages, StageOf, AloneOf
  <2>3. Moved'
    BY <1>1, <1>2, <1>3, <1>6, <1>7 DEF Typed, Alone, Moved
  <2>4. ("TXDR" \in sts => fifo = <<>>)' /\ (Len(fifo) <= Depth)'
    BY <1>1, <1>2, <1>3, <1>6, <1>7 DEF Typed, Alone
  <2>5. ASSUME NEW u \in Tasks, u # t PROVE AloneOf(u)'
    BY <1>1, <1>2, <1>3, <1>6, <1>7, <2>5 DEF AloneOf
  <2>6. AloneOf(t)'
    BY <1>1, <1>2, <1>3, <1>6, <1>7 DEF Typed, Alone, AloneOf, Commanded, Moved, Stages, StageOf
  <2> QED
    BY <2>1, <2>2, <2>3, <2>4, <2>5, <2>6 DEF Alone
<1>8. ASSUME ~crossed', ~stale', ~panic' PROVE Clean'
  <2>1. Clean
    BY <1>1, <1>2, <1>3, <1>6, <1>8 DEF IInv
  <2>2. ((\A u \in Tasks : ~Inside(u)) => fifo = <<>> /\ Left = 0)' /\ (cmd # Nothing => fifo = <<>>)'
     BY <1>1, <1>2, <1>3, <1>6, <1>8, <2>1 DEF Typed, Clean, CleanOf, Left, Stages, StageOf, Alone,
       AloneOf, Commanded, Moved
  <2>3. ASSUME NEW u \in Tasks, u # t PROVE CleanOf(u)'
    BY <1>1, <1>2, <1>3, <1>6, <1>8, <2>1, <2>3 DEF Clean, CleanOf, Filling
  <2>4. CleanOf(t)'
    <3>1. CleanOf(t) /\ Alone /\ StageOf(t) /\ AloneOf(t) /\ Of(<<>>, t)
      BY <1>1, <1>2, <1>3, <1>6, <1>8, <2>1, OfEmpty DEF Clean, Stages, Alone
    <3>2. CleanOf(t)!1'
       BY <1>1, <1>2, <1>3, <1>6, <1>8, <2>1, <3>1 DEF Typed, Clean, CleanOf, Left, AloneOf, Stages,
         StageOf
    <3>3. CleanOf(t)!2' /\ CleanOf(t)!3' /\ CleanOf(t)!4'
      BY <1>1, <1>2, <1>3, <1>6, <1>8, <2>1, <3>1 DEF Typed, CleanOf, Clean
    <3>4. CleanOf(t)!5'
      BY <1>1, <1>2, <1>3, <1>6, <1>8, <2>1, <3>1 DEF Typed, Clean, CleanOf, Left, StageOf, AloneOf
    <3>5. CleanOf(t)!6'
       BY <1>1, <1>2, <1>3, <1>6, <1>8, <2>1, <3>1 DEF Typed, CleanOf, Filling, StageOf, AloneOf,
         Commanded, Alone
    <3>6. CleanOf(t)!7'
      BY <1>1, <1>2, <1>3, <1>6, <1>8, <2>1, <3>1 DEF Typed, CleanOf, Filling, StageOf, AloneOf
    <3> QED
      BY <3>2, <3>3, <3>4, <3>5, <3>6 DEF CleanOf
  <2> QED
    BY <2>2, <2>3, <2>4 DEF Clean
<1>9. ASSUME ~crossed', ~unstopped' PROVE Ready'
  <2>1. Ready
    BY <1>1, <1>2, <1>3, <1>6, <1>9 DEF IInv
  <2>2. (card \in {"data", "rcv"} => (Busy /\ mover.n = 1) \/ \E u \in Tasks : InData(u))'
    <3>1. (card \in {"data", "rcv"} => (Busy /\ mover.n = 1) \/ InData(t))
      BY <1>6, <1>9, <2>1 DEF Ready, InData
    <3>2. (card \in {"data", "rcv"} => (Busy /\ mover.n = 1) \/ InData(t))'
       BY <1>1, <1>2, <1>3, <1>6, <1>9, <2>1, <3>1 DEF Typed, Ready, ReadyOf, InData, Stages,
         StageOf, Alone, AloneOf, Commanded, Moved
    <3> QED
      BY <3>2
  <2>3. ASSUME NEW u \in Tasks, u # t PROVE ReadyOf(u)'
    BY <1>1, <1>2, <1>3, <1>6, <1>9, <2>1, <2>3 DEF Ready, ReadyOf, InData
  <2>4. ReadyOf(t)'
     BY <1>1, <1>2, <1>3, <1>6, <1>9, <2>1 DEF Typed, Ready, ReadyOf, InData, Stages, StageOf,
       Alone, AloneOf, Commanded, Moved
  <2> QED
    BY <2>2, <2>3, <2>4 DEF Ready
<1>10. ASSUME NEW u \in Tasks PROVE ResultOf(u)'
  <2>1. CASE u # t
    BY <1>1, <1>2, <1>3, <2>1 DEF IInv, Others, ResultOf, Done
  <2>2. CASE u = t
    BY <1>1, <1>2, <1>3, <2>2 DEF IInv, ResultOf, Done
  <2> QED
    BY <2>1, <2>2
<1>11. PanicsOnlyIfCrossed'
  BY <1>1, <1>2, <1>3 DEF PanicsOnlyIfCrossed
<1> QED
  BY <1>4, <1>5, <1>7, <1>8, <1>9, <1>10, <1>11 DEF IInv

\* A transfer is done.
LEMMA DoneStep ==
    ASSUME IInv, ~panic, NEW t \in Tasks, Finish(t, "ok"),
           UNCHANGED <<byt, cmd, mover, fifo, card, medium, crossed, unstopped, stale, erred>>,
           sts' \subseteq sts, sts \ {"DTO"} \subseteq sts',
           \/ /\ task[t].at = "drained" \/ (task[t].at = "dto" /\ "ERR" \notin sts)
              /\ task[t].n <= 1 /\ panic' = (fifo # <<>>) /\ early' = (early \/ Busy)
           \/ /\ \/ task[t].at = "flush" /\ ~Busy /\ task[t].kind = "write"
                 \/ task[t].at = "stopped" /\ Answered /\ "RTO" \notin sts
              /\ UNCHANGED <<panic, early>>
    PROVE  IInv'
<1>1. HostTypeOK /\ Typed /\ Stages
  BY TypedFields DEF IInv
<1>2. /\ panic' \in BOOLEAN /\ early' \in BOOLEAN /\ (early => early')
      /\ task[t].at \in {"drained", "dto", "flush", "stopped"}
      /\ byt' = byt /\ cmd' = cmd /\ mover' = mover /\ fifo' = fifo /\ card' = card
      /\ medium' = medium /\ crossed' = crossed /\ unstopped' = unstopped /\ stale' = stale /\ erred' = erred
  <2>1. panic \in BOOLEAN /\ early \in BOOLEAN /\ unstopped \in BOOLEAN
    BY <1>1 DEF HostTypeOK
  <2>2. (fifo # <<>>) \in BOOLEAN
    OBVIOUS
  <2>3. (early \/ Busy) \in BOOLEAN
    OBVIOUS
  <2>4. panic' \in BOOLEAN /\ early' \in BOOLEAN /\ (early => early')
    BY <2>1, <2>2, <2>3
  <2> QED
    BY <2>4
<1>3. /\ task' \in [Tasks -> TaskType] /\ Others(t)
      /\ task'[t].at = "idle" /\ task'[t].kind = task[t].kind /\ task'[t].n = task[t].n
      /\ task'[t].want = task[t].want /\ task'[t].got = task[t].got /\ task'[t].res = "ok"
  BY <1>1, FinishFields
<1>4. HostTypeOK'
  <2>1. {panic, crossed, unstopped, stale, early, erred}' \subseteq BOOLEAN
    BY <1>1, <1>2 DEF HostTypeOK
  <2> QED
    BY <1>1, <1>2, <1>3, <2>1 DEF HostTypeOK, TaskType
<1>5. Stages'
  <2>1. ASSUME NEW u \in Tasks, u # t PROVE StageOf(u)'
    BY <1>1, <1>2, <1>3, <2>1 DEF Others, Stages, StageOf, Done
  <2>2. StageOf(t)'
    BY <1>1, <1>2, <1>3 DEF Typed, Stages, StageOf, Done
  <2> QED
    BY <1>1, <1>2, <1>3, <2>1, <2>2 DEF Stages
<1>6. ASSUME ~crossed'
      PROVE  Alone /\ ~crossed /\ \A u \in Tasks \ {t} : task'[u] = task[u] /\ task[u].at \in {"idle", "wait"}
  BY <1>1, <1>2, <1>3, <1>6 DEF IInv, Alone, Lone, Others
<1>7. ASSUME ~crossed' PROVE Alone'
  <2>1. Lone'
    BY <1>1, <1>2, <1>3, <1>6, <1>7 DEF Lone
  <2>2. Commanded'
    BY <1>1, <1>2, <1>3, <1>6, <1>7 DEF Typed, Alone, Commanded, Moved, Stages, StageOf, AloneOf
  <2>3. Moved'
    BY <1>1, <1>2, <1>3, <1>6, <1>7 DEF Typed, Alone, Moved
  <2>4. ("TXDR" \in sts => fifo = <<>>)' /\ (Len(fifo) <= Depth)'
    BY <1>1, <1>2, <1>3, <1>6, <1>7 DEF Typed, Alone
  <2>5. ASSUME NEW u \in Tasks, u # t PROVE AloneOf(u)'
    BY <1>1, <1>2, <1>3, <1>6, <1>7, <2>5 DEF AloneOf
  <2>6. AloneOf(t)'
    BY <1>1, <1>2, <1>3, <1>6, <1>7 DEF Typed, Alone, AloneOf, Commanded, Moved, Stages, StageOf
  <2> QED
    BY <2>1, <2>2, <2>3, <2>4, <2>5, <2>6 DEF Alone
<1>8. ASSUME ~crossed', ~stale', ~panic' PROVE Clean'
  <2>1. Clean
    BY <1>1, <1>2, <1>3, <1>6, <1>8 DEF IInv
  <2>2. ((\A u \in Tasks : ~Inside(u)) => fifo = <<>> /\ Left = 0)' /\ (cmd # Nothing => fifo = <<>>)'
    <3>1. CleanOf(t) /\ AloneOf(t) /\ StageOf(t) /\ Alone /\ Len(fifo) \in Nat
      BY <1>1, <1>6, <1>8, <2>1, LenProperties DEF Clean, Alone, Stages, Typed
    <3>2. fifo = <<>> /\ Left = 0
      <4>1. CASE task[t].at \in {"flush", "stopped"}
        BY <1>2, <3>1, <4>1 DEF CleanOf, AloneOf, Left, Commanded, Alone
      <4>2. CASE task[t].at = "drained"
        BY <1>1, <1>2, <1>8, <3>1, <4>2, EmptySeq DEF CleanOf, StageOf, Left, Typed
      <4>3. CASE task[t].at = "dto"
        <5>1. fifo = <<>> /\ Len(fifo) = 0 /\ task[t].want = 0 /\ task[t].kind = "write"
          BY <1>1, <1>2, <1>8, <3>1, <4>3, EmptySeq DEF StageOf
        <5>2. Len(medium[t]) + Len(fifo) + task[t].want = task[t].n /\ (Busy => Len(medium[t]) + mover.left = task[t].n)
          BY <3>1, <4>3, <5>1 DEF CleanOf, Filling
        <5>3. Len(medium[t]) \in Nat
          BY <1>1, LenProperties DEF Typed
        <5> QED
          BY <1>1, <5>1, <5>2, <5>3 DEF Left, Typed
      <4> QED
        BY <1>2, <4>1, <4>2, <4>3
    <3> QED
      BY <1>1, <1>2, <1>3, <3>2 DEF Left
  <2>3. ASSUME NEW u \in Tasks, u # t PROVE CleanOf(u)'
    BY <1>1, <1>2, <1>3, <1>6, <1>8, <2>1, <2>3 DEF Clean, CleanOf, Filling
  <2>4. CleanOf(t)'
    <3>1. CleanOf(t) /\ Alone /\ StageOf(t) /\ AloneOf(t) /\ Of(<<>>, t)
      BY <1>1, <1>2, <1>3, <1>6, <1>8, <2>1, OfEmpty DEF Clean, Stages, Alone
    <3>2. CleanOf(t)!1'
       BY <1>1, <1>2, <1>3, <1>6, <1>8, <2>1, <3>1 DEF Typed, Clean, CleanOf, Left, AloneOf, Stages,
         StageOf
    <3>3. CleanOf(t)!2' /\ CleanOf(t)!3' /\ CleanOf(t)!4'
      BY <1>1, <1>2, <1>3, <1>6, <1>8, <2>1, <3>1 DEF Typed, CleanOf, Clean
    <3>4. CleanOf(t)!5'
      BY <1>1, <1>2, <1>3, <1>6, <1>8, <2>1, <3>1 DEF Typed, Clean, CleanOf, Left, StageOf, AloneOf
    <3>5. CleanOf(t)!6'
       BY <1>1, <1>2, <1>3, <1>6, <1>8, <2>1, <3>1 DEF Typed, CleanOf, Filling, StageOf, AloneOf,
         Commanded, Alone
    <3>6. CleanOf(t)!7'
      BY <1>1, <1>2, <1>3, <1>6, <1>8, <2>1, <3>1 DEF Typed, CleanOf, Filling, StageOf, AloneOf
    <3> QED
      BY <3>2, <3>3, <3>4, <3>5, <3>6 DEF CleanOf
  <2> QED
    BY <2>2, <2>3, <2>4 DEF Clean
<1>9. ASSUME ~crossed', ~unstopped' PROVE Ready'
  <2>1. Ready
    BY <1>1, <1>2, <1>3, <1>6, <1>9 DEF IInv
  <2>2. (card \in {"data", "rcv"} => (Busy /\ mover.n = 1) \/ \E u \in Tasks : InData(u))'
    <3>1. (card \in {"data", "rcv"} => (Busy /\ mover.n = 1) \/ InData(t))
      BY <1>6, <1>9, <2>1 DEF Ready, InData
    <3>2. (card \in {"data", "rcv"} => (Busy /\ mover.n = 1) \/ InData(t))'
       BY <1>1, <1>2, <1>3, <1>6, <1>9, <2>1, <3>1 DEF Typed, Ready, ReadyOf, InData, Stages,
         StageOf, Alone, AloneOf, Commanded, Moved
    <3> QED
      BY <3>2
  <2>3. ASSUME NEW u \in Tasks, u # t PROVE ReadyOf(u)'
    BY <1>1, <1>2, <1>3, <1>6, <1>9, <2>1, <2>3 DEF Ready, ReadyOf, InData
  <2>4. ReadyOf(t)'
     BY <1>1, <1>2, <1>3, <1>6, <1>9, <2>1 DEF Typed, Ready, ReadyOf, InData, Stages, StageOf,
       Alone, AloneOf, Commanded, Moved
  <2> QED
    BY <2>2, <2>3, <2>4 DEF Ready
<1>10. ASSUME NEW u \in Tasks PROVE ResultOf(u)'
  <2>1. CASE u # t
    BY <1>1, <1>2, <1>3, <2>1 DEF IInv, Others, ResultOf, Done
  <2>2. CASE u = t
    <3>1. ASSUME ~crossed, ~stale PROVE task[t].kind = "read" => Of(task[t].got, t)
      BY <3>1 DEF IInv, Clean, CleanOf
    <3>2. ASSUME ~crossed, ~stale, ~early', task[t].kind = "write" PROVE Len(medium[t]) = task[t].n /\ Of(medium[t], t)
      <4>1. CleanOf(t) /\ StageOf(t) /\ Alone
        BY <1>1, <3>2 DEF IInv, Clean, Stages
      <4>2. task[t].at \in {"dto", "flush"}
        BY <1>2, <3>2, <4>1 DEF StageOf
      <4>3. CASE task[t].at = "flush"
        BY <3>2, <4>1, <4>3 DEF CleanOf
      <4>4. CASE task[t].at = "dto"
        <5>1. ~Busy /\ "ERR" \notin sts
          BY <1>1, <3>2, <4>4 DEF HostTypeOK
        <5> QED
          BY <3>2, <4>1, <4>4, <5>1 DEF CleanOf, Filling
      <4> QED
        BY <4>2, <4>3, <4>4
    <3> QED
      BY <1>1, <1>2, <1>3, <2>2, <3>1, <3>2 DEF ResultOf, Done
  <2> QED
    BY <2>1, <2>2
<1>11. PanicsOnlyIfCrossed'
  <2>1. ASSUME panic', ~crossed, ~stale, ~early' PROVE FALSE
    <3>1. Clean /\ Alone
      BY <1>2, <2>1 DEF IInv
    <3>2. CleanOf(t) /\ AloneOf(t) /\ StageOf(t)
      BY <1>1, <3>1 DEF Clean, Alone, Stages
    <3>3. fifo # <<>> /\ ~Busy /\ Len(fifo) \in Nat /\ Len(fifo) # 0
      BY <1>1, <2>1, EmptySeq DEF Typed
    <3>4. task[t].at = "drained" => FALSE
      BY <1>1, <1>2, <3>2, <3>3 DEF CleanOf, StageOf, Typed, Left
    <3>5. task[t].at = "dto" => FALSE
      BY <1>1, <1>2, <2>1, <3>2, <3>3 DEF CleanOf, StageOf, Typed, Filling
    <3> QED
      BY <2>1, <3>4, <3>5
  <2> QED
    BY <1>2, <2>1 DEF PanicsOnlyIfCrossed
<1> QED
  BY <1>4, <1>5, <1>7, <1>8, <1>9, <1>10, <1>11 DEF IInv

\* A transfer of several blocks has its blocks.
LEMMA FlushStep ==
    ASSUME IInv, ~panic, NEW t \in Tasks, Goto(t, "flush"),
           UNCHANGED <<byt, cmd, mover, fifo, card, medium, crossed, stale, erred>>, task[t].n > 1,
           panic' = (fifo # <<>>), early' = (early \/ Busy),
           \/ task[t].at = "drained" /\ UNCHANGED <<sts, unstopped>>
           \/ task[t].at = "dto" /\ "ERR" \notin sts /\ sts' = sts \ {"DTO"} /\ unstopped' = TRUE
    PROVE  IInv'
<1>1. HostTypeOK /\ Typed /\ Stages
  BY TypedFields DEF IInv
<1>2. /\ panic' \in BOOLEAN /\ early' \in BOOLEAN /\ (early => early') /\ unstopped' \in BOOLEAN /\ (unstopped => unstopped')
      /\ sts' \subseteq sts /\ sts \ {"DTO"} \subseteq sts'
      /\ task[t].at \in {"drained", "dto"}
      /\ byt' = byt /\ cmd' = cmd /\ mover' = mover /\ fifo' = fifo /\ card' = card
      /\ medium' = medium /\ crossed' = crossed /\ stale' = stale /\ erred' = erred
  <2>1. panic \in BOOLEAN /\ early \in BOOLEAN /\ unstopped \in BOOLEAN
    BY <1>1 DEF HostTypeOK
  <2>2. (fifo # <<>>) \in BOOLEAN
    OBVIOUS
  <2>3. (early \/ Busy) \in BOOLEAN
    OBVIOUS
  <2>4. unstopped' \in BOOLEAN /\ (unstopped => unstopped')
    BY <2>1
  <2> QED
    BY <2>1, <2>2, <2>3, <2>4
<1>3. /\ task' \in [Tasks -> TaskType] /\ Others(t)
      /\ task'[t].at = "flush" /\ task'[t].kind = task[t].kind /\ task'[t].n = task[t].n
      /\ task'[t].want = task[t].want /\ task'[t].got = task[t].got /\ task'[t].res = task[t].res
  BY <1>1, GotoFields
<1>4. HostTypeOK'
  <2>1. {panic, crossed, unstopped, stale, early, erred}' \subseteq BOOLEAN
    BY <1>1, <1>2 DEF HostTypeOK
  <2> QED
    BY <1>1, <1>2, <1>3, <2>1 DEF HostTypeOK, TaskType
<1>5. Stages'
  <2>1. ASSUME NEW u \in Tasks, u # t PROVE StageOf(u)'
    BY <1>1, <1>2, <1>3, <2>1 DEF Others, Stages, StageOf, Done
  <2>2. StageOf(t)'
    BY <1>1, <1>2, <1>3 DEF Typed, Stages, StageOf, Done
  <2> QED
    BY <1>1, <1>2, <1>3, <2>1, <2>2 DEF Stages
<1>6. ASSUME ~crossed'
      PROVE  Alone /\ ~crossed /\ \A u \in Tasks \ {t} : task'[u] = task[u] /\ task[u].at \in {"idle", "wait"}
  BY <1>1, <1>2, <1>3, <1>6 DEF IInv, Alone, Lone, Others
<1>7. ASSUME ~crossed' PROVE Alone'
  <2>1. Lone'
    BY <1>1, <1>2, <1>3, <1>6, <1>7 DEF Lone
  <2>2. Commanded'
    BY <1>1, <1>2, <1>3, <1>6, <1>7 DEF Typed, Alone, Commanded, Moved, Stages, StageOf, AloneOf
  <2>3. Moved'
    BY <1>1, <1>2, <1>3, <1>6, <1>7 DEF Typed, Alone, Moved
  <2>4. ("TXDR" \in sts => fifo = <<>>)' /\ (Len(fifo) <= Depth)'
    BY <1>1, <1>2, <1>3, <1>6, <1>7 DEF Typed, Alone
  <2>5. ASSUME NEW u \in Tasks, u # t PROVE AloneOf(u)'
    BY <1>1, <1>2, <1>3, <1>6, <1>7, <2>5 DEF AloneOf
  <2>6. AloneOf(t)'
    BY <1>1, <1>2, <1>3, <1>6, <1>7 DEF Typed, Alone, AloneOf, Commanded, Moved, Stages, StageOf
  <2> QED
    BY <2>1, <2>2, <2>3, <2>4, <2>5, <2>6 DEF Alone
<1>8. ASSUME ~crossed', ~stale', ~panic' PROVE Clean'
  <2>1. Clean
    BY <1>1, <1>2, <1>3, <1>6, <1>8 DEF IInv
  <2>2. ((\A u \in Tasks : ~Inside(u)) => fifo = <<>> /\ Left = 0)' /\ (cmd # Nothing => fifo = <<>>)'
     BY <1>1, <1>2, <1>3, <1>6, <1>8, <2>1 DEF Typed, Clean, CleanOf, Left, Stages, StageOf, Alone,
       AloneOf, Commanded, Moved
  <2>3. ASSUME NEW u \in Tasks, u # t PROVE CleanOf(u)'
    BY <1>1, <1>2, <1>3, <1>6, <1>8, <2>1, <2>3 DEF Clean, CleanOf, Filling
  <2>4. CleanOf(t)'
    <3>1. CleanOf(t) /\ Alone /\ StageOf(t) /\ AloneOf(t) /\ Of(<<>>, t)
      BY <1>1, <1>2, <1>3, <1>6, <1>8, <2>1, OfEmpty DEF Clean, Stages, Alone
    <3>2. CleanOf(t)!1'
       BY <1>1, <1>2, <1>3, <1>6, <1>8, <2>1, <3>1 DEF Typed, Clean, CleanOf, Left, AloneOf, Stages,
         StageOf
    <3>3. CleanOf(t)!2' /\ CleanOf(t)!3' /\ CleanOf(t)!4'
      BY <1>1, <1>2, <1>3, <1>6, <1>8, <2>1, <3>1 DEF Typed, CleanOf, Clean
    <3>4. CleanOf(t)!5'
      BY <1>1, <1>2, <1>3, <1>6, <1>8, <2>1, <3>1 DEF Typed, Clean, CleanOf, Left, StageOf, AloneOf
    <3>5. CleanOf(t)!6'
       BY <1>1, <1>2, <1>3, <1>6, <1>8, <2>1, <3>1 DEF Typed, CleanOf, Filling, StageOf, AloneOf,
         Commanded, Alone
    <3>6. CleanOf(t)!7'
      BY <1>1, <1>2, <1>3, <1>6, <1>8, <2>1, <3>1 DEF Typed, CleanOf, Filling, StageOf, AloneOf
    <3> QED
      BY <3>2, <3>3, <3>4, <3>5, <3>6 DEF CleanOf
  <2> QED
    BY <2>2, <2>3, <2>4 DEF Clean
<1>9. ASSUME ~crossed', ~unstopped' PROVE Ready'
  <2>1. Ready
    BY <1>1, <1>2, <1>3, <1>6, <1>9 DEF IInv
  <2>2. (card \in {"data", "rcv"} => (Busy /\ mover.n = 1) \/ \E u \in Tasks : InData(u))'
    <3>1. (card \in {"data", "rcv"} => (Busy /\ mover.n = 1) \/ InData(t))
      BY <1>6, <1>9, <2>1 DEF Ready, InData
    <3>2. (card \in {"data", "rcv"} => (Busy /\ mover.n = 1) \/ InData(t))'
       BY <1>1, <1>2, <1>3, <1>6, <1>9, <2>1, <3>1 DEF Typed, Ready, ReadyOf, InData, Stages,
         StageOf, Alone, AloneOf, Commanded, Moved
    <3> QED
      BY <3>2
  <2>3. ASSUME NEW u \in Tasks, u # t PROVE ReadyOf(u)'
    BY <1>1, <1>2, <1>3, <1>6, <1>9, <2>1, <2>3 DEF Ready, ReadyOf, InData
  <2>4. ReadyOf(t)'
     BY <1>1, <1>2, <1>3, <1>6, <1>9, <2>1 DEF Typed, Ready, ReadyOf, InData, Stages, StageOf,
       Alone, AloneOf, Commanded, Moved
  <2> QED
    BY <2>2, <2>3, <2>4 DEF Ready
<1>10. ASSUME NEW u \in Tasks PROVE ResultOf(u)'
  <2>1. CASE u # t
    BY <1>1, <1>2, <1>3, <2>1 DEF IInv, Others, ResultOf, Done
  <2>2. CASE u = t
    BY <1>1, <1>2, <1>3, <2>2 DEF IInv, ResultOf, Done
  <2> QED
    BY <2>1, <2>2
<1>11. PanicsOnlyIfCrossed'
  <2>1. ASSUME panic', ~crossed, ~stale, ~early' PROVE FALSE
    <3>1. Clean /\ Alone
      BY <1>2, <2>1 DEF IInv
    <3>2. CleanOf(t) /\ AloneOf(t) /\ StageOf(t)
      BY <1>1, <3>1 DEF Clean, Alone, Stages
    <3>3. fifo # <<>> /\ ~Busy /\ Len(fifo) \in Nat /\ Len(fifo) # 0
      BY <1>1, <2>1, EmptySeq DEF Typed
    <3>4. task[t].at = "drained" => FALSE
      BY <1>1, <1>2, <3>2, <3>3 DEF CleanOf, StageOf, Typed, Left
    <3>5. task[t].at = "dto" => FALSE
      BY <1>1, <1>2, <2>1, <3>2, <3>3 DEF CleanOf, StageOf, Typed, Filling
    <3> QED
      BY <2>1, <3>4, <3>5
  <2> QED
    BY <1>2, <2>1 DEF PanicsOnlyIfCrossed
<1> QED
  BY <1>4, <1>5, <1>7, <1>8, <1>9, <1>10, <1>11 DEF IInv

\* A transfer fails, and leaves what there is of it.
LEMMA GiveUpStep ==
    ASSUME IInv, ~panic, NEW t \in Tasks, GiveUp(t),
           UNCHANGED <<byt, cmd, mover, fifo, card, medium, panic, crossed, erred>>,
           sts' \subseteq sts, sts \ {"DTO"} \subseteq sts', early' \in {early, early \/ Busy},
           \/ task[t].at = "cd" /\ (NoAnswer \/ "RTO" \in sts)
           \/ task[t].at \in {"read", "poll", "fill", "dto"} /\ "ERR" \in sts
    PROVE  IInv'
<1>1. HostTypeOK /\ Typed /\ Stages
  BY TypedFields DEF IInv
<1>2. /\ stale' \in BOOLEAN /\ early' \in BOOLEAN /\ (early => early') /\ unstopped' \in BOOLEAN /\ (unstopped => unstopped')
      /\ (stale => stale') /\ (~stale' => fifo = <<>>) /\ (~unstopped' => ~(task[t].n > 1))
      /\ byt' = byt /\ cmd' = cmd /\ mover' = mover /\ fifo' = fifo /\ card' = card
      /\ medium' = medium /\ panic' = panic /\ crossed' = crossed /\ erred' = erred
  BY <1>1 DEF HostTypeOK, GiveUp
<1>3. /\ task' \in [Tasks -> TaskType] /\ Others(t)
      /\ task'[t].at = "idle" /\ task'[t].kind = task[t].kind /\ task'[t].n = task[t].n
      /\ task'[t].want = task[t].want /\ task'[t].got = task[t].got /\ task'[t].res = "fail"
  BY <1>1, FinishFields DEF GiveUp
<1>4. HostTypeOK'
  <2>1. {panic, crossed, unstopped, stale, early, erred}' \subseteq BOOLEAN
    BY <1>1, <1>2 DEF HostTypeOK
  <2> QED
    BY <1>1, <1>2, <1>3, <2>1 DEF HostTypeOK, TaskType
<1>5. Stages'
  <2>1. ASSUME NEW u \in Tasks, u # t PROVE StageOf(u)'
    BY <1>1, <1>2, <1>3, <2>1 DEF Others, Stages, StageOf, Done
  <2>2. StageOf(t)'
    BY <1>1, <1>2, <1>3 DEF Typed, Stages, StageOf, Done
  <2> QED
    BY <1>1, <1>2, <1>3, <2>1, <2>2 DEF Stages
<1>6. ASSUME ~crossed'
      PROVE  Alone /\ ~crossed /\ \A u \in Tasks \ {t} : task'[u] = task[u] /\ task[u].at \in {"idle", "wait"}
  BY <1>1, <1>2, <1>3, <1>6 DEF IInv, Alone, Lone, Others
<1>7. ASSUME ~crossed' PROVE Alone'
  <2>1. Lone'
    BY <1>1, <1>2, <1>3, <1>6, <1>7 DEF Lone
  <2>2. Commanded'
    BY <1>1, <1>2, <1>3, <1>6, <1>7 DEF Typed, Alone, Commanded, Moved, Stages, StageOf, AloneOf
  <2>3. Moved'
    BY <1>1, <1>2, <1>3, <1>6, <1>7 DEF Typed, Alone, Moved
  <2>4. ("TXDR" \in sts => fifo = <<>>)' /\ (Len(fifo) <= Depth)'
    BY <1>1, <1>2, <1>3, <1>6, <1>7 DEF Typed, Alone
  <2>5. ASSUME NEW u \in Tasks, u # t PROVE AloneOf(u)'
    BY <1>1, <1>2, <1>3, <1>6, <1>7, <2>5 DEF AloneOf
  <2>6. AloneOf(t)'
    BY <1>1, <1>2, <1>3, <1>6, <1>7 DEF Typed, Alone, AloneOf, Commanded, Moved, Stages, StageOf
  <2> QED
    BY <2>1, <2>2, <2>3, <2>4, <2>5, <2>6 DEF Alone
<1>8. ASSUME ~crossed', ~stale', ~panic' PROVE Clean'
  <2>1. Clean
    BY <1>1, <1>2, <1>3, <1>6, <1>8 DEF IInv
  <2>2. ((\A u \in Tasks : ~Inside(u)) => fifo = <<>> /\ Left = 0)' /\ (cmd # Nothing => fifo = <<>>)'
     BY <1>1, <1>2, <1>3, <1>6, <1>8, <2>1 DEF Typed, Clean, CleanOf, Left, Stages, StageOf, Alone,
       AloneOf, Commanded, Moved
  <2>3. ASSUME NEW u \in Tasks, u # t PROVE CleanOf(u)'
    BY <1>1, <1>2, <1>3, <1>6, <1>8, <2>1, <2>3 DEF Clean, CleanOf, Filling
  <2>4. CleanOf(t)'
    <3>1. CleanOf(t) /\ Alone /\ StageOf(t) /\ AloneOf(t) /\ Of(<<>>, t)
      BY <1>1, <1>2, <1>3, <1>6, <1>8, <2>1, OfEmpty DEF Clean, Stages, Alone
    <3>2. CleanOf(t)!1'
       BY <1>1, <1>2, <1>3, <1>6, <1>8, <2>1, <3>1 DEF Typed, Clean, CleanOf, Left, AloneOf, Stages,
         StageOf
    <3>3. CleanOf(t)!2' /\ CleanOf(t)!3' /\ CleanOf(t)!4'
      BY <1>1, <1>2, <1>3, <1>6, <1>8, <2>1, <3>1 DEF Typed, CleanOf, Clean
    <3>4. CleanOf(t)!5'
      BY <1>1, <1>2, <1>3, <1>6, <1>8, <2>1, <3>1 DEF Typed, Clean, CleanOf, Left, StageOf, AloneOf
    <3>5. CleanOf(t)!6'
       BY <1>1, <1>2, <1>3, <1>6, <1>8, <2>1, <3>1 DEF Typed, CleanOf, Filling, StageOf, AloneOf,
         Commanded, Alone
    <3>6. CleanOf(t)!7'
      BY <1>1, <1>2, <1>3, <1>6, <1>8, <2>1, <3>1 DEF Typed, CleanOf, Filling, StageOf, AloneOf
    <3> QED
      BY <3>2, <3>3, <3>4, <3>5, <3>6 DEF CleanOf
  <2> QED
    BY <2>2, <2>3, <2>4 DEF Clean
<1>9. ASSUME ~crossed', ~unstopped' PROVE Ready'
  <2>1. Ready
    BY <1>1, <1>2, <1>3, <1>6, <1>9 DEF IInv
  <2>2. (card \in {"data", "rcv"} => (Busy /\ mover.n = 1) \/ \E u \in Tasks : InData(u))'
    <3>1. (card \in {"data", "rcv"} => (Busy /\ mover.n = 1) \/ InData(t))
      BY <1>6, <1>9, <2>1 DEF Ready, InData
    <3>2. (card \in {"data", "rcv"} => (Busy /\ mover.n = 1) \/ InData(t))'
       BY <1>1, <1>2, <1>3, <1>6, <1>9, <2>1, <3>1 DEF Typed, Ready, ReadyOf, InData, Stages,
         StageOf, Alone, AloneOf, Commanded, Moved
    <3> QED
      BY <3>2
  <2>3. ASSUME NEW u \in Tasks, u # t PROVE ReadyOf(u)'
    BY <1>1, <1>2, <1>3, <1>6, <1>9, <2>1, <2>3 DEF Ready, ReadyOf, InData
  <2>4. ReadyOf(t)'
     BY <1>1, <1>2, <1>3, <1>6, <1>9, <2>1 DEF Typed, Ready, ReadyOf, InData, Stages, StageOf,
       Alone, AloneOf, Commanded, Moved
  <2> QED
    BY <2>2, <2>3, <2>4 DEF Ready
<1>10. ASSUME NEW u \in Tasks PROVE ResultOf(u)'
  <2>1. CASE u # t
    BY <1>1, <1>2, <1>3, <2>1 DEF IInv, Others, ResultOf, Done
  <2>2. CASE u = t
    <3>1. ASSUME ~crossed, ~unstopped, ~erred, card # "gone" PROVE FALSE
      <4>1. Alone /\ Ready /\ AloneOf(t) /\ ReadyOf(t)
        BY <3>1 DEF IInv, Alone, Ready
      <4> QED
        BY <1>1, <3>1, <4>1 DEF AloneOf, ReadyOf, Stages
    <3> QED
      BY <1>2, <1>3, <2>2, <3>1 DEF ResultOf, Done
  <2> QED
    BY <2>1, <2>2
<1>11. PanicsOnlyIfCrossed'
  BY <1>1, <1>2, <1>3 DEF PanicsOnlyIfCrossed
<1> QED
  BY <1>4, <1>5, <1>7, <1>8, <1>9, <1>10, <1>11 DEF IInv

\* A transfer that could not be stopped fails.
LEMMA NotStoppedStep ==
    ASSUME IInv, ~panic, NEW t \in Tasks, Finish(t, "fail"),
           UNCHANGED <<ctl, panic, hvars>>, task[t].at = "stopped",
           NoAnswer \/ (Answered /\ "RTO" \in sts)
    PROVE  IInv'
<1>1. HostTypeOK /\ Typed /\ Stages
  BY TypedFields DEF IInv
<1>2. /\ task[t].at = "stopped"
      /\ byt' = byt /\ sts' = sts /\ cmd' = cmd /\ mover' = mover /\ fifo' = fifo
      /\ card' = card /\ medium' = medium /\ panic' = panic /\ crossed' = crossed /\ unstopped' = unstopped
      /\ stale' = stale /\ early' = early /\ erred' = erred
  BY DEF ctl, hvars
<1>3. /\ task' \in [Tasks -> TaskType] /\ Others(t)
      /\ task'[t].at = "idle" /\ task'[t].kind = task[t].kind /\ task'[t].n = task[t].n
      /\ task'[t].want = task[t].want /\ task'[t].got = task[t].got /\ task'[t].res = "fail"
  BY <1>1, FinishFields
<1>4. HostTypeOK'
  BY <1>1, <1>2, <1>3 DEF HostTypeOK, TaskType, StageOf, Stages
<1>5. Stages'
  <2>1. ASSUME NEW u \in Tasks, u # t PROVE StageOf(u)'
    BY <1>1, <1>2, <1>3, <2>1 DEF Others, Stages, StageOf, Done
  <2>2. StageOf(t)'
    BY <1>1, <1>2, <1>3 DEF Typed, Stages, StageOf, Done
  <2> QED
    BY <1>1, <1>2, <1>3, <2>1, <2>2 DEF Stages
<1>6. ASSUME ~crossed'
      PROVE  Alone /\ ~crossed /\ \A u \in Tasks \ {t} : task'[u] = task[u] /\ task[u].at \in {"idle", "wait"}
  BY <1>1, <1>2, <1>3, <1>6 DEF IInv, Alone, Lone, Others
<1>7. ASSUME ~crossed' PROVE Alone'
  <2>1. Lone'
    BY <1>1, <1>2, <1>3, <1>6, <1>7 DEF Lone
  <2>2. Commanded'
    BY <1>1, <1>2, <1>3, <1>6, <1>7 DEF Typed, Alone, Commanded, Moved, Stages, StageOf, AloneOf
  <2>3. Moved'
    BY <1>1, <1>2, <1>3, <1>6, <1>7 DEF Typed, Alone, Moved
  <2>4. ("TXDR" \in sts => fifo = <<>>)' /\ (Len(fifo) <= Depth)'
    BY <1>1, <1>2, <1>3, <1>6, <1>7 DEF Typed, Alone
  <2>5. ASSUME NEW u \in Tasks, u # t PROVE AloneOf(u)'
    BY <1>1, <1>2, <1>3, <1>6, <1>7, <2>5 DEF AloneOf
  <2>6. AloneOf(t)'
    BY <1>1, <1>2, <1>3, <1>6, <1>7 DEF Typed, Alone, AloneOf, Commanded, Moved, Stages, StageOf
  <2> QED
    BY <2>1, <2>2, <2>3, <2>4, <2>5, <2>6 DEF Alone
<1>8. ASSUME ~crossed', ~stale', ~panic' PROVE Clean'
  <2>1. Clean
    BY <1>1, <1>2, <1>3, <1>6, <1>8 DEF IInv
  <2>2. ((\A u \in Tasks : ~Inside(u)) => fifo = <<>> /\ Left = 0)' /\ (cmd # Nothing => fifo = <<>>)'
     BY <1>1, <1>2, <1>3, <1>6, <1>8, <2>1 DEF Typed, Clean, CleanOf, Left, Stages, StageOf, Alone,
       AloneOf, Commanded, Moved
  <2>3. ASSUME NEW u \in Tasks, u # t PROVE CleanOf(u)'
    BY <1>1, <1>2, <1>3, <1>6, <1>8, <2>1, <2>3 DEF Clean, CleanOf, Filling
  <2>4. CleanOf(t)'
    <3>1. CleanOf(t) /\ Alone /\ StageOf(t) /\ AloneOf(t) /\ Of(<<>>, t)
      BY <1>1, <1>2, <1>3, <1>6, <1>8, <2>1, OfEmpty DEF Clean, Stages, Alone
    <3>2. CleanOf(t)!1'
       BY <1>1, <1>2, <1>3, <1>6, <1>8, <2>1, <3>1 DEF Typed, Clean, CleanOf, Left, AloneOf, Stages,
         StageOf
    <3>3. CleanOf(t)!2' /\ CleanOf(t)!3' /\ CleanOf(t)!4'
      BY <1>1, <1>2, <1>3, <1>6, <1>8, <2>1, <3>1 DEF Typed, CleanOf, Clean
    <3>4. CleanOf(t)!5'
      BY <1>1, <1>2, <1>3, <1>6, <1>8, <2>1, <3>1 DEF Typed, Clean, CleanOf, Left, StageOf, AloneOf
    <3>5. CleanOf(t)!6'
       BY <1>1, <1>2, <1>3, <1>6, <1>8, <2>1, <3>1 DEF Typed, CleanOf, Filling, StageOf, AloneOf,
         Commanded, Alone
    <3>6. CleanOf(t)!7'
      BY <1>1, <1>2, <1>3, <1>6, <1>8, <2>1, <3>1 DEF Typed, CleanOf, Filling, StageOf, AloneOf
    <3> QED
      BY <3>2, <3>3, <3>4, <3>5, <3>6 DEF CleanOf
  <2> QED
    BY <2>2, <2>3, <2>4 DEF Clean
<1>9. ASSUME ~crossed', ~unstopped' PROVE Ready'
  <2>1. Ready
    BY <1>1, <1>2, <1>3, <1>6, <1>9 DEF IInv
  <2>2. (card \in {"data", "rcv"} => (Busy /\ mover.n = 1) \/ \E u \in Tasks : InData(u))'
    <3>1. (card \in {"data", "rcv"} => (Busy /\ mover.n = 1) \/ InData(t))
      BY <1>6, <1>9, <2>1 DEF Ready, InData
    <3>2. (card \in {"data", "rcv"} => (Busy /\ mover.n = 1) \/ InData(t))'
       BY <1>1, <1>2, <1>3, <1>6, <1>9, <2>1, <3>1 DEF Typed, Ready, ReadyOf, InData, Stages,
         StageOf, Alone, AloneOf, Commanded, Moved
    <3> QED
      BY <3>2
  <2>3. ASSUME NEW u \in Tasks, u # t PROVE ReadyOf(u)'
    BY <1>1, <1>2, <1>3, <1>6, <1>9, <2>1, <2>3 DEF Ready, ReadyOf, InData
  <2>4. ReadyOf(t)'
     BY <1>1, <1>2, <1>3, <1>6, <1>9, <2>1 DEF Typed, Ready, ReadyOf, InData, Stages, StageOf,
       Alone, AloneOf, Commanded, Moved
  <2> QED
    BY <2>2, <2>3, <2>4 DEF Ready
<1>10. ASSUME NEW u \in Tasks PROVE ResultOf(u)'
  <2>1. CASE u # t
    BY <1>1, <1>2, <1>3, <2>1 DEF IInv, Others, ResultOf, Done
  <2>2. CASE u = t
    <3>1. ASSUME ~crossed, ~unstopped, card # "gone" PROVE FALSE
      <4>1. Alone /\ Ready /\ AloneOf(t) /\ ReadyOf(t)
        BY <3>1 DEF IInv, Alone, Ready
      <4> QED
        BY <1>2, <3>1, <4>1 DEF AloneOf, ReadyOf
    <3> QED
      BY <1>2, <1>3, <2>2, <3>1 DEF ResultOf, Done
  <2> QED
    BY <2>1, <2>2
<1>11. PanicsOnlyIfCrossed'
  BY <1>1, <1>2, <1>3 DEF PanicsOnlyIfCrossed
<1> QED
  BY <1>4, <1>5, <1>7, <1>8, <1>9, <1>10, <1>11 DEF IInv

\* A block is taken from the FIFO.
LEMMA TakeStep ==
    ASSUME IInv, ~panic, NEW t \in Tasks, Take(t)
    PROVE  IInv'
<1>1. HostTypeOK /\ Typed /\ Stages
  BY TypedFields DEF IInv
<1>2. /\ task[t].at = "read" /\ fifo # <<>> /\ task[t].want > 0
      /\ Head(fifo) \in Tasks /\ Tail(fifo) \in Seq(Tasks) /\ Len(fifo) \in Nat /\ Len(Tail(fifo)) = Len(fifo) - 1
      /\ Append(task[t].got, Head(fifo)) \in Seq(Tasks) /\ Len(task[t].got) \in Nat /\ Len(Append(task[t].got, Head(fifo))) = Len(task[t].got) + 1
      /\ Of(fifo, t) => Head(fifo) = t /\ Of(Tail(fifo), t)
      /\ Of(fifo, t) /\ Of(task[t].got, t) => Of(Append(task[t].got, Head(fifo)), t)
      /\ byt' = byt /\ sts' = sts /\ cmd' = cmd /\ mover' = mover /\ fifo' = Tail(fifo)
      /\ card' = card /\ medium' = medium /\ panic' = panic /\ crossed' = crossed /\ unstopped' = unstopped
      /\ stale' = stale /\ early' = early /\ erred' = erred
  <2>1. /\ task[t].at = "read" /\ fifo # <<>> /\ task[t].want > 0 /\ fifo' = Tail(fifo)
        /\ UNCHANGED <<byt, sts, cmd, mover, card, medium, panic, hvars>>
    BY DEF Take
  <2>2. /\ Head(fifo) \in Tasks /\ Tail(fifo) \in Seq(Tasks) /\ Len(fifo) \in Nat /\ Len(Tail(fifo)) = Len(fifo) - 1
        /\ task[t].got \in Seq(Tasks) /\ Len(task[t].got) \in Nat
    BY <1>1, <2>1, HeadTailProperties, LenProperties DEF Typed
  <2>3. /\ Append(task[t].got, Head(fifo)) \in Seq(Tasks)
        /\ Len(Append(task[t].got, Head(fifo))) = Len(task[t].got) + 1
    BY <2>2, AppendProperties
  <2>4. Of(fifo, t) => Head(fifo) = t /\ Of(Tail(fifo), t)
    BY <1>1, <2>1, OfSequences DEF Typed
  <2>5. Of(fifo, t) /\ Of(task[t].got, t) => Of(Append(task[t].got, Head(fifo)), t)
    BY <2>2, <2>4, OfSequences
  <2> QED
    BY <2>1, <2>2, <2>3, <2>4, <2>5 DEF hvars
<1>3. /\ task' \in [Tasks -> TaskType] /\ Others(t)
      /\ task'[t].at = "ack" /\ task'[t].kind = task[t].kind /\ task'[t].n = task[t].n
      /\ task'[t].want = task[t].want - 1 /\ task'[t].got = Append(task[t].got, Head(fifo)) /\ task'[t].res = task[t].res
  <2> DEFINE r == [task[t] EXCEPT !.at = "ack", !.want = @ - 1, !.got = Append(@, Head(fifo))]
  <2>1. task \in [Tasks -> TaskType]
    BY <1>1 DEF HostTypeOK, TaskType
  <2>2. task' = [task EXCEPT ![t] = r]
    BY DEF Take
  <2>3. task[t] \in TaskType /\ task[t].want - 1 \in Nat
    BY <1>1, <1>2, <2>1 DEF Typed
  <2>4. /\ r \in TaskType /\ r.at = "ack" /\ r.kind = task[t].kind /\ r.n = task[t].n
        /\ r.want = task[t].want - 1 /\ r.got = Append(task[t].got, Head(fifo)) /\ r.res = task[t].res
    BY <1>2, <2>3 DEF TaskType
  <2> HIDE DEF r
  <2> QED
    BY <2>1, <2>2, <2>4 DEF Others
<1>4. HostTypeOK'
  BY <1>1, <1>2, <1>3 DEF HostTypeOK, TaskType, StageOf, Stages
<1>5. Stages'
  <2>1. ASSUME NEW u \in Tasks, u # t PROVE StageOf(u)'
    BY <1>1, <1>2, <1>3, <2>1 DEF Others, Stages, StageOf, Done
  <2>2. StageOf(t)'
    <3>1. StageOf(t) /\ task[t].want \in Nat /\ task[t].n \in Nat
      BY <1>1 DEF Stages, Typed
    <3>2. task[t].kind = "read" /\ Len(task[t].got) = task[t].n - task[t].want
      BY <1>2, <3>1 DEF StageOf
    <3>3. task[t].want - 1 <= task[t].n /\ Len(task[t].got) + 1 = task[t].n - (task[t].want - 1)
      BY <3>1, <3>2 DEF StageOf
    <3>4. Len(task'[t].got) = task'[t].n - task'[t].want /\ task'[t].want <= task'[t].n
      BY <1>2, <1>3, <3>3
    <3> QED
      BY <1>2, <1>3, <3>1, <3>2, <3>4 DEF StageOf, Done
  <2> QED
    BY <1>1, <1>2, <1>3, <2>1, <2>2 DEF Stages
<1>6. ASSUME ~crossed'
      PROVE  Alone /\ ~crossed /\ \A u \in Tasks \ {t} : task'[u] = task[u] /\ task[u].at \in {"idle", "wait"}
  BY <1>1, <1>2, <1>3, <1>6 DEF IInv, Alone, Lone, Others
<1>7. ASSUME ~crossed' PROVE Alone'
  <2>1. Lone'
    BY <1>1, <1>2, <1>3, <1>6, <1>7 DEF Lone
  <2>2. Commanded'
    BY <1>1, <1>2, <1>3, <1>6, <1>7 DEF Typed, Alone, Commanded, Moved, Stages, StageOf, AloneOf
  <2>3. Moved'
    BY <1>1, <1>2, <1>3, <1>6, <1>7 DEF Typed, Alone, Moved
  <2>4. ("TXDR" \in sts => fifo = <<>>)' /\ (Len(fifo) <= Depth)'
    BY <1>1, <1>2, <1>3, <1>6, <1>7 DEF Typed, Alone
  <2>5. ASSUME NEW u \in Tasks, u # t PROVE AloneOf(u)'
    BY <1>1, <1>2, <1>3, <1>6, <1>7, <2>5 DEF AloneOf
  <2>6. AloneOf(t)'
    BY <1>1, <1>2, <1>3, <1>6, <1>7 DEF Typed, Alone, AloneOf, Commanded, Moved, Stages, StageOf
  <2> QED
    BY <2>1, <2>2, <2>3, <2>4, <2>5, <2>6 DEF Alone
<1>8. ASSUME ~crossed', ~stale', ~panic' PROVE Clean'
  <2>1. Clean
    BY <1>1, <1>2, <1>3, <1>6, <1>8 DEF IInv
  <2>2. ((\A u \in Tasks : ~Inside(u)) => fifo = <<>> /\ Left = 0)' /\ (cmd # Nothing => fifo = <<>>)'
     BY <1>1, <1>2, <1>3, <1>6, <1>8, <2>1 DEF Typed, Clean, CleanOf, Left, Stages, StageOf, Alone,
       AloneOf, Commanded, Moved
  <2>3. ASSUME NEW u \in Tasks, u # t PROVE CleanOf(u)'
    BY <1>1, <1>2, <1>3, <1>6, <1>8, <2>1, <2>3 DEF Clean, CleanOf, Filling
  <2>4. CleanOf(t)'
    <3>1. CleanOf(t) /\ Alone /\ StageOf(t) /\ AloneOf(t) /\ Of(<<>>, t)
      BY <1>1, <1>2, <1>3, <1>6, <1>8, <2>1, OfEmpty DEF Clean, Stages, Alone
    <3>2. CleanOf(t)!1'
       BY <1>1, <1>2, <1>3, <1>6, <1>8, <2>1, <3>1 DEF Typed, Clean, CleanOf, Left, AloneOf, Stages,
         StageOf
    <3>3. CleanOf(t)!2' /\ CleanOf(t)!3' /\ CleanOf(t)!4'
      BY <1>1, <1>2, <1>3, <1>6, <1>8, <2>1, <3>1 DEF Typed, CleanOf, Clean
    <3>4. CleanOf(t)!5'
      BY <1>1, <1>2, <1>3, <1>6, <1>8, <2>1, <3>1 DEF Typed, Clean, CleanOf, Left, StageOf, AloneOf
    <3>5. CleanOf(t)!6'
       BY <1>1, <1>2, <1>3, <1>6, <1>8, <2>1, <3>1 DEF Typed, CleanOf, Filling, StageOf, AloneOf,
         Commanded, Alone
    <3>6. CleanOf(t)!7'
      BY <1>1, <1>2, <1>3, <1>6, <1>8, <2>1, <3>1 DEF Typed, CleanOf, Filling, StageOf, AloneOf
    <3> QED
      BY <3>2, <3>3, <3>4, <3>5, <3>6 DEF CleanOf
  <2> QED
    BY <2>2, <2>3, <2>4 DEF Clean
<1>9. ASSUME ~crossed', ~unstopped' PROVE Ready'
  <2>1. Ready
    BY <1>1, <1>2, <1>3, <1>6, <1>9 DEF IInv
  <2>2. (card \in {"data", "rcv"} => (Busy /\ mover.n = 1) \/ \E u \in Tasks : InData(u))'
    <3>1. (card \in {"data", "rcv"} => (Busy /\ mover.n = 1) \/ InData(t))
      BY <1>6, <1>9, <2>1 DEF Ready, InData
    <3>2. (card \in {"data", "rcv"} => (Busy /\ mover.n = 1) \/ InData(t))'
       BY <1>1, <1>2, <1>3, <1>6, <1>9, <2>1, <3>1 DEF Typed, Ready, ReadyOf, InData, Stages,
         StageOf, Alone, AloneOf, Commanded, Moved
    <3> QED
      BY <3>2
  <2>3. ASSUME NEW u \in Tasks, u # t PROVE ReadyOf(u)'
    BY <1>1, <1>2, <1>3, <1>6, <1>9, <2>1, <2>3 DEF Ready, ReadyOf, InData
  <2>4. ReadyOf(t)'
     BY <1>1, <1>2, <1>3, <1>6, <1>9, <2>1 DEF Typed, Ready, ReadyOf, InData, Stages, StageOf,
       Alone, AloneOf, Commanded, Moved
  <2> QED
    BY <2>2, <2>3, <2>4 DEF Ready
<1>10. ASSUME NEW u \in Tasks PROVE ResultOf(u)'
  <2>1. CASE u # t
    BY <1>1, <1>2, <1>3, <2>1 DEF IInv, Others, ResultOf, Done
  <2>2. CASE u = t
    BY <1>1, <1>2, <1>3, <2>2 DEF IInv, ResultOf, Done
  <2> QED
    BY <2>1, <2>2
<1>11. PanicsOnlyIfCrossed'
  BY <1>1, <1>2, <1>3 DEF PanicsOnlyIfCrossed
<1> QED
  BY <1>4, <1>5, <1>7, <1>8, <1>9, <1>10, <1>11 DEF IInv

\* A block is put into the FIFO.
LEMMA StoreStep ==
    ASSUME IInv, ~panic, NEW t \in Tasks, task[t].at = "fill", "TXDR" \in sts, task[t].want # 0,
           fifo' = Append(fifo, t), sts' = sts \ {"TXDR"}, task' = [task EXCEPT ![t].want = @ - 1],
           UNCHANGED <<byt, cmd, mover, card, medium, panic, hvars>>
    PROVE  IInv'
<1>1. HostTypeOK /\ Typed /\ Stages
  BY TypedFields DEF IInv
<1>2. /\ task[t].at = "fill" /\ "TXDR" \in sts /\ task[t].want > 0
      /\ Append(fifo, t) \in Seq(Tasks) /\ Len(fifo) \in Nat /\ Len(Append(fifo, t)) = Len(fifo) + 1 /\ Len(<<>>) = 0
      /\ Of(fifo, t) => Of(Append(fifo, t), t)
      /\ byt' = byt /\ sts' = sts \ {"TXDR"} /\ cmd' = cmd /\ mover' = mover /\ fifo' = Append(fifo, t)
      /\ card' = card /\ medium' = medium /\ panic' = panic /\ crossed' = crossed /\ unstopped' = unstopped
      /\ stale' = stale /\ early' = early /\ erred' = erred
  <2>1. task[t].want > 0 /\ Len(<<>>) = 0
    BY <1>1 DEF Typed
  <2>2. Append(fifo, t) \in Seq(Tasks) /\ Len(fifo) \in Nat /\ Len(Append(fifo, t)) = Len(fifo) + 1
    BY <1>1, AppendProperties, LenProperties DEF Typed
  <2>3. Of(fifo, t) => Of(Append(fifo, t), t)
    BY <1>1, OfSequences DEF Typed
  <2> QED
    BY <2>1, <2>2, <2>3 DEF hvars
<1>3. /\ task' \in [Tasks -> TaskType] /\ Others(t)
      /\ task'[t].at = "fill" /\ task'[t].kind = task[t].kind /\ task'[t].n = task[t].n
      /\ task'[t].want = task[t].want - 1 /\ task'[t].got = task[t].got /\ task'[t].res = task[t].res
  <2> DEFINE r == [task[t] EXCEPT !.want = @ - 1]
  <2>1. task \in [Tasks -> TaskType]
    BY <1>1 DEF HostTypeOK, TaskType
  <2>2. task' = [task EXCEPT ![t] = r]
    OBVIOUS
  <2>3. task[t] \in TaskType /\ task[t].want - 1 \in Nat
    BY <1>1, <1>2, <2>1 DEF Typed
  <2>4. /\ r \in TaskType /\ r.at = task[t].at /\ r.kind = task[t].kind /\ r.n = task[t].n
        /\ r.want = task[t].want - 1 /\ r.got = task[t].got /\ r.res = task[t].res
    BY <1>2, <2>3 DEF TaskType
  <2> HIDE DEF r
  <2> QED
    BY <1>2, <2>1, <2>2, <2>4 DEF Others
<1>4. HostTypeOK'
  <2>1. {panic, crossed, unstopped, stale, early, erred}' \subseteq BOOLEAN
    BY <1>1, <1>2 DEF HostTypeOK
  <2> QED
    BY <1>1, <1>2, <1>3, <2>1 DEF HostTypeOK, TaskType
<1>5. Stages'
  <2>1. ASSUME NEW u \in Tasks, u # t PROVE StageOf(u)'
    BY <1>1, <1>2, <1>3, <2>1 DEF Others, Stages, StageOf, Done
  <2>2. StageOf(t)'
    BY <1>1, <1>2, <1>3 DEF Typed, Stages, StageOf, Done
  <2> QED
    BY <1>1, <1>2, <1>3, <2>1, <2>2 DEF Stages
<1>6. ASSUME ~crossed'
      PROVE  Alone /\ ~crossed /\ \A u \in Tasks \ {t} : task'[u] = task[u] /\ task[u].at \in {"idle", "wait"}
  BY <1>1, <1>2, <1>3, <1>6 DEF IInv, Alone, Lone, Others
<1>7. ASSUME ~crossed' PROVE Alone'
  <2>1. Lone'
    BY <1>1, <1>2, <1>3, <1>6, <1>7 DEF Lone
  <2>2. Commanded'
    BY <1>1, <1>2, <1>3, <1>6, <1>7 DEF Typed, Alone, Commanded, Moved, Stages, StageOf, AloneOf
  <2>3. Moved'
    BY <1>1, <1>2, <1>3, <1>6, <1>7 DEF Typed, Alone, Moved
  <2>4. ("TXDR" \in sts => fifo = <<>>)' /\ (Len(fifo) <= Depth)'
    BY <1>1, <1>2, <1>3, <1>6, <1>7 DEF Typed, Alone
  <2>5. ASSUME NEW u \in Tasks, u # t PROVE AloneOf(u)'
    BY <1>1, <1>2, <1>3, <1>6, <1>7, <2>5 DEF AloneOf
  <2>6. AloneOf(t)'
    BY <1>1, <1>2, <1>3, <1>6, <1>7 DEF Typed, Alone, AloneOf, Commanded, Moved, Stages, StageOf
  <2> QED
    BY <2>1, <2>2, <2>3, <2>4, <2>5, <2>6 DEF Alone
<1>8. ASSUME ~crossed', ~stale', ~panic' PROVE Clean'
  <2>1. Clean
    BY <1>1, <1>2, <1>3, <1>6, <1>8 DEF IInv
  <2>2. ((\A u \in Tasks : ~Inside(u)) => fifo = <<>> /\ Left = 0)' /\ (cmd # Nothing => fifo = <<>>)'
     BY <1>1, <1>2, <1>3, <1>6, <1>8, <2>1 DEF Typed, Clean, CleanOf, Left, Stages, StageOf, Alone,
       AloneOf, Commanded, Moved
  <2>3. ASSUME NEW u \in Tasks, u # t PROVE CleanOf(u)'
    BY <1>1, <1>2, <1>3, <1>6, <1>8, <2>1, <2>3 DEF Clean, CleanOf, Filling
  <2>4. CleanOf(t)'
    <3>1. CleanOf(t) /\ Alone /\ StageOf(t) /\ AloneOf(t) /\ Of(<<>>, t)
      BY <1>1, <1>2, <1>3, <1>6, <1>8, <2>1, OfEmpty DEF Clean, Stages, Alone
    <3>2. CleanOf(t)!1'
       BY <1>1, <1>2, <1>3, <1>6, <1>8, <2>1, <3>1 DEF Typed, Clean, CleanOf, Left, AloneOf, Stages,
         StageOf
    <3>3. CleanOf(t)!2' /\ CleanOf(t)!3' /\ CleanOf(t)!4'
      BY <1>1, <1>2, <1>3, <1>6, <1>8, <2>1, <3>1 DEF Typed, CleanOf, Clean
    <3>4. CleanOf(t)!5'
      BY <1>1, <1>2, <1>3, <1>6, <1>8, <2>1, <3>1 DEF Typed, Clean, CleanOf, Left, StageOf, AloneOf
    <3>5. CleanOf(t)!6'
       BY <1>1, <1>2, <1>3, <1>6, <1>8, <2>1, <3>1 DEF Typed, CleanOf, Filling, StageOf, AloneOf,
         Commanded, Alone
    <3>6. CleanOf(t)!7'
      BY <1>1, <1>2, <1>3, <1>6, <1>8, <2>1, <3>1 DEF Typed, CleanOf, Filling, StageOf, AloneOf
    <3> QED
      BY <3>2, <3>3, <3>4, <3>5, <3>6 DEF CleanOf
  <2> QED
    BY <2>2, <2>3, <2>4 DEF Clean
<1>9. ASSUME ~crossed', ~unstopped' PROVE Ready'
  <2>1. Ready
    BY <1>1, <1>2, <1>3, <1>6, <1>9 DEF IInv
  <2>2. (card \in {"data", "rcv"} => (Busy /\ mover.n = 1) \/ \E u \in Tasks : InData(u))'
    <3>1. (card \in {"data", "rcv"} => (Busy /\ mover.n = 1) \/ InData(t))
      BY <1>6, <1>9, <2>1 DEF Ready, InData
    <3>2. (card \in {"data", "rcv"} => (Busy /\ mover.n = 1) \/ InData(t))'
       BY <1>1, <1>2, <1>3, <1>6, <1>9, <2>1, <3>1 DEF Typed, Ready, ReadyOf, InData, Stages,
         StageOf, Alone, AloneOf, Commanded, Moved
    <3> QED
      BY <3>2
  <2>3. ASSUME NEW u \in Tasks, u # t PROVE ReadyOf(u)'
    BY <1>1, <1>2, <1>3, <1>6, <1>9, <2>1, <2>3 DEF Ready, ReadyOf, InData
  <2>4. ReadyOf(t)'
     BY <1>1, <1>2, <1>3, <1>6, <1>9, <2>1 DEF Typed, Ready, ReadyOf, InData, Stages, StageOf,
       Alone, AloneOf, Commanded, Moved
  <2> QED
    BY <2>2, <2>3, <2>4 DEF Ready
<1>10. ASSUME NEW u \in Tasks PROVE ResultOf(u)'
  <2>1. CASE u # t
    BY <1>1, <1>2, <1>3, <2>1 DEF IInv, Others, ResultOf, Done
  <2>2. CASE u = t
    BY <1>1, <1>2, <1>3, <2>2 DEF IInv, ResultOf, Done
  <2> QED
    BY <2>1, <2>2
<1>11. PanicsOnlyIfCrossed'
  BY <1>1, <1>2, <1>3 DEF PanicsOnlyIfCrossed
<1> QED
  BY <1>4, <1>5, <1>7, <1>8, <1>9, <1>10, <1>11 DEF IInv

\* A task asks for a transfer: the others may be in theirs.
LEMMA BeginStep ==
    ASSUME IInv, ~panic, NEW t \in Tasks, Begin(t)
    PROVE  IInv'
<1>1. HostTypeOK /\ Typed /\ Stages
  BY TypedFields DEF IInv
<1>2. task[t].at = "idle" /\ UNCHANGED <<ctl, panic, hvars>>
  BY DEF Begin
<1>3. /\ task' \in [Tasks -> TaskType] /\ Others(t)
      /\ task'[t].at = "wait" /\ task'[t].kind \in Kinds /\ task'[t].n \in Counts /\ task'[t].n \in Nat
      /\ task'[t].want = task'[t].n /\ task'[t].got = <<>> /\ task'[t].res = "none"
  <2>1. PICK kind \in {"read", "write"}, n \in Counts :
          task' = [task EXCEPT ![t] = [at |-> "wait", kind |-> kind, n |-> n, want |-> n, got |-> <<>>, res |-> "none"]]
    BY DEF Begin
  <2> DEFINE r == [at |-> "wait", kind |-> kind, n |-> n, want |-> n, got |-> <<>>, res |-> "none"]
  <2>2. n \in Nat /\ <<>> \in Seq(Tasks)
    BY EmptySeq
  <2>3. /\ r \in TaskType /\ r.at = "wait" /\ r.kind \in Kinds /\ r.n \in Counts /\ r.n \in Nat
        /\ r.want = r.n /\ r.got = <<>> /\ r.res = "none"
    BY <2>2 DEF TaskType
  <2>4. task \in [Tasks -> TaskType] /\ task' = [task EXCEPT ![t] = r]
    BY <1>1, <2>1 DEF HostTypeOK, TaskType
  <2> HIDE DEF r
  <2> QED
    BY <2>3, <2>4 DEF Others
<1>4. HostTypeOK'
  BY <1>1, <1>2, <1>3 DEF HostTypeOK, TaskType, ctl, hvars
<1>5. \A u \in Tasks : Inside(u)' = Inside(u) /\ (Inside(u) => u # t /\ task'[u] = task[u])
  BY <1>2, <1>3 DEF Others
<1>6. Stages'
  <2>1. ASSUME NEW u \in Tasks, u # t PROVE StageOf(u)'
    BY <1>1, <1>2, <1>3, <2>1 DEF Others, Stages, StageOf, Done, hvars
  <2>2. Len(<<>>) = 0
    BY EmptySeq
  <2>3. StageOf(t)'
    BY <1>3, <2>2 DEF StageOf, Done
  <2> QED
    BY <1>1, <1>2, <2>1, <2>3 DEF Stages, ctl, hvars
<1>7. ASSUME ~crossed' PROVE Alone'
  <2>1. Alone
    BY <1>2, <1>7 DEF IInv, hvars
  <2>2. Lone'
    BY <1>5, <2>1 DEF Alone, Lone
  <2>3. Commanded'
    BY <1>1, <1>2, <1>5, <2>1 DEF Alone, Commanded, ctl, Typed
  <2>4. Moved' /\ ("TXDR" \in sts => fifo = <<>>)' /\ (Len(fifo) <= Depth)'
    BY <1>2, <2>1 DEF Alone, Moved, ctl
  <2>5. ASSUME NEW u \in Tasks PROVE AloneOf(u)'
    <3>1. AloneOf(u)
      BY <2>1 DEF Alone
    <3> QED
      BY <1>2, <1>3, <1>5, <3>1 DEF AloneOf, Others, ctl
  <2> QED
    BY <2>2, <2>3, <2>4, <2>5 DEF Alone
<1>8. ASSUME ~crossed', ~stale', ~panic' PROVE Clean'
  <2>1. Clean
    BY <1>2, <1>8 DEF IInv, hvars
  <2>2. ((\A u \in Tasks : ~Inside(u)) => fifo = <<>> /\ Left = 0)' /\ (cmd # Nothing => fifo = <<>>)'
    BY <1>2, <1>5, <2>1 DEF Clean, Left, ctl
  <2>3. ASSUME NEW u \in Tasks, u # t PROVE CleanOf(u)'
    BY <1>2, <1>3, <2>1, <2>3 DEF Clean, CleanOf, Filling, Left, Others, ctl
  <2>4. CleanOf(t)'
    BY <1>2, <1>3, <2>1, OfEmpty DEF Clean, CleanOf, Filling, ctl
  <2> QED
    BY <2>2, <2>3, <2>4 DEF Clean
<1>9. ASSUME ~crossed', ~unstopped' PROVE Ready'
  <2>1. Ready
    BY <1>2, <1>9 DEF IInv, hvars
  <2>2. \A u \in Tasks : (InData(u) => InData(u)') /\ ReadyOf(u)'
    BY <1>2, <1>3, <2>1 DEF Ready, ReadyOf, InData, Others, ctl
  <2> QED
    BY <1>2, <2>1, <2>2 DEF Ready, ctl
<1>10. ASSUME NEW u \in Tasks PROVE ResultOf(u)'
  BY <1>2, <1>3 DEF IInv, Others, ResultOf, Done, ctl, hvars
<1>11. PanicsOnlyIfCrossed'
  BY <1>2 DEF IInv, PanicsOnlyIfCrossed, hvars
<1> QED
  BY <1>4, <1>6, <1>7, <1>8, <1>9, <1>10, <1>11 DEF IInv

\* The card is pulled.
LEMMA PullStep ==
    ASSUME IInv, ~panic, Pull
    PROVE  IInv'
<1>1. HostTypeOK /\ Typed /\ Stages
  BY TypedFields DEF IInv
<1>2. /\ task' = task /\ panic' = panic /\ crossed' = crossed /\ unstopped' = unstopped
      /\ stale' = stale /\ early' = early /\ byt' = byt
      /\ card' = "gone" /\ sts' = sts /\ cmd' = cmd /\ mover' = mover /\ fifo' = fifo /\ medium' = medium /\ erred' = erred
  BY DEF Pull, hvars
<1>3. HostTypeOK'
  BY <1>1, <1>2 DEF HostTypeOK
<1>4. Stages'
  <2>1. \A u \in Tasks : StageOf(u)'
    BY <1>1, <1>2 DEF Stages, StageOf, Done
  <2> QED
    BY <1>1, <1>2, <2>1 DEF Stages
<1>5. ASSUME ~crossed' PROVE Alone /\ Alone'
  <2>1. Alone /\ Lone
    BY <1>2, <1>5 DEF IInv, Alone
  <2>2. Lone'
    BY <1>2, <2>1 DEF Lone
  <2>3. Commanded' /\ Moved'
    BY <1>1, <1>2, <2>1 DEF Typed, Alone, Commanded, Moved, AloneOf, Stages, StageOf, Lone
  <2>4. ("TXDR" \in sts => fifo = <<>>)' /\ (Len(fifo) <= Depth)'
    BY <1>1, <1>2, <2>1 DEF Typed, Alone, Moved, Commanded
  <2>5. ASSUME NEW u \in Tasks PROVE AloneOf(u)'
    BY <1>1, <1>2, <2>1, <2>5 DEF Typed, Alone, AloneOf, Commanded, Moved, Lone, Stages, StageOf
  <2> QED
    BY <2>1, <2>2, <2>3, <2>4, <2>5 DEF Alone
<1>6. ASSUME ~crossed', ~stale', ~panic' PROVE Clean'
  <2>1. Clean /\ Alone /\ Lone
    BY <1>2, <1>5, <1>6 DEF IInv, Alone
  <2>2. ((\A u \in Tasks : ~Inside(u)) => fifo = <<>> /\ Left = 0)' /\ (cmd # Nothing => fifo = <<>>)'
    BY <1>1, <1>2, <2>1 DEF Typed, Clean, Left, Alone, Commanded, Moved
  <2>3. ASSUME NEW t \in Tasks PROVE CleanOf(t)'
    <3>1. CleanOf(t) /\ StageOf(t) /\ AloneOf(t)
      BY <1>1, <1>2, <2>1, <2>3, <2>1 DEF Clean, Stages, Alone
    <3>2. CleanOf(t)!1' /\ CleanOf(t)!2' /\ CleanOf(t)!3' /\ CleanOf(t)!4'
       BY <1>1, <1>2, <2>1, <2>3, <3>1 DEF Typed, CleanOf, Clean, StageOf, AloneOf, Alone,
         Commanded, Lone
    <3>3. CleanOf(t)!5'
       BY <1>1, <1>2, <2>1, <2>3, <3>1 DEF Typed, CleanOf, Clean, Left, StageOf, AloneOf, Alone,
         Commanded, Lone
    <3>4. CleanOf(t)!6'
       BY <1>1, <1>2, <2>1, <2>3, <3>1 DEF Typed, CleanOf, Clean, Filling, StageOf, AloneOf, Alone,
         Commanded, Moved, Lone
    <3>5. CleanOf(t)!7'
       BY <1>1, <1>2, <2>1, <2>3, <3>1 DEF Typed, CleanOf, Clean, Filling, StageOf, AloneOf, Alone,
         Commanded, Lone
    <3> QED
      BY <3>2, <3>3, <3>4, <3>5 DEF CleanOf
  <2> QED
    BY <2>2, <2>3 DEF Clean
<1>7. ASSUME ~crossed', ~unstopped' PROVE Ready'
  <2>1. Ready /\ Alone /\ Lone
    BY <1>2, <1>5, <1>7 DEF IInv, Alone
  <2>2. (card \in {"data", "rcv"} => (Busy /\ mover.n = 1) \/ \E u \in Tasks : InData(u))'
     BY <1>1, <1>2, <2>1 DEF Typed, Ready, ReadyOf, InData, Alone, AloneOf, Commanded, Moved, Lone,
       Stages, StageOf
  <2>3. ASSUME NEW u \in Tasks PROVE ReadyOf(u)'
     BY <1>1, <1>2, <2>1, <2>3 DEF Typed, Ready, ReadyOf, InData, Alone, AloneOf, Commanded, Moved,
       Lone, Stages, StageOf
  <2> QED
    BY <2>2, <2>3 DEF Ready
<1>8. ASSUME NEW u \in Tasks PROVE ResultOf(u)'
  BY <1>1, <1>2 DEF IInv, ResultOf, Done
<1>9. PanicsOnlyIfCrossed'
  BY <1>2 DEF IInv, PanicsOnlyIfCrossed
<1> QED
  BY <1>3, <1>4, <1>5, <1>6, <1>7, <1>8, <1>9 DEF IInv

\* A command that finds the card in another state has no response.
LEMMA RefuseStep ==
    ASSUME IInv, ~panic, cmd # Nothing, cmd.kind # "stop" => ~Busy,
           cmd.kind = "stop" => card \notin {"data", "rcv"}, cmd.kind # "stop" => card # "tran",
           cmd' = Nothing, sts' = sts \cup {"CD", "RTO"}, UNCHANGED <<card, mover, medium>>,
           UNCHANGED <<byt, fifo, task, panic, hvars>>
    PROVE  IInv'
<1>1. HostTypeOK /\ Typed /\ Stages
  BY TypedFields DEF IInv
<1>2. /\ task' = task /\ panic' = panic /\ crossed' = crossed /\ unstopped' = unstopped
      /\ stale' = stale /\ early' = early /\ byt' = byt
      /\ cmd # Nothing /\ (cmd.kind = "stop" => card \notin {"data", "rcv"}) /\ (cmd.kind # "stop" => card # "tran")
      /\ card' = card /\ sts' = sts \cup {"CD", "RTO"} /\ cmd' = Nothing /\ mover' = mover /\ fifo' = fifo /\ medium' = medium
      /\ erred' = erred
  BY DEF hvars
<1>3. HostTypeOK'
  BY <1>1, <1>2 DEF HostTypeOK
<1>4. Stages'
  <2>1. \A u \in Tasks : StageOf(u)'
    BY <1>1, <1>2 DEF Stages, StageOf, Done
  <2> QED
    BY <1>1, <1>2, <2>1 DEF Stages
<1>5. ASSUME ~crossed' PROVE Alone /\ Alone'
  <2>1. Alone /\ Lone
    BY <1>2, <1>5 DEF IInv, Alone
  <2>2. Lone'
    BY <1>2, <2>1 DEF Lone
  <2>3. Commanded' /\ Moved'
    BY <1>1, <1>2, <2>1 DEF Typed, Alone, Commanded, Moved, AloneOf, Stages, StageOf, Lone
  <2>4. ("TXDR" \in sts => fifo = <<>>)' /\ (Len(fifo) <= Depth)'
    BY <1>1, <1>2, <2>1 DEF Typed, Alone, Moved, Commanded
  <2>5. ASSUME NEW u \in Tasks PROVE AloneOf(u)'
    BY <1>1, <1>2, <2>1, <2>5 DEF Typed, Alone, AloneOf, Commanded, Moved, Lone, Stages, StageOf
  <2> QED
    BY <2>1, <2>2, <2>3, <2>4, <2>5 DEF Alone
<1>6. ASSUME ~crossed', ~stale', ~panic' PROVE Clean'
  <2>1. Clean /\ Alone /\ Lone
    BY <1>2, <1>5, <1>6 DEF IInv, Alone
  <2>2. ((\A u \in Tasks : ~Inside(u)) => fifo = <<>> /\ Left = 0)' /\ (cmd # Nothing => fifo = <<>>)'
    BY <1>1, <1>2, <2>1 DEF Typed, Clean, Left, Alone, Commanded, Moved
  <2>3. ASSUME NEW t \in Tasks PROVE CleanOf(t)'
    <3>1. CleanOf(t) /\ StageOf(t) /\ AloneOf(t)
      BY <1>1, <1>2, <2>1, <2>3, <2>1 DEF Clean, Stages, Alone
    <3>2. CleanOf(t)!1' /\ CleanOf(t)!2' /\ CleanOf(t)!3' /\ CleanOf(t)!4'
       BY <1>1, <1>2, <2>1, <2>3, <3>1 DEF Typed, CleanOf, Clean, StageOf, AloneOf, Alone,
         Commanded, Lone
    <3>3. CleanOf(t)!5'
       BY <1>1, <1>2, <2>1, <2>3, <3>1 DEF Typed, CleanOf, Clean, Left, StageOf, AloneOf, Alone,
         Commanded, Lone
    <3>4. CleanOf(t)!6'
       BY <1>1, <1>2, <2>1, <2>3, <3>1 DEF Typed, CleanOf, Clean, Filling, StageOf, AloneOf, Alone,
         Commanded, Moved, Lone
    <3>5. CleanOf(t)!7'
       BY <1>1, <1>2, <2>1, <2>3, <3>1 DEF Typed, CleanOf, Clean, Filling, StageOf, AloneOf, Alone,
         Commanded, Lone
    <3> QED
      BY <3>2, <3>3, <3>4, <3>5 DEF CleanOf
  <2> QED
    BY <2>2, <2>3 DEF Clean
<1>7. ASSUME ~crossed', ~unstopped' PROVE Ready'
  <2>1. Ready /\ Alone /\ Lone
    BY <1>2, <1>5, <1>7 DEF IInv, Alone
  <2>2. (card \in {"data", "rcv"} => (Busy /\ mover.n = 1) \/ \E u \in Tasks : InData(u))'
     BY <1>1, <1>2, <2>1 DEF Typed, Ready, ReadyOf, InData, Alone, AloneOf, Commanded, Moved, Lone,
       Stages, StageOf
  <2>3. ASSUME NEW u \in Tasks PROVE ReadyOf(u)'
    <3>1. CASE ~Inside(u)
      BY <1>2, <3>1 DEF ReadyOf, InData
    <3>2. CASE Inside(u)
      <4>1. /\ u = cmd.by /\ sts = {} /\ ~Busy /\ StageOf(u) /\ ReadyOf(u) /\ task[u].kind \in Kinds
            /\ \/ task[u].at = "cd" /\ cmd.kind = task[u].kind
               \/ task[u].at = "stopped" /\ cmd.kind = "stop"
        BY <1>1, <1>2, <2>1, <3>2 DEF Typed, Alone, Commanded, Lone, Ready, Stages, StageOf
      <4>2. cmd.kind = "stop" => card = "gone"
        BY <1>1, <1>2, <4>1 DEF StageOf, ReadyOf, InData
      <4>3. cmd.kind # "stop" => card = "gone"
        <5>1. cmd.kind # "stop" => ~\E v \in Tasks : InData(v)
          BY <1>2, <2>1, <3>2, <4>1 DEF InData, Lone
        <5> QED
          BY <1>1, <1>2, <2>1, <4>1, <5>1 DEF Ready, Typed
      <4> QED
        BY <1>2, <4>2, <4>3 DEF ReadyOf
    <3> QED
      BY <3>1, <3>2
  <2> QED
    BY <2>2, <2>3 DEF Ready
<1>8. ASSUME NEW u \in Tasks PROVE ResultOf(u)'
  BY <1>1, <1>2 DEF IInv, ResultOf, Done
<1>9. PanicsOnlyIfCrossed'
  BY <1>2 DEF IInv, PanicsOnlyIfCrossed
<1> QED
  BY <1>3, <1>4, <1>5, <1>6, <1>7, <1>8, <1>9 DEF IInv

\* The card is told to stop.
LEMMA StopStep ==
    ASSUME IInv, ~panic, cmd # Nothing, cmd.kind = "stop", card \in {"data", "rcv"},
           card' = "tran", mover' = Nothing, sts' = sts \cup {"CD"}, UNCHANGED medium, cmd' = Nothing,
           UNCHANGED <<byt, fifo, task, panic, hvars>>
    PROVE  IInv'
<1>1. HostTypeOK /\ Typed /\ Stages
  BY TypedFields DEF IInv
<1>2. /\ task' = task /\ panic' = panic /\ crossed' = crossed /\ unstopped' = unstopped
      /\ stale' = stale /\ early' = early /\ byt' = byt
      /\ cmd # Nothing /\ cmd.kind = "stop"
      /\ card' = "tran" /\ sts' = sts \cup {"CD"} /\ cmd' = Nothing /\ mover' = Nothing /\ fifo' = fifo /\ medium' = medium
      /\ erred' = erred
  BY DEF hvars
<1>3. HostTypeOK'
  BY <1>1, <1>2 DEF HostTypeOK
<1>4. Stages'
  <2>1. \A u \in Tasks : StageOf(u)'
    BY <1>1, <1>2 DEF Stages, StageOf, Done
  <2> QED
    BY <1>1, <1>2, <2>1 DEF Stages
<1>5. ASSUME ~crossed' PROVE Alone /\ Alone'
  <2>1. Alone /\ Lone
    BY <1>2, <1>5 DEF IInv, Alone
  <2>2. Lone'
    BY <1>2, <2>1 DEF Lone
  <2>3. Commanded' /\ Moved'
    BY <1>1, <1>2, <2>1 DEF Typed, Alone, Commanded, Moved, AloneOf, Stages, StageOf, Lone
  <2>4. ("TXDR" \in sts => fifo = <<>>)' /\ (Len(fifo) <= Depth)'
    BY <1>1, <1>2, <2>1 DEF Typed, Alone, Moved, Commanded
  <2>5. ASSUME NEW u \in Tasks PROVE AloneOf(u)'
    BY <1>1, <1>2, <2>1, <2>5 DEF Typed, Alone, AloneOf, Commanded, Moved, Lone, Stages, StageOf
  <2> QED
    BY <2>1, <2>2, <2>3, <2>4, <2>5 DEF Alone
<1>6. ASSUME ~crossed', ~stale', ~panic' PROVE Clean'
  <2>1. Clean /\ Alone /\ Lone
    BY <1>2, <1>5, <1>6 DEF IInv, Alone
  <2>2. ((\A u \in Tasks : ~Inside(u)) => fifo = <<>> /\ Left = 0)' /\ (cmd # Nothing => fifo = <<>>)'
    BY <1>1, <1>2, <2>1 DEF Typed, Clean, Left, Alone, Commanded, Moved
  <2>3. ASSUME NEW t \in Tasks PROVE CleanOf(t)'
    <3>1. CleanOf(t) /\ StageOf(t) /\ AloneOf(t)
      BY <1>1, <1>2, <2>1, <2>3, <2>1 DEF Clean, Stages, Alone
    <3>2. CleanOf(t)!1' /\ CleanOf(t)!2' /\ CleanOf(t)!3' /\ CleanOf(t)!4'
       BY <1>1, <1>2, <2>1, <2>3, <3>1 DEF Typed, CleanOf, Clean, StageOf, AloneOf, Alone,
         Commanded, Lone
    <3>3. CleanOf(t)!5'
       BY <1>1, <1>2, <2>1, <2>3, <3>1 DEF Typed, CleanOf, Clean, Left, StageOf, AloneOf, Alone,
         Commanded, Lone
    <3>4. CleanOf(t)!6'
       BY <1>1, <1>2, <2>1, <2>3, <3>1 DEF Typed, CleanOf, Clean, Filling, StageOf, AloneOf, Alone,
         Commanded, Moved, Lone
    <3>5. CleanOf(t)!7'
       BY <1>1, <1>2, <2>1, <2>3, <3>1 DEF Typed, CleanOf, Clean, Filling, StageOf, AloneOf, Alone,
         Commanded, Lone
    <3> QED
      BY <3>2, <3>3, <3>4, <3>5 DEF CleanOf
  <2> QED
    BY <2>2, <2>3 DEF Clean
<1>7. ASSUME ~crossed', ~unstopped' PROVE Ready'
  <2>1. Ready /\ Alone /\ Lone
    BY <1>2, <1>5, <1>7 DEF IInv, Alone
  <2>2. (card \in {"data", "rcv"} => (Busy /\ mover.n = 1) \/ \E u \in Tasks : InData(u))'
     BY <1>1, <1>2, <2>1 DEF Typed, Ready, ReadyOf, InData, Alone, AloneOf, Commanded, Moved, Lone,
       Stages, StageOf
  <2>3. ASSUME NEW u \in Tasks PROVE ReadyOf(u)'
    <3>1. CASE ~Inside(u)
      BY <1>2, <3>1 DEF ReadyOf, InData
    <3>2. CASE Inside(u)
      <4>1. u = cmd.by /\ sts = {} /\ StageOf(u) /\ task[u].at = "stopped"
        BY <1>1, <1>2, <2>1, <3>2 DEF Typed, Alone, Commanded, Lone, Stages, StageOf
      <4> QED
        BY <1>2, <4>1 DEF ReadyOf, InData
    <3> QED
      BY <3>1, <3>2
  <2> QED
    BY <2>2, <2>3 DEF Ready
<1>8. ASSUME NEW u \in Tasks PROVE ResultOf(u)'
  BY <1>1, <1>2 DEF IInv, ResultOf, Done
<1>9. PanicsOnlyIfCrossed'
  BY <1>2 DEF IInv, PanicsOnlyIfCrossed
<1> QED
  BY <1>3, <1>4, <1>5, <1>6, <1>7, <1>8, <1>9 DEF IInv

\* The controller asks for data.
LEMMA RequestStep ==
    ASSUME IInv, ~panic, Busy, HasMore, Request, UNCHANGED <<byt, cmd, card, task, panic, hvars>>
    PROVE  IInv'
<1>1. HostTypeOK /\ Typed /\ Stages
  BY TypedFields DEF IInv
<1>2. /\ task' = task /\ panic' = panic /\ crossed' = crossed /\ unstopped' = unstopped
      /\ stale' = stale /\ early' = early /\ byt' = byt
      /\ Busy /\ mover.kind = "write" /\ fifo = <<>>
      /\ card' = card /\ sts' = sts \cup {"TXDR"} /\ cmd' = cmd /\ mover' = mover /\ fifo' = fifo /\ medium' = medium
      /\ erred' = erred
  BY DEF hvars, Request
<1>3. HostTypeOK'
  BY <1>1, <1>2 DEF HostTypeOK
<1>4. Stages'
  <2>1. \A u \in Tasks : StageOf(u)'
    BY <1>1, <1>2 DEF Stages, StageOf, Done
  <2> QED
    BY <1>1, <1>2, <2>1 DEF Stages
<1>5. ASSUME ~crossed' PROVE Alone /\ Alone'
  <2>1. Alone /\ Lone
    BY <1>2, <1>5 DEF IInv, Alone
  <2>2. Lone'
    BY <1>2, <2>1 DEF Lone
  <2>3. Commanded' /\ Moved'
    BY <1>1, <1>2, <2>1 DEF Typed, Alone, Commanded, Moved, AloneOf, Stages, StageOf, Lone
  <2>4. ("TXDR" \in sts => fifo = <<>>)' /\ (Len(fifo) <= Depth)'
    BY <1>1, <1>2, <2>1 DEF Typed, Alone, Moved, Commanded
  <2>5. ASSUME NEW u \in Tasks PROVE AloneOf(u)'
    BY <1>1, <1>2, <2>1, <2>5 DEF Typed, Alone, AloneOf, Commanded, Moved, Lone, Stages, StageOf
  <2> QED
    BY <2>1, <2>2, <2>3, <2>4, <2>5 DEF Alone
<1>6. ASSUME ~crossed', ~stale', ~panic' PROVE Clean'
  <2>1. Clean /\ Alone /\ Lone
    BY <1>2, <1>5, <1>6 DEF IInv, Alone
  <2>2. ((\A u \in Tasks : ~Inside(u)) => fifo = <<>> /\ Left = 0)' /\ (cmd # Nothing => fifo = <<>>)'
    BY <1>1, <1>2, <2>1 DEF Typed, Clean, Left, Alone, Commanded, Moved
  <2>3. ASSUME NEW t \in Tasks PROVE CleanOf(t)'
    <3>1. CleanOf(t) /\ StageOf(t) /\ AloneOf(t)
      BY <1>1, <1>2, <2>1, <2>3, <2>1 DEF Clean, Stages, Alone
    <3>2. CleanOf(t)!1' /\ CleanOf(t)!2' /\ CleanOf(t)!3' /\ CleanOf(t)!4'
       BY <1>1, <1>2, <2>1, <2>3, <3>1 DEF Typed, CleanOf, Clean, StageOf, AloneOf, Alone,
         Commanded, Lone
    <3>3. CleanOf(t)!5'
       BY <1>1, <1>2, <2>1, <2>3, <3>1 DEF Typed, CleanOf, Clean, Left, StageOf, AloneOf, Alone,
         Commanded, Lone
    <3>4. CleanOf(t)!6'
       BY <1>1, <1>2, <2>1, <2>3, <3>1 DEF Typed, CleanOf, Clean, Filling, StageOf, AloneOf, Alone,
         Commanded, Moved, Lone
    <3>5. CleanOf(t)!7'
       BY <1>1, <1>2, <2>1, <2>3, <3>1 DEF Typed, CleanOf, Clean, Filling, StageOf, AloneOf, Alone,
         Commanded, Lone
    <3> QED
      BY <3>2, <3>3, <3>4, <3>5 DEF CleanOf
  <2> QED
    BY <2>2, <2>3 DEF Clean
<1>7. ASSUME ~crossed', ~unstopped' PROVE Ready'
  <2>1. Ready /\ Alone /\ Lone
    BY <1>2, <1>5, <1>7 DEF IInv, Alone
  <2>2. (card \in {"data", "rcv"} => (Busy /\ mover.n = 1) \/ \E u \in Tasks : InData(u))'
     BY <1>1, <1>2, <2>1 DEF Typed, Ready, ReadyOf, InData, Alone, AloneOf, Commanded, Moved, Lone,
       Stages, StageOf
  <2>3. ASSUME NEW u \in Tasks PROVE ReadyOf(u)'
     BY <1>1, <1>2, <2>1, <2>3 DEF Typed, Ready, ReadyOf, InData, Alone, AloneOf, Commanded, Moved,
       Lone, Stages, StageOf
  <2> QED
    BY <2>2, <2>3 DEF Ready
<1>8. ASSUME NEW u \in Tasks PROVE ResultOf(u)'
  BY <1>1, <1>2 DEF IInv, ResultOf, Done
<1>9. PanicsOnlyIfCrossed'
  BY <1>2 DEF IInv, PanicsOnlyIfCrossed
<1> QED
  BY <1>3, <1>4, <1>5, <1>6, <1>7, <1>8, <1>9 DEF IInv

MoverType == [by : Tasks, kind : Kinds, n : Counts, left : Nat, supply : Nat]

\* A block more has gone through.
LEMMA CountsDown ==
    ASSUME HostTypeOK, Busy, HasMore, NEW m, m = Counted
    PROVE  /\ m \in MoverType /\ m # Nothing /\ m.by = mover.by /\ m.kind = mover.kind /\ m.n = mover.n
           /\ m.left = mover.left - 1 /\ m.supply = mover.supply - 1
<1>1. mover \in MoverType /\ mover.left > 0 /\ mover.supply > 0
  BY DEF HostTypeOK, MoverType, HasMore
<1>2. mover.left \in Nat /\ mover.supply \in Nat /\ mover.left - 1 \in Nat /\ mover.supply - 1 \in Nat
  BY <1>1 DEF MoverType
<1> QED
  BY <1>1, <1>2 DEF Counted, MoverType

\* A block of the card goes into the FIFO.
LEMMA SendStep ==
    ASSUME IInv, ~panic, Busy, HasMore, Send, UNCHANGED <<byt, cmd, card, task, panic, hvars>>
    PROVE  IInv'
<1>1. HostTypeOK /\ Typed /\ Stages
  BY TypedFields DEF IInv
<1>2. /\ task' = task /\ panic' = panic /\ crossed' = crossed /\ unstopped' = unstopped
      /\ stale' = stale /\ early' = early /\ byt' = byt
      /\ Busy /\ mover.kind = "read" /\ mover.left > 0 /\ mover.supply > 0 /\ Len(fifo) < Depth
      /\ card' = card /\ sts' = sts \cup {"RXDR"} /\ cmd' = cmd /\ medium' = medium /\ erred' = erred
      /\ fifo' \in Seq(Tasks) /\ Len(fifo) \in Nat /\ Len(fifo') = Len(fifo) + 1
      /\ \A u \in Tasks : u = mover.by /\ Of(fifo, u) => Of(fifo', u)
      /\ mover' \in MoverType /\ mover' # Nothing /\ mover'.by = mover.by /\ mover'.kind = mover.kind /\ mover'.n = mover.n
      /\ mover'.left = mover.left - 1 /\ mover'.supply = mover.supply - 1
  <2>1. /\ mover' \in MoverType /\ mover' # Nothing /\ mover'.by = mover.by /\ mover'.kind = mover.kind /\ mover'.n = mover.n
        /\ mover'.left = mover.left - 1 /\ mover'.supply = mover.supply - 1
    BY <1>1, CountsDown DEF Send
  <2>2. /\ fifo' = Append(fifo, mover.by) /\ Append(fifo, mover.by) \in Seq(Tasks) /\ Len(fifo) \in Nat
        /\ Len(Append(fifo, mover.by)) = Len(fifo) + 1
    BY <1>1, AppendProperties, LenProperties DEF Typed, Send
  <2>3. \A u \in Tasks : u = mover.by /\ Of(fifo, u) => Of(Append(fifo, mover.by), u)
    BY <1>1, OfSequences DEF Typed
  <2> QED
    BY <2>1, <2>2, <2>3 DEF Send, HasMore, hvars
<1>3. HostTypeOK'
  BY <1>1, <1>2 DEF HostTypeOK, MoverType
<1>4. Stages'
  <2>1. \A u \in Tasks : StageOf(u)'
    BY <1>1, <1>2 DEF Stages, StageOf, Done
  <2> QED
    BY <1>1, <1>2, <2>1 DEF Stages
<1>5. ASSUME ~crossed' PROVE Alone /\ Alone'
  <2>1. Alone /\ Lone
    BY <1>2, <1>5 DEF IInv, Alone
  <2>2. Lone'
    BY <1>2, <2>1 DEF Lone
  <2>3. Commanded' /\ Moved'
    BY <1>1, <1>2, <2>1 DEF Typed, Alone, Commanded, Moved, AloneOf, Stages, StageOf, Lone
  <2>4. ("TXDR" \in sts => fifo = <<>>)' /\ (Len(fifo) <= Depth)'
    BY <1>1, <1>2, <2>1 DEF Typed, Alone, Moved, Commanded
  <2>5. ASSUME NEW u \in Tasks PROVE AloneOf(u)'
    BY <1>1, <1>2, <2>1, <2>5 DEF Typed, Alone, AloneOf, Commanded, Moved, Lone, Stages, StageOf
  <2> QED
    BY <2>1, <2>2, <2>3, <2>4, <2>5 DEF Alone
<1>6. ASSUME ~crossed', ~stale', ~panic' PROVE Clean'
  <2>1. Clean /\ Alone /\ Lone
    BY <1>2, <1>5, <1>6 DEF IInv, Alone
  <2>2. ((\A u \in Tasks : ~Inside(u)) => fifo = <<>> /\ Left = 0)' /\ (cmd # Nothing => fifo = <<>>)'
    BY <1>1, <1>2, <2>1 DEF Typed, Clean, Left, Alone, Commanded, Moved
  <2>3. ASSUME NEW t \in Tasks PROVE CleanOf(t)'
    <3>1. CleanOf(t) /\ StageOf(t) /\ AloneOf(t)
      BY <2>1, <2>3, <1>1 DEF Clean, Stages, Alone
    <3>2. CASE ~Inside(t)
      BY <1>1, <1>2, <2>1, <3>1, <3>2 DEF CleanOf, Filling, Clean, Alone, AloneOf, Left
    <3>3. CASE Inside(t)
      <4>1. mover.by = t /\ task[t].kind = mover.kind /\ cmd = Nothing /\ "RTO" \notin sts
        BY <1>2, <2>1, <3>1, <3>3 DEF AloneOf, Alone, Moved, Commanded
      <4>2. task[t].at \in {"cd", "read", "ack", "poll", "drained"}
        BY <1>1, <1>2, <3>1, <3>3, <4>1 DEF AloneOf, StageOf, CleanOf, Left, Typed
      <4>3. CleanOf(t)!1' /\ CleanOf(t)!2' /\ CleanOf(t)!3' /\ CleanOf(t)!4'
        BY <1>1, <1>2, <3>1, <3>3, <4>1, <4>2 DEF CleanOf, Typed
      <4>4. CleanOf(t)!5'
        BY <1>1, <1>2, <3>1, <3>3, <4>1, <4>2 DEF CleanOf, Typed, Left
      <4>5. CleanOf(t)!6' /\ CleanOf(t)!7'
        BY <1>2, <4>1 DEF Filling
      <4> QED
        BY <4>3, <4>4, <4>5 DEF CleanOf
    <3> QED
      BY <3>2, <3>3
  <2> QED
    BY <2>2, <2>3 DEF Clean
<1>7. ASSUME ~crossed', ~unstopped' PROVE Ready'
  <2>1. Ready /\ Alone /\ Lone
    BY <1>2, <1>5, <1>7 DEF IInv, Alone
  <2>2. (card \in {"data", "rcv"} => (Busy /\ mover.n = 1) \/ \E u \in Tasks : InData(u))'
     BY <1>1, <1>2, <2>1 DEF Typed, Ready, ReadyOf, InData, Alone, AloneOf, Commanded, Moved, Lone,
       Stages, StageOf
  <2>3. ASSUME NEW u \in Tasks PROVE ReadyOf(u)'
     BY <1>1, <1>2, <2>1, <2>3 DEF Typed, Ready, ReadyOf, InData, Alone, AloneOf, Commanded, Moved,
       Lone, Stages, StageOf
  <2> QED
    BY <2>2, <2>3 DEF Ready
<1>8. ASSUME NEW u \in Tasks PROVE ResultOf(u)'
  BY <1>1, <1>2 DEF IInv, ResultOf, Done
<1>9. PanicsOnlyIfCrossed'
  BY <1>2 DEF IInv, PanicsOnlyIfCrossed
<1> QED
  BY <1>3, <1>4, <1>5, <1>6, <1>7, <1>8, <1>9 DEF IInv

\* The card takes a block from the FIFO.
LEMMA ReceiveStep ==
    ASSUME IInv, ~panic, Busy, HasMore, Receive, UNCHANGED <<byt, cmd, card, task, panic, hvars>>
    PROVE  IInv'
<1>1. HostTypeOK /\ Typed /\ Stages
  BY TypedFields DEF IInv
<1>2. /\ task' = task /\ panic' = panic /\ crossed' = crossed /\ unstopped' = unstopped
      /\ stale' = stale /\ early' = early /\ byt' = byt
      /\ Busy /\ mover.kind = "write" /\ mover.left > 0 /\ mover.supply > 0 /\ fifo # <<>> /\ mover.by \in Tasks
      /\ card' = card /\ sts' = sts /\ cmd' = cmd /\ erred' = erred
      /\ fifo' \in Seq(Tasks) /\ Len(fifo) \in Nat /\ Len(fifo') = Len(fifo) - 1 /\ (Depth \in Nat)
      /\ \A u \in Tasks : Of(fifo, u) => Of(fifo', u)
      /\ medium' \in [Tasks -> Seq(Tasks)] /\ \A u \in Tasks : u # mover.by => medium'[u] = medium[u]
      /\ Len(medium'[mover.by]) = Len(medium[mover.by]) + 1 /\ Len(medium[mover.by]) \in Nat
      /\ Of(medium[mover.by], mover.by) /\ Of(fifo, mover.by) => Of(medium'[mover.by], mover.by)
      /\ mover' \in MoverType /\ mover' # Nothing /\ mover'.by = mover.by /\ mover'.kind = mover.kind /\ mover'.n = mover.n
      /\ mover'.left = mover.left - 1 /\ mover'.supply = mover.supply - 1
  <2>1. /\ mover' \in MoverType /\ mover' # Nothing /\ mover'.by = mover.by /\ mover'.kind = mover.kind /\ mover'.n = mover.n
        /\ mover'.left = mover.left - 1 /\ mover'.supply = mover.supply - 1
    BY <1>1, CountsDown DEF Receive
  <2>2. /\ fifo # <<>> /\ fifo' = Tail(fifo) /\ Tail(fifo) \in Seq(Tasks) /\ Head(fifo) \in Tasks
        /\ Len(fifo) \in Nat /\ Len(Tail(fifo)) = Len(fifo) - 1 /\ mover.by \in Tasks
    BY <1>1, HeadTailProperties, LenProperties DEF Typed, Receive
  <2>3. \A u \in Tasks : Of(fifo, u) => Head(fifo) = u /\ Of(Tail(fifo), u)
    BY <1>1, <2>2, OfSequences DEF Typed
  <2> DEFINE new == Append(medium[mover.by], Head(fifo))
  <2>4. /\ new \in Seq(Tasks) /\ Len(new) = Len(medium[mover.by]) + 1 /\ Len(medium[mover.by]) \in Nat
        /\ medium[mover.by] \in Seq(Tasks)
    BY <1>1, <2>2, AppendProperties, LenProperties DEF Typed
  <2>5. Of(medium[mover.by], mover.by) /\ Of(fifo, mover.by) => Of(new, mover.by)
    BY <2>2, <2>3, <2>4, OfSequences
  <2>6. medium' = [medium EXCEPT ![mover.by] = new] /\ medium \in [Tasks -> Seq(Tasks)]
    BY <1>1 DEF Receive, HostTypeOK
  <2> HIDE DEF new
  <2>7. /\ medium' \in [Tasks -> Seq(Tasks)] /\ \A u \in Tasks : u # mover.by => medium'[u] = medium[u]
        /\ medium'[mover.by] = new
    BY <2>2, <2>4, <2>6
  <2> QED
    BY <2>1, <2>2, <2>3, <2>4, <2>5, <2>7 DEF Receive, HasMore, hvars
<1>3. HostTypeOK'
  BY <1>1, <1>2 DEF HostTypeOK, MoverType
<1>4. Stages'
  <2>1. \A u \in Tasks : StageOf(u)'
    BY <1>1, <1>2 DEF Stages, StageOf, Done
  <2> QED
    BY <1>1, <1>2, <2>1 DEF Stages
<1>5. ASSUME ~crossed' PROVE Alone /\ Alone'
  <2>1. Alone /\ Lone
    BY <1>2, <1>5 DEF IInv, Alone
  <2>2. Lone'
    BY <1>2, <2>1 DEF Lone
  <2>3. Commanded' /\ Moved'
    BY <1>1, <1>2, <2>1 DEF Typed, Alone, Commanded, Moved, AloneOf, Stages, StageOf, Lone
  <2>4. ("TXDR" \in sts => fifo = <<>>)' /\ (Len(fifo) <= Depth)'
    BY <1>1, <1>2, <2>1 DEF Typed, Alone, Moved, Commanded
  <2>5. ASSUME NEW u \in Tasks PROVE AloneOf(u)'
    BY <1>1, <1>2, <2>1, <2>5 DEF Typed, Alone, AloneOf, Commanded, Moved, Lone, Stages, StageOf
  <2> QED
    BY <2>1, <2>2, <2>3, <2>4, <2>5 DEF Alone
<1>6. ASSUME ~crossed', ~stale', ~panic' PROVE Clean'
  <2>1. Clean /\ Alone /\ Lone
    BY <1>2, <1>5, <1>6 DEF IInv, Alone
  <2>2. ((\A u \in Tasks : ~Inside(u)) => fifo = <<>> /\ Left = 0)' /\ (cmd # Nothing => fifo = <<>>)'
    BY <1>1, <1>2, <2>1 DEF Typed, Clean, Left, Alone, Commanded, Moved
  <2>3. ASSUME NEW t \in Tasks PROVE CleanOf(t)'
    <3>1. CleanOf(t) /\ StageOf(t) /\ AloneOf(t)
      BY <2>1, <2>3, <1>1 DEF Clean, Stages, Alone
    <3>2. CASE ~Inside(t)
      BY <1>1, <1>2, <2>1, <3>1, <3>2 DEF CleanOf, Filling, Clean, Alone, AloneOf, Left
    <3>3. CASE Inside(t)
      <4>1. mover.by = t /\ task[t].kind = mover.kind /\ cmd = Nothing /\ "RTO" \notin sts
        BY <1>2, <2>1, <3>1, <3>3 DEF AloneOf, Alone, Moved, Commanded
      <4>2. Filling(t) /\ task[t].at # "flush"
        BY <1>1, <1>2, <3>1, <3>3, <4>1 DEF AloneOf, StageOf, CleanOf, Filling
      <4>3. CleanOf(t)!1' /\ CleanOf(t)!2' /\ CleanOf(t)!3' /\ CleanOf(t)!4'
        BY <1>1, <1>2, <3>1, <3>3, <4>1, <4>2 DEF CleanOf, Typed
      <4>4. CleanOf(t)!5'
        BY <1>1, <1>2, <3>1, <3>3, <4>1, <4>2 DEF CleanOf, Typed, Left
      <4>5. CleanOf(t)!6' /\ CleanOf(t)!7'
        <5>1. Len(medium[t]) + Len(fifo) + task[t].want = task[t].n /\ Len(medium[t]) + mover.left = task[t].n
          BY <1>2, <3>1, <4>2 DEF CleanOf
        <5>2. task[t].want \in Nat /\ task[t].n \in Nat /\ mover.left \in Nat /\ Len(medium[t]) \in Nat
          BY <1>1, <1>2, <4>1 DEF Typed
        <5>4. /\ Len(medium'[t]) = Len(medium[t]) + 1 /\ Len(fifo') = Len(fifo) - 1 /\ Len(fifo) \in Nat
              /\ mover'.left = mover.left - 1 /\ task'[t] = task[t]
          BY <1>2, <4>1
        <5>3. /\ Len(medium'[t]) + Len(fifo') + task'[t].want = task'[t].n
              /\ Len(medium'[t]) + mover'.left = task'[t].n
          BY <5>1, <5>2, <5>4
        <5> QED
          BY <1>2, <4>2, <5>3
      <4> QED
        BY <4>3, <4>4, <4>5 DEF CleanOf
    <3> QED
      BY <3>2, <3>3
  <2> QED
    BY <2>2, <2>3 DEF Clean
<1>7. ASSUME ~crossed', ~unstopped' PROVE Ready'
  <2>1. Ready /\ Alone /\ Lone
    BY <1>2, <1>5, <1>7 DEF IInv, Alone
  <2>2. (card \in {"data", "rcv"} => (Busy /\ mover.n = 1) \/ \E u \in Tasks : InData(u))'
     BY <1>1, <1>2, <2>1 DEF Typed, Ready, ReadyOf, InData, Alone, AloneOf, Commanded, Moved, Lone,
       Stages, StageOf
  <2>3. ASSUME NEW u \in Tasks PROVE ReadyOf(u)'
     BY <1>1, <1>2, <2>1, <2>3 DEF Typed, Ready, ReadyOf, InData, Alone, AloneOf, Commanded, Moved,
       Lone, Stages, StageOf
  <2> QED
    BY <2>2, <2>3 DEF Ready
<1>8. ASSUME NEW u \in Tasks PROVE ResultOf(u)'
  <2>1. CASE u # mover.by
    BY <1>1, <1>2, <2>1 DEF IInv, ResultOf, Done
  <2>2. CASE u = mover.by
    <3>1. ASSUME Done(u, "write"), ~crossed, ~stale PROVE FALSE
      <4>1. Clean /\ Alone
        BY <3>1 DEF IInv
      <4>2. PICK v \in Tasks : Inside(v)
        BY <1>1, <1>2, <4>1 DEF Clean, Left, Typed
      <4>3. mover.by = v
        BY <1>2, <4>1, <4>2 DEF Alone, AloneOf
      <4> QED
        BY <2>2, <3>1, <4>2, <4>3 DEF Done
    <3> QED
      BY <1>1, <1>2, <3>1 DEF IInv, ResultOf, Done
  <2> QED
    BY <2>1, <2>2
<1>9. PanicsOnlyIfCrossed'
  BY <1>2 DEF IInv, PanicsOnlyIfCrossed
<1> QED
  BY <1>3, <1>4, <1>5, <1>6, <1>7, <1>8, <1>9 DEF IInv

\* The transfer of the data ends.
LEMMA EndStep ==
    ASSUME IInv, ~panic, End
    PROVE  IInv'
<1>1. HostTypeOK /\ Typed /\ Stages
  BY TypedFields DEF IInv
<1>2. /\ task' = task /\ panic' = panic /\ crossed' = crossed /\ unstopped' = unstopped
      /\ stale' = stale /\ early' = early /\ byt' = byt
      /\ Busy /\ ~HasMore /\ mover' = Nothing /\ cmd' = cmd /\ fifo' = fifo /\ medium' = medium
      /\ card' = IF card # "gone" /\ mover.n = 1 THEN "tran" ELSE card
      /\ erred' \in BOOLEAN /\ (erred => erred')
      /\ \/ sts' = sts \cup {"DTO", "ERR"} /\ erred'
         \/ sts' = sts \cup {"DTO"} /\ ~(mover.left > 0)
  <2>1. PICK bad \in BOOLEAN :
          /\ mover.left > 0 => bad
          /\ sts' = sts \cup {"DTO"} \cup IF bad THEN Errors ELSE {}
          /\ erred' = (erred \/ bad)
    BY DEF End
  <2>2. CASE bad
    BY <1>1, <2>1, <2>2 DEF End, hvars, HostTypeOK
  <2>3. CASE ~bad
    BY <1>1, <2>1, <2>3 DEF End, hvars, HostTypeOK
  <2> QED
    BY <2>2, <2>3
<1>3. HostTypeOK'
  BY <1>1, <1>2 DEF HostTypeOK
<1>4. Stages'
  <2>1. \A u \in Tasks : StageOf(u)'
    BY <1>1, <1>2 DEF Stages, StageOf, Done
  <2> QED
    BY <1>1, <1>2, <2>1 DEF Stages
<1>5. ASSUME ~crossed' PROVE Alone /\ Alone'
  <2>1. Alone /\ Lone
    BY <1>2, <1>5 DEF IInv, Alone
  <2>2. Lone'
    BY <1>2, <2>1 DEF Lone
  <2>3. Commanded' /\ Moved'
    BY <1>1, <1>2, <2>1 DEF Typed, Alone, Commanded, Moved, AloneOf, Stages, StageOf, Lone
  <2>4. ("TXDR" \in sts => fifo = <<>>)' /\ (Len(fifo) <= Depth)'
    BY <1>1, <1>2, <2>1 DEF Typed, Alone, Moved, Commanded
  <2>5. ASSUME NEW u \in Tasks PROVE AloneOf(u)'
    BY <1>1, <1>2, <2>1, <2>5 DEF Typed, Alone, AloneOf, Commanded, Moved, Lone, Stages, StageOf
  <2> QED
    BY <2>1, <2>2, <2>3, <2>4, <2>5 DEF Alone
<1>6. ASSUME ~crossed', ~stale', ~panic' PROVE Clean'
  <2>1. Clean /\ Alone /\ Lone
    BY <1>2, <1>5, <1>6 DEF IInv, Alone
  <2>2. ((\A u \in Tasks : ~Inside(u)) => fifo = <<>> /\ Left = 0)' /\ (cmd # Nothing => fifo = <<>>)'
    BY <1>1, <1>2, <2>1 DEF Typed, Clean, Left, Alone, Commanded, Moved
  <2>3. ASSUME NEW t \in Tasks PROVE CleanOf(t)'
    <3>1. CleanOf(t) /\ StageOf(t) /\ AloneOf(t)
      BY <1>1, <1>2, <2>1, <2>3, <2>1 DEF Clean, Stages, Alone
    <3>2. CleanOf(t)!1' /\ CleanOf(t)!2' /\ CleanOf(t)!3' /\ CleanOf(t)!4'
       BY <1>1, <1>2, <2>1, <2>3, <3>1 DEF Typed, CleanOf, Clean, StageOf, AloneOf, Alone,
         Commanded, Lone
    <3>3. CleanOf(t)!5'
       BY <1>1, <1>2, <2>1, <2>3, <3>1 DEF Typed, CleanOf, Clean, Left, StageOf, AloneOf, Alone,
         Commanded, Lone
    <3>4. CleanOf(t)!6'
       BY <1>1, <1>2, <2>1, <2>3, <3>1 DEF Typed, CleanOf, Clean, Filling, StageOf, AloneOf, Alone,
         Commanded, Moved, Lone
    <3>5. CleanOf(t)!7'
       BY <1>1, <1>2, <2>1, <2>3, <3>1 DEF Typed, CleanOf, Clean, Filling, StageOf, AloneOf, Alone,
         Commanded, Lone
    <3> QED
      BY <3>2, <3>3, <3>4, <3>5 DEF CleanOf
  <2> QED
    BY <2>2, <2>3 DEF Clean
<1>7. ASSUME ~crossed', ~unstopped' PROVE Ready'
  <2>1. Ready /\ Alone /\ Lone
    BY <1>2, <1>5, <1>7 DEF IInv, Alone
  <2>2. (card \in {"data", "rcv"} => (Busy /\ mover.n = 1) \/ \E u \in Tasks : InData(u))'
     BY <1>1, <1>2, <2>1 DEF Typed, Ready, ReadyOf, InData, Alone, AloneOf, Commanded, Moved, Lone,
       Stages, StageOf
  <2>3. ASSUME NEW u \in Tasks PROVE ReadyOf(u)'
    <3>1. InData(u) => task[u].n > 1 /\ Inside(u)
      BY DEF InData
    <3>2. InData(u) => mover.n # 1
      BY <1>1, <1>2, <2>1, <3>1 DEF Alone, AloneOf, Typed
    <3> QED
      BY <1>2, <2>1, <3>2 DEF Ready, ReadyOf, InData
  <2> QED
    BY <2>2, <2>3 DEF Ready
<1>8. ASSUME NEW u \in Tasks PROVE ResultOf(u)'
  BY <1>1, <1>2 DEF IInv, ResultOf, Done
<1>9. PanicsOnlyIfCrossed'
  BY <1>2 DEF IInv, PanicsOnlyIfCrossed
<1> QED
  BY <1>3, <1>4, <1>5, <1>6, <1>7, <1>8, <1>9 DEF IInv

\* A command starts the transfer of its data.
LEMMA AcceptStep ==
    ASSUME IInv, ~panic, cmd # Nothing, cmd.kind # "stop", ~Busy, card = "tran", cmd' = Nothing,
           card' = IF cmd.kind = "read" THEN "data" ELSE "rcv",
           mover' = [by |-> cmd.by, kind |-> cmd.kind, n |-> cmd.n, left |-> byt,
                     supply |-> IF cmd.n = 1 THEN 1 ELSE byt],
           medium' = IF cmd.kind = "read" THEN medium ELSE [medium EXCEPT ![cmd.by] = <<>>],
           sts' = sts \cup {"CD"}, UNCHANGED <<byt, fifo, task, panic, hvars>>
    PROVE  IInv'
<1>1. HostTypeOK /\ Typed /\ Stages
  BY TypedFields DEF IInv
<1>2. /\ task' = task /\ panic' = panic /\ crossed' = crossed /\ unstopped' = unstopped
      /\ stale' = stale /\ early' = early /\ byt' = byt
      /\ cmd # Nothing /\ cmd.kind \in Kinds /\ cmd.by \in Tasks /\ cmd.n \in Counts /\ cmd.n \in Nat /\ cmd.n > 0 /\ ~Busy
      /\ card = "tran" /\ card' = (IF cmd.kind = "read" THEN "data" ELSE "rcv")
      /\ sts' = sts \cup {"CD"} /\ cmd' = Nothing /\ fifo' = fifo /\ erred' = erred
      /\ medium' \in [Tasks -> Seq(Tasks)] /\ (\A u \in Tasks : u # cmd.by => medium'[u] = medium[u])
      /\ (cmd.kind = "read" => medium' = medium) /\ (cmd.kind = "write" => medium'[cmd.by] = <<>>)
      /\ mover' \in MoverType /\ mover' # Nothing /\ mover'.by = cmd.by /\ mover'.kind = cmd.kind /\ mover'.n = cmd.n
      /\ mover'.left = byt /\ (mover'.supply = IF cmd.n = 1 THEN 1 ELSE byt) /\ Len(<<>>) = 0 /\ byt \in Nat
  <2>1. /\ cmd.kind \in Kinds /\ cmd.by \in Tasks /\ cmd.n \in Counts /\ cmd.n \in Nat /\ cmd.n > 0
        /\ byt \in Nat /\ <<>> \in Seq(Tasks) /\ Len(<<>>) = 0
    <3>1. cmd.kind \in Kinds /\ cmd.by \in Tasks /\ cmd.n \in Counts
      BY <1>1 DEF Typed
    <3>2. byt \in Nat
      BY <1>1 DEF Typed
    <3>3. <<>> \in Seq(Tasks) /\ Len(<<>>) = 0
      BY EmptySeq
    <3>4. cmd.n \in Nat /\ cmd.n > 0
      <4>1. \A n \in Counts : n \in Nat /\ n > 0
        BY HostAssumption
      <4> QED
        BY <3>1, <4>1
    <3> QED
      BY <3>1, <3>2, <3>3, <3>4
  <2>2. /\ medium' \in [Tasks -> Seq(Tasks)] /\ (\A u \in Tasks : u # cmd.by => medium'[u] = medium[u])
        /\ (cmd.kind = "read" => medium' = medium) /\ (cmd.kind = "write" => medium'[cmd.by] = <<>>)
    BY <1>1, <2>1 DEF HostTypeOK
  <2>3. /\ mover' \in MoverType /\ mover' # Nothing /\ mover'.by = cmd.by /\ mover'.kind = cmd.kind /\ mover'.n = cmd.n
        /\ mover'.left = byt /\ mover'.supply = IF cmd.n = 1 THEN 1 ELSE byt
    BY <2>1 DEF MoverType
  <2> QED
    BY <2>1, <2>2, <2>3 DEF hvars
<1>3. HostTypeOK'
  <2>1. byt' \in {0} \cup Counts /\ sts' \subseteq Flags /\ card' \in {"tran", "data", "rcv", "gone"}
    BY <1>1, <1>2 DEF HostTypeOK
  <2>2. {panic, crossed, unstopped, stale, early, erred}' \subseteq BOOLEAN
    BY <1>1, <1>2 DEF HostTypeOK
  <2> QED
    BY <1>1, <1>2, <2>1, <2>2 DEF HostTypeOK, MoverType
<1>4. Stages'
  <2>1. \A u \in Tasks : StageOf(u)'
    BY <1>1, <1>2 DEF Stages, StageOf, Done
  <2> QED
    BY <1>1, <1>2, <2>1 DEF Stages
<1>5. ASSUME ~crossed' PROVE Alone /\ Alone'
  <2>1. Alone /\ Lone
    BY <1>2, <1>5 DEF IInv, Alone
  <2>2. Lone'
    BY <1>2, <2>1 DEF Lone
  <2>3. Commanded' /\ Moved'
    BY <1>1, <1>2, <2>1 DEF Typed, Alone, Commanded, Moved, AloneOf, Stages, StageOf, Lone
  <2>4. ("TXDR" \in sts => fifo = <<>>)' /\ (Len(fifo) <= Depth)'
    BY <1>1, <1>2, <2>1 DEF Typed, Alone, Moved, Commanded
  <2>5. ASSUME NEW u \in Tasks PROVE AloneOf(u)'
    BY <1>1, <1>2, <2>1, <2>5 DEF Typed, Alone, AloneOf, Commanded, Moved, Lone, Stages, StageOf
  <2> QED
    BY <2>1, <2>2, <2>3, <2>4, <2>5 DEF Alone
<1>6. ASSUME ~crossed', ~stale', ~panic' PROVE Clean'
  <2>1. Clean /\ Alone /\ Lone
    BY <1>2, <1>5, <1>6 DEF IInv, Alone
  <2>2. ((\A u \in Tasks : ~Inside(u)) => fifo = <<>> /\ Left = 0)' /\ (cmd # Nothing => fifo = <<>>)'
    BY <1>1, <1>2, <2>1 DEF Typed, Clean, Left, Alone, Commanded, Moved
  <2>3. ASSUME NEW t \in Tasks PROVE CleanOf(t)'
    <3>1. CleanOf(t) /\ StageOf(t) /\ AloneOf(t)
      BY <2>1, <2>3, <1>1 DEF Clean, Stages, Alone
    <3>2. CASE ~Inside(t)
      BY <1>1, <1>2, <2>1, <3>1, <3>2, OfEmpty DEF CleanOf, Filling, Clean, Alone, Commanded
    <3>3. CASE Inside(t)
      <4>1. /\ cmd.by = t /\ task[t].kind = cmd.kind /\ task[t].at = "cd" /\ fifo = <<>> /\ Len(fifo) = 0
            /\ task[t].want = task[t].n /\ byt = task[t].n /\ task[t].n \in Nat
        BY <1>1, <1>2, <2>1, <3>1, <3>3 DEF AloneOf, Alone, Commanded, Clean, Lone, StageOf, Typed
      <4>2. CleanOf(t)!1' /\ CleanOf(t)!2' /\ CleanOf(t)!3' /\ CleanOf(t)!4'
        BY <1>1, <1>2, <3>1, <4>1, OfEmpty DEF CleanOf
      <4>3. CleanOf(t)!5'
        BY <1>1, <1>2, <3>1, <4>1 DEF CleanOf, Left
      <4>4. CleanOf(t)!6'
        BY <1>1, <1>2, <3>1, <4>1 DEF CleanOf, Filling
      <4>5. CleanOf(t)!7'
        BY <1>1, <1>2, <4>1
      <4> QED
        BY <4>2, <4>3, <4>4, <4>5 DEF CleanOf
    <3> QED
      BY <3>2, <3>3
  <2> QED
    BY <2>2, <2>3 DEF Clean
<1>7. ASSUME ~crossed', ~unstopped' PROVE Ready'
  <2>1. Ready /\ Alone /\ Lone
    BY <1>2, <1>5, <1>7 DEF IInv, Alone
  <2>2. (card \in {"data", "rcv"} => (Busy /\ mover.n = 1) \/ \E u \in Tasks : InData(u))'
     BY <1>1, <1>2, <2>1 DEF Typed, Ready, ReadyOf, InData, Alone, AloneOf, Commanded, Moved, Lone,
       Stages, StageOf
  <2>3. ASSUME NEW u \in Tasks PROVE ReadyOf(u)'
     BY <1>1, <1>2, <2>1, <2>3 DEF Typed, Ready, ReadyOf, InData, Alone, AloneOf, Commanded, Moved,
       Lone, Stages, StageOf
  <2> QED
    BY <2>2, <2>3 DEF Ready
<1>8. ASSUME NEW u \in Tasks PROVE ResultOf(u)'
  <2>1. CASE u # cmd.by
    BY <1>1, <1>2, <2>1 DEF IInv, ResultOf, Done
  <2>2. CASE u = cmd.by
    <3>1. ~crossed => ~Done(u, "write")
      BY <1>2, <2>2 DEF IInv, Alone, Commanded, Done
    <3> QED
      BY <1>1, <1>2, <2>2, <3>1 DEF IInv, ResultOf, Done
  <2> QED
    BY <2>1, <2>2
<1>9. PanicsOnlyIfCrossed'
  BY <1>2 DEF IInv, PanicsOnlyIfCrossed
<1> QED
  BY <1>3, <1>4, <1>5, <1>6, <1>7, <1>8, <1>9 DEF IInv

\* A step of a task, by the register it is at.
LEMMA ResponseStep ==
    ASSUME IInv, ~panic, NEW t \in Tasks, Response(t)
    PROVE  IInv'
<1>1. task[t].at = "cd" /\ (Answered \/ NoAnswer) /\ task[t].kind \in Places
  BY DEF Response, IInv, Stages, StageOf
<1>2. CASE Answered /\ "RTO" \notin sts
  BY <1>1, <1>2, PassOnStep DEF Response, ctl, hvars
<1>3. CASE ~(Answered /\ "RTO" \notin sts)
  BY <1>1, <1>3, GiveUpStep DEF Response, ctl
<1> QED
  BY <1>2, <1>3

LEMMA PollStep ==
    ASSUME IInv, ~panic, NEW t \in Tasks, Poll(t)
    PROVE  IInv'
<1>1. CASE "ERR" \in sts
  BY <1>1, GiveUpStep DEF Poll
<1>2. CASE "ERR" \notin sts /\ task[t].want = 0
  <2>1. /\ Goto(t, "drained") /\ sts' = sts \ {"DTO"}
        /\ UNCHANGED <<byt, cmd, mover, fifo, card, medium, panic, hvars>> /\ task[t].at \in {"read", "poll"}
    BY <1>2 DEF Poll, hvars
  <2> QED
    BY <1>2, <2>1, PassOnStep
<1>3. CASE "ERR" \notin sts /\ task[t].want # 0
  <2>1. /\ Goto(t, "read") /\ sts' = sts /\ task[t].at = "poll"
        /\ UNCHANGED <<byt, cmd, mover, fifo, card, medium, panic, hvars>>
    BY <1>3 DEF Poll, hvars
  <2> QED
    BY <2>1, PassOnStep
<1> QED
  BY <1>1, <1>2, <1>3

LEMMA DrainedStep ==
    ASSUME IInv, ~panic, NEW t \in Tasks, Drained(t)
    PROVE  IInv'
<1>1. task[t].n \in Nat
  BY TypedFields DEF IInv, Typed
<1>2. CASE task[t].n > 1
  BY <1>2, FlushStep DEF Drained, ctl
<1>3. CASE task[t].n <= 1
  BY <1>1, <1>3, DoneStep DEF Drained, ctl
<1> QED
  BY <1>1, <1>2, <1>3

LEMMA FlushedStep ==
    ASSUME IInv, ~panic, NEW t \in Tasks, Flush(t)
    PROVE  IInv'
<1>1. task[t].at = "flush" /\ task[t].kind \in Kinds /\ ~Busy /\ UNCHANGED <<ctl, panic, hvars>>
  BY DEF Flush, IInv, Stages, StageOf
<1>2. CASE task[t].kind = "read"
  BY <1>1, <1>2, PassOnStep DEF Flush, ctl
<1>3. CASE task[t].kind = "write"
  BY <1>1, <1>3, DoneStep DEF Flush, ctl, hvars
<1> QED
  BY <1>1, <1>2, <1>3

LEMMA StoppedStep ==
    ASSUME IInv, ~panic, NEW t \in Tasks, Stopped(t)
    PROVE  IInv'
<1>1. task[t].at = "stopped" /\ (Answered \/ NoAnswer) /\ UNCHANGED <<ctl, panic, hvars>>
  BY DEF Stopped
<1>2. CASE Answered /\ "RTO" \notin sts
  BY <1>1, <1>2, DoneStep DEF Stopped, ctl, hvars
<1>3. CASE ~(Answered /\ "RTO" \notin sts)
  <2>1. Finish(t, "fail") /\ (NoAnswer \/ (Answered /\ "RTO" \in sts))
    BY <1>1, <1>3 DEF Stopped
  <2> QED
    BY <1>1, <2>1, NotStoppedStep
<1> QED
  BY <1>2, <1>3

LEMMA FillStep ==
    ASSUME IInv, ~panic, NEW t \in Tasks, Fill(t)
    PROVE  IInv'
<1>1. task[t].at = "fill"
  BY DEF Fill
<1>2. CASE "ERR" \in sts
  BY <1>1, <1>2, GiveUpStep DEF Fill
<1>3. CASE "ERR" \notin sts /\ task[t].want = 0
  <2>1. /\ Goto(t, "dto") /\ sts' = sts
        /\ UNCHANGED <<byt, cmd, mover, fifo, card, medium, panic, hvars>>
    BY <1>3 DEF Fill, hvars
  <2> QED
    BY <1>1, <1>3, <2>1, PassOnStep
<1>4. CASE "ERR" \notin sts /\ task[t].want # 0
  BY <1>1, <1>4, StoreStep DEF Fill, hvars
<1> QED
  BY <1>2, <1>3, <1>4

LEMMA DtoStep ==
    ASSUME IInv, ~panic, NEW t \in Tasks, Dto(t)
    PROVE  IInv'
<1>1. task[t].at = "dto" /\ task[t].n \in Nat /\ sts' = sts \ {"DTO"} /\ early' = (early \/ Busy)
  BY TypedFields DEF IInv, Typed, Dto
<1>2. CASE "ERR" \in sts
  BY <1>1, <1>2, GiveUpStep DEF Dto
<1>3. CASE "ERR" \notin sts /\ task[t].n > 1
  BY <1>1, <1>3, FlushStep DEF Dto
<1>4. CASE "ERR" \notin sts /\ task[t].n <= 1
  BY <1>1, <1>4, DoneStep DEF Dto
<1> QED
  BY <1>1, <1>2, <1>3, <1>4

LEMMA TaskStepKeeps ==
    ASSUME IInv, ~panic, NEW t \in Tasks, TaskStep(t)
    PROVE  IInv'
<1>1. CASE Clear(t, "clear", "cmd") \/ Clear(t, "stop", "stopcmd")
  <2>1. {"clear", "cmd", "stop", "stopcmd"} \subseteq Places
    OBVIOUS
  <2>2. CASE Clear(t, "clear", "cmd")
    BY <2>1, <2>2, ClearStep
  <2>3. CASE Clear(t, "stop", "stopcmd")
    BY <2>1, <2>3, ClearStep
  <2> QED
    BY <1>1, <2>2, <2>3
<1>2. CASE Load(t, "cmd", "cd", task[t].kind)
  <2>1. task[t].kind \in Kinds /\ {"cmd", "cd"} \subseteq Places
    BY <1>2 DEF Load, IInv, Stages, StageOf
  <2> QED
    BY <1>2, <2>1, LoadStep
<1>3. CASE Load(t, "stopcmd", "stopped", "stop")
  BY <1>3, LoadStep
<1>4. CASE Ack(t)
  BY <1>4, PassOnStep DEF Ack
<1>5. CASE Write(t)
  BY <1>5, PassOnStep DEF Write
<1> QED
  BY <1>1, <1>2, <1>3, <1>4, <1>5, WaitStep, CountStep, ResponseStep, TakeStep, PollStep, DrainedStep,
     FlushedStep, StoppedStep, FillStep, DtoStep DEF TaskStep

LEMMA RespondStep ==
    ASSUME IInv, ~panic, Respond
    PROVE  IInv'
<1>1. cmd # Nothing /\ (cmd.kind # "stop" => ~Busy) /\ cmd' = Nothing /\ UNCHANGED <<byt, fifo, task, panic, hvars>>
  BY DEF Respond
<1>2. CASE cmd.kind = "stop" /\ card \in {"data", "rcv"}
  BY <1>1, <1>2, StopStep DEF Respond
<1>3. CASE cmd.kind # "stop" /\ card = "tran"
  BY <1>1, <1>3, AcceptStep DEF Respond
<1>4. CASE ~(cmd.kind = "stop" /\ card \in {"data", "rcv"}) /\ ~(cmd.kind # "stop" /\ card = "tran")
  BY <1>1, <1>4, RefuseStep DEF Respond
<1> QED
  BY <1>2, <1>3, <1>4

LEMMA NextKeeps == IInv /\ [HostNext]_hostvars => IInv'
<1> SUFFICES ASSUME IInv, [HostNext]_hostvars PROVE IInv'
  OBVIOUS
<1>1. CASE UNCHANGED hostvars
  <2>1. HostTypeOK' /\ Stages'
    BY <1>1 DEF hostvars, ctl, hvars, IInv, HostTypeOK, Stages, StageOf, Done
  <2>2. Alone' = Alone
    BY <1>1 DEF hostvars, ctl, hvars, Alone, Lone, Commanded, Moved, AloneOf
  <2>3. Clean' = Clean
    BY <1>1 DEF hostvars, ctl, hvars, Clean, CleanOf, Left, Filling
  <2>4. Ready' = Ready
    BY <1>1 DEF hostvars, ctl, hvars, Ready, ReadyOf, InData
  <2>5. (\A t \in Tasks : ResultOf(t)') /\ PanicsOnlyIfCrossed'
    BY <1>1 DEF hostvars, ctl, hvars, IInv, ResultOf, Done, PanicsOnlyIfCrossed
  <2> QED
    BY <1>1, <2>1, <2>2, <2>3, <2>4, <2>5 DEF IInv, hostvars, hvars
<1>2. CASE HostNext
  <2>1. ~panic
    BY <1>2 DEF HostNext
  <2>2. CASE \E t \in Tasks : Begin(t) \/ TaskStep(t)
    BY <2>1, <2>2, BeginStep, TaskStepKeeps
  <2>3. CASE Move
    BY <2>1, <2>3, SendStep, ReceiveStep, RequestStep DEF Move
  <2> QED
    BY <1>2, <2>1, <2>2, <2>3, RespondStep, EndStep, PullStep DEF HostNext, Controller
<1> QED
  BY <1>1, <1>2

LEMMA InitKeeps == HostInit => IInv
<1> SUFFICES ASSUME HostInit PROVE IInv
  OBVIOUS
<1>1. /\ \A t \in Tasks : /\ task[t].at = "idle" /\ task[t].kind = "none" /\ task[t].n = 0 /\ task[t].want = 0
                          /\ task[t].got = <<>> /\ task[t].res = "none" /\ medium[t] = <<>>
      /\ <<>> \in Seq(Tasks) /\ Len(<<>>) = 0
  BY EmptySeq DEF HostInit, Idle
<1>2. HostTypeOK
  BY <1>1 DEF HostInit, HostTypeOK, Idle
<1>3. Stages
  BY <1>1 DEF HostInit, Stages, StageOf, Done
<1>4. Alone
  BY <1>1 DEF HostInit, Alone, Lone, Commanded, Moved, AloneOf
<1>5. Clean
  BY <1>1, OfEmpty DEF HostInit, Clean, CleanOf, Filling, Left
<1>6. Ready /\ (\A t \in Tasks : ResultOf(t)) /\ PanicsOnlyIfCrossed
  BY <1>1 DEF HostInit, Ready, ReadyOf, InData, ResultOf, Done, PanicsOnlyIfCrossed
<1> QED
  BY <1>2, <1>3, <1>4, <1>5, <1>6 DEF IInv

LEMMA OfWhole ==
    ASSUME NEW t \in Tasks, NEW s \in Seq(Tasks), Of(s, t), Len(s) = task[t].n
    PROVE  s = Whole(t)
BY DEF Of, Whole

LEMMA IInvTrue == IInv => TransfersTrue
<1> SUFFICES ASSUME IInv PROVE TransfersTrue
  OBVIOUS
<1>1. HostTypeOK /\ Typed
  BY TypedFields DEF IInv
<1>2. ReadIsItsOwn
  <2> SUFFICES ASSUME NEW t \in Tasks, Done(t, "read"), ~crossed, ~stale PROVE task[t].got = Whole(t)
    BY DEF ReadIsItsOwn
  <2>1. Of(task[t].got, t) /\ StageOf(t)
    BY DEF IInv, ResultOf, Stages
  <2>2. Len(task[t].got) = task[t].n
    BY <1>1, <2>1 DEF StageOf, Typed, Done
  <2> QED
    BY <1>1, <2>1, <2>2, OfWhole DEF Typed
<1>3. WriteIsDone
  <2> SUFFICES ASSUME NEW t \in Tasks, Done(t, "write"), ~crossed, ~stale, ~early PROVE medium[t] = Whole(t)
    BY DEF WriteIsDone
  <2>1. Len(medium[t]) = task[t].n /\ Of(medium[t], t)
    BY DEF IInv, ResultOf
  <2> QED
    BY <1>1, <2>1, OfWhole DEF Typed
<1>4. RunsOverOnlyIfCrossed /\ ReadyAgain /\ FailsNotAlone
  <2>1. RunsOverOnlyIfCrossed
    BY DEF IInv, Alone, RunsOverOnlyIfCrossed
  <2>2. ReadyAgain
    BY <1>1 DEF IInv, Ready, InData, ReadyAgain, Typed
  <2>3. FailsNotAlone
    BY DEF IInv, ResultOf, FailsNotAlone
  <2> QED
    BY <2>1, <2>2, <2>3
<1> QED
  BY <1>1, <1>2, <1>3, <1>4 DEF IInv, TransfersTrue

\* What the tasks read, write and are told is true in every state, for any number of tasks,
\* any sizes of transfer and of FIFO: sdcard.c and sdhci-xl00500.c take no lock, and
\* everything depends on what one access to a register leaves for the next one.
THEOREM TransfersStayTrue == HostSpec => []TransfersTrue
<1>1. HostInit => IInv
  BY InitKeeps
<1>2. IInv /\ [HostNext]_hostvars => IInv'
  BY NextKeeps
<1>3. IInv => TransfersTrue
  BY IInvTrue
<1> QED
  BY <1>1, <1>2, <1>3, PTL DEF HostSpec

\* The data of a command start with flags and a FIFO that are clear: __transfer_command()
\* clears the flags, and nothing does that for the FIFO.
THEOREM TransfersStartClean == HostSpec => [][StartsClean]_hostvars
<1>1. ASSUME IInv, HostNext, Busy', ~Busy, ~crossed PROVE "DTO" \notin sts /\ (fifo = <<>> \/ stale)
  <2>1. cmd # Nothing /\ ~panic
    <3>1. ~panic
      BY <1>1 DEF HostNext
    <3>2. ~(\E t \in Tasks : Begin(t) \/ TaskStep(t))
       BY <1>1 DEF ctl, Begin, TaskStep, Wait, Count, Clear, Load, Response, Take, Ack, Poll,
         Drained, Flush,
         Stopped, Write, Fill, Dto
    <3>3. ~Move /\ ~End /\ ~Pull
      BY <1>1 DEF Move, End, Pull
    <3> QED
      BY <1>1, <3>1, <3>2, <3>3 DEF HostNext, Controller, Respond
  <2>2. sts = {}
    BY <1>1, <2>1 DEF IInv, Alone, Commanded
  <2>3. fifo = <<>> \/ stale
    BY <1>1, <2>1 DEF IInv, Clean
  <2> QED
    BY <2>2, <2>3
<1>2. IInv /\ [HostNext]_hostvars => [StartsClean]_hostvars
  BY <1>1 DEF StartsClean
<1>3. HostInit => IInv
  BY InitKeeps
<1>4. IInv /\ [HostNext]_hostvars => IInv'
  BY NextKeeps
<1> QED
  BY <1>2, <1>3, <1>4, PTL DEF HostSpec

=============================================================================
