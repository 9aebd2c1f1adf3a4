------------------------------- MODULE RbTree -------------------------------
(* The red-black tree of lib/libx/rbtree.c and include/rbtree_augmented.h,  *)
(* which holds the timers.  One turn of a rebalancing loop is one step.     *)
EXTENDS Integers, Sequences, FiniteSets, SequencesExt

CONSTANTS N, Twins          \* the nodes, and how many have the same key

RbTreeAssumption == N \in Nat /\ Twins \in Nat \ {0}

VARIABLES
    t,          \* the root, its cached leftmost node and the nodes
    op          \* the loop that runs, with its node and parent
vars == <<t, op>>

Nil == 0
Nodes == 1..N
Key(n) == (n + Twins - 1) \div Twins
Opp(d) == IF d = "l" THEN "r" ELSE "l"
Idle == [do |-> "idle", node |-> Nil, parent |-> Nil]
\* A node outside the tree: whatever it holds, it is written before it is read.
Clear == [up |-> Nil, red |-> TRUE, l |-> Nil, r |-> Nil, aug |-> 0]

Init ==
    /\ t = [root |-> Nil, leftmost |-> Nil,
            at |-> [n \in Nodes |-> Clear]]
    /\ op = Idle

Red(tr, n) == n # Nil /\ tr.at[n].red
Side(tr, n, parent) == IF tr.at[parent].r = n THEN "r" ELSE "l"

rb_set_parent(tr, n, p) == IF n = Nil THEN tr ELSE [tr EXCEPT !.at[n].up = p]
rb_set_parent_color(tr, n, p, red) == IF n = Nil THEN tr ELSE [tr EXCEPT !.at[n].up = p, !.at[n].red = red]
__rb_change_child(tr, old, new, parent) ==
    IF parent = Nil THEN [tr EXCEPT !.root = new]
    ELSE IF tr.at[parent].l = old THEN [tr EXCEPT !.at[parent].l = new] ELSE [tr EXCEPT !.at[parent].r = new]
__rb_rotate_set_parents(tr, old, new, red) ==
    LET o == tr.at[old]
        a == [tr EXCEPT !.at[new].up = o.up, !.at[new].red = o.red]
    IN  __rb_change_child(rb_set_parent_color(a, old, new, red), old, new, o.up)

----------------------------------------------------------------------------
(* Walks                                                                    *)

\* The end of the way down from n on the side d.
Deep(tr, n, d) ==
    LET f[k \in 0..N, m \in Nodes] == IF k = 0 \/ tr.at[m][d] = Nil THEN m ELSE f[k - 1, tr.at[m][d]]
    IN  f[N, n]
rb_first(tr) == IF tr.root = Nil THEN Nil ELSE Deep(tr, tr.root, "l")
rb_last(tr) == IF tr.root = Nil THEN Nil ELSE Deep(tr, tr.root, "r")

\* rb_next() for d = "r", rb_prev() for d = "l".
Step(tr, n, d) ==
    LET f[k \in 0..N, m \in Nodes] ==
          LET p == tr.at[m].up IN IF k = 0 \/ p = Nil \/ tr.at[p][d] # m THEN p ELSE f[k - 1, p]
    IN  IF tr.at[n][d] # Nil THEN Deep(tr, tr.at[n][d], Opp(d)) ELSE f[N, n]
rb_next(tr, n) == Step(tr, n, "r")
rb_prev(tr, n) == Step(tr, n, "l")

rb_left_deepest_node(tr, n) ==
    LET f[k \in 0..N, m \in Nodes] ==
          LET c == IF tr.at[m].l # Nil THEN tr.at[m].l ELSE tr.at[m].r IN IF k = 0 \/ c = Nil THEN m ELSE f[k - 1, c]
    IN  f[N, n]
rb_first_postorder(tr) == IF tr.root = Nil THEN Nil ELSE rb_left_deepest_node(tr, tr.root)
rb_next_postorder(tr, n) ==
    LET p == tr.at[n].up IN
    IF p # Nil /\ tr.at[p].l = n /\ tr.at[p].r # Nil THEN rb_left_deepest_node(tr, tr.at[p].r) ELSE p

----------------------------------------------------------------------------
(* The augmented value: the largest key of a subtree                        *)

Largest(S) == CHOOSE x \in S : \A y \in S : y <= x
AugOf(tr, n) == IF n = Nil THEN 0 ELSE tr.at[n].aug
compute(tr, n) == Largest({Key(n), AugOf(tr, tr.at[n].l), AugOf(tr, tr.at[n].r)})
\* RB_DECLARE_CALLBACKS: _propagate, _copy and _rotate.
propagate(tr, n, stop) ==
    LET f[k \in 0..N] ==         \* <<tree, node>> after k turns
          IF k = 0 THEN <<tr, n>>
          ELSE LET prev == f[k - 1]
                   s == prev[1]
                   m == prev[2]
               IN  IF m \in {stop, Nil} \/ s.at[m].aug = compute(s, m) THEN <<s, stop>>
                   ELSE <<[s EXCEPT !.at[m].aug = compute(s, m)], s.at[m].up>>
    IN  f[N][1]
copy(tr, old, new) == [tr EXCEPT !.at[new].aug = tr.at[old].aug]
rotate_copy(tr, old, new) == copy(tr, old, new)
rotate(tr, old, new) ==
    LET c == copy(tr, old, new) IN [c EXCEPT !.at[old].aug = compute(c, old)]

----------------------------------------------------------------------------
(* Insertion                                                                *)

\* The caller's search: the last node on the way and the side to link at.
Place(tr, n) ==
    LET f[k \in 0..N, m \in Nodes] ==
          LET d == IF Key(n) < Key(m) THEN "l" ELSE "r" IN
          IF k = 0 \/ tr.at[m][d] = Nil THEN <<m, d>> ELSE f[k - 1, tr.at[m][d]]
    IN  f[N, tr.root]

rb_link_node(tr, n) ==
    LET parent == IF tr.root = Nil THEN Nil ELSE Place(tr, n)[1]
        a == [tr EXCEPT !.at[n] = [Clear EXCEPT !.up = parent, !.aug = Key(n)]]
    IN  IF parent = Nil THEN [a EXCEPT !.root = n] ELSE [a EXCEPT !.at[parent][Place(tr, n)[2]] = n]

InsertTurn(tr, node, parent) ==
    IF parent = Nil THEN <<rb_set_parent_color(tr, node, Nil, FALSE), Idle>>
    ELSE IF ~Red(tr, parent) THEN <<tr, Idle>>
    ELSE
    LET g == tr.at[parent].up
        d == Side(tr, parent, g)
        e == Opp(d)
        uncle == tr.at[g][e]
    IN  IF Red(tr, uncle)
        THEN LET a == rb_set_parent_color(rb_set_parent_color(tr, uncle, g, FALSE), parent, g, FALSE)
             IN  <<rb_set_parent_color(a, g, a.at[g].up, TRUE), [op EXCEPT !.node = g, !.parent = a.at[g].up]>>
        ELSE
        LET inner == tr.at[parent][e] = node
            mid == tr.at[node][d]
            a == [tr EXCEPT !.at[parent][e] = mid, !.at[node][d] = parent]
            case2 == IF ~inner THEN tr
                     ELSE rotate(rb_set_parent_color(rb_set_parent_color(a, mid, parent, FALSE), parent, node, TRUE), parent, node)
            top == IF inner THEN node ELSE parent
            in == case2.at[top][e]
            b == [case2 EXCEPT !.at[g][d] = in, !.at[top][e] = g]
        IN  <<rotate(__rb_rotate_set_parents(rb_set_parent_color(b, in, g, FALSE), g, top, TRUE), g, top), Idle>>

----------------------------------------------------------------------------
(* Erasure                                                                  *)

\* __rb_erase_augmented(): the tree, and the node to rebalance at or Nil.
Unlinked(tr0, n) ==
    LET tr == IF tr0.leftmost = n THEN [tr0 EXCEPT !.leftmost = rb_next(tr0, n)] ELSE tr0
        v == tr.at[n]
        one == IF v.l = Nil THEN v.r ELSE v.l
        \* no child or one
        a == __rb_change_child(rb_set_parent_color(tr, one, v.up, v.red), n, one, v.up)
        \* two children: the successor takes the place of n
        s == Deep(tr, v.r, "l")
        parent == IF s = v.r THEN s ELSE tr.at[s].up
        child2 == tr.at[s].r
        b == IF s = v.r THEN copy(tr, n, s)
             ELSE propagate(copy(rb_set_parent([tr EXCEPT !.at[parent].l = child2, !.at[s].r = v.r], v.r, s), n, s), parent, s)
        c == __rb_change_child(rb_set_parent([b EXCEPT !.at[s].l = v.l], v.l, s), n, s, v.up)
        e == rb_set_parent_color([c EXCEPT !.at[s].up = v.up, !.at[s].red = v.red], child2, parent, FALSE)
    IN  IF v.l = Nil \/ v.r = Nil
        THEN <<propagate(a, v.up, Nil), IF one = Nil /\ ~v.red THEN v.up ELSE Nil>>
        ELSE <<propagate(e, s, Nil), IF child2 = Nil /\ ~tr.at[s].red THEN parent ELSE Nil>>

____rb_erase_color(tr0, node, parent) ==
    LET d == IF tr0.at[parent].r = node THEN "r" ELSE "l"
        e == Opp(d)
        s0 == tr0.at[parent][e]
        near0 == tr0.at[s0][d]
        a == [tr0 EXCEPT !.at[parent][e] = near0, !.at[s0][d] = parent]
        tr == IF ~Red(tr0, s0) THEN tr0
              ELSE rotate(__rb_rotate_set_parents(rb_set_parent_color(a, near0, parent, FALSE), parent, s0, TRUE), parent, s0)
        s == IF Red(tr0, s0) THEN near0 ELSE s0
        near == tr.at[s][d]
        far == tr.at[s][e]
        flipped == rb_set_parent_color(tr, s, parent, TRUE)
    IN  IF ~Red(tr, far) /\ ~Red(tr, near)
        THEN IF Red(tr, parent) THEN <<[flipped EXCEPT !.at[parent].red = FALSE], Idle>>
             ELSE <<flipped, IF tr.at[parent].up = Nil THEN Idle ELSE [op EXCEPT !.node = parent, !.parent = tr.at[parent].up]>>
        ELSE
        LET in == tr.at[near][e]
            b == [tr EXCEPT !.at[s][d] = in, !.at[near][e] = s, !.at[parent][e] = near]
            case3 == IF Red(tr, far) THEN tr ELSE rotate(rb_set_parent_color(b, in, s, FALSE), s, near)
            top == IF Red(tr, far) THEN s ELSE near
            out == IF Red(tr, far) THEN far ELSE s
            mid == case3.at[top][d]
            c == [case3 EXCEPT !.at[parent][e] = mid, !.at[top][d] = parent]
            f == rb_set_parent(rb_set_parent_color(c, out, top, FALSE), mid, parent)
        IN  <<rotate(__rb_rotate_set_parents(f, parent, top, FALSE), parent, top), Idle>>

----------------------------------------------------------------------------
rb_replace_node(tr, victim, new) ==
    LET v == tr.at[victim]
        a == rb_set_parent(rb_set_parent([tr EXCEPT !.at[new] = [v EXCEPT !.aug = AugOf(tr, victim)]], v.l, new), v.r, new)
    IN  [__rb_change_child(a, victim, new, v.up) EXCEPT !.leftmost = IF @ = victim THEN new ELSE @]

----------------------------------------------------------------------------
Tree == {n \in Nodes : t.root = n \/ t.at[n].up # Nil}

Insert(n) ==
    /\ op = Idle /\ n \notin Tree
    /\ LET a == rb_link_node(t, n)
           leftmost == rb_first(a) = n
       IN  /\ t' = [propagate(a, a.at[n].up, Nil) EXCEPT !.leftmost = IF leftmost THEN n ELSE @]
           /\ op' = [do |-> "insert", node |-> n, parent |-> a.at[n].up]
__rb_insert == op.do = "insert" /\ LET r == InsertTurn(t, op.node, op.parent) IN t' = r[1] /\ op' = r[2]
rb_erase(n) ==
    /\ op = Idle /\ n \in Tree
    /\ LET u == Unlinked(t, n) IN
       t' = [u[1] EXCEPT !.at[n] = Clear] /\ op' = IF u[2] = Nil THEN Idle ELSE [do |-> "erase", node |-> Nil, parent |-> u[2]]
__rb_erase_color == op.do = "erase" /\ LET r == ____rb_erase_color(t, op.node, op.parent) IN t' = r[1] /\ op' = r[2]
Replace(victim, new) ==
    /\ op = Idle /\ victim \in Tree /\ new \notin Tree /\ Key(new) = Key(victim)
    /\ t' = [rb_replace_node(t, victim, new) EXCEPT !.at[victim] = Clear]
    /\ UNCHANGED op

Next ==
    \/ \E n \in Nodes : Insert(n) \/ rb_erase(n) \/ \E new \in Nodes : Replace(n, new)
    \/ __rb_insert \/ __rb_erase_color
Spec == Init /\ [][Next]_vars

----------------------------------------------------------------------------
(* The tree stays balanced and in order, and its walks see every node once. *)

\* The nodes from left to right.
InOrder ==
    LET f[k \in 0..N, n \in Nodes \cup {Nil}] ==
          IF k = 0 \/ n = Nil THEN <<>> ELSE f[k - 1, t.at[n].l] \o <<n>> \o f[k - 1, t.at[n].r]
    IN  f[N, t.root]
Depth ==
    LET f[k \in 0..N, n \in Nodes \cup {Nil}] ==     \* the black nodes on every way down, or -1
          IF k = 0 \/ n = Nil THEN 0
          ELSE LET a == f[k - 1, t.at[n].l]
                   b == f[k - 1, t.at[n].r]
               IN  IF a # b \/ a = -1 THEN -1 ELSE a + (IF t.at[n].red THEN 0 ELSE 1)
    IN  f
Black(n) == Depth[N, n]

TypeOK ==
    /\ t.root \in Nodes \cup {Nil} /\ t.leftmost \in Nodes \cup {Nil}
    /\ t.at \in [Nodes -> [up : Nodes \cup {Nil}, red : BOOLEAN, l : Nodes \cup {Nil}, r : Nodes \cup {Nil}, aug : 0..N]]
    /\ op \in [do : {"idle", "insert", "erase"}, node : Nodes \cup {Nil}, parent : Nodes \cup {Nil}]

\* After every operation the root is black, no red node has a red child, and
\* every way down passes as many black nodes as any other.
Balanced ==
    op = Idle =>
      /\ ~Red(t, t.root)
      /\ \A n \in Tree : t.at[n].red => ~Red(t, t.at[n].l) /\ ~Red(t, t.at[n].r)
      /\ Black(t.root) # -1

\* The loop invariants of the comments: what is inserted is red and the only
\* fault is between it and its parent; what is erased leaves one side of the
\* parent one black node short, and that side has a black node or none on top.
LoopInvariant ==
    /\ op.do = "insert" =>
         /\ Red(t, op.node) /\ op.parent = t.at[op.node].up /\ Black(t.root) # -1
         /\ \A n \in Tree \ {op.node} : (t.at[n].red /\ t.at[n].up # Nil) => ~t.at[t.at[n].up].red
    /\ op.do = "erase" =>
         /\ ~Red(t, op.node) /\ op.parent # Nil
         /\ LET d == IF t.at[op.parent].r = op.node THEN "r" ELSE "l" IN
            Black(op.node) # -1 /\ Black(t.at[op.parent][Opp(d)]) = Black(op.node) + 1

\* The tree is the sequence of its nodes by key, no rebalancing changes it: a
\* new node comes behind those with the same key, another goes or is replaced.
Placed(n) ==
    /\ n \notin ToSet(InOrder)
    /\ LET i == Cardinality({m \in ToSet(InOrder) : Key(m) <= Key(n)}) + 1 IN InOrder' = InsertAt(InOrder, i, n)
KeepsOrder ==
    \/ InOrder' = InOrder
    \/ \E n \in Nodes :
         \/ Placed(n)
         \/ n \in ToSet(InOrder) /\ InOrder' = SelectSeq(InOrder, LAMBDA m : m # n)
         \/ \E new \in Nodes \ ToSet(InOrder) : Key(new) = Key(n) /\ InOrder' = [i \in DOMAIN InOrder |-> IF InOrder[i] = n THEN new ELSE InOrder[i]]

\* The nodes with a parent, and the root, are those in the tree, and every one
\* knows its parent.
Linked ==
    /\ Tree = ToSet(InOrder)
    /\ \A n \in Tree : IF t.at[n].up = Nil THEN t.root = n ELSE n \in {t.at[t.at[n].up].l, t.at[t.at[n].up].r}

Walk(first, next(_)) ==
    LET f[k \in 1..N] == IF k = 1 THEN first ELSE LET prev == f[k - 1] IN IF prev = Nil THEN Nil ELSE next(prev)
    IN  SelectSeq([k \in 1..N |-> f[k]], LAMBDA n : n # Nil)

\* Forwards, backwards and in postorder a walk meets every node once, in
\* postorder both children before their parent; and the cached leftmost node
\* is the first.
WalksAgree ==
    op = Idle =>
      LET post == Walk(rb_first_postorder(t), LAMBDA n : rb_next_postorder(t, n))
          pos(n) == CHOOSE i \in DOMAIN post : post[i] = n
      IN  /\ Walk(rb_first(t), LAMBDA n : rb_next(t, n)) = InOrder
          /\ Walk(rb_last(t), LAMBDA n : rb_prev(t, n)) = Reverse(InOrder)
          /\ ToSet(post) = Tree /\ IsInjective(post)
          /\ \A n \in Tree : t.at[n].up # Nil => pos(n) < pos(t.at[n].up)
          /\ t.leftmost = rb_first(t)

\* The value kept at a node is the largest key below it.
Augmented == op = Idle => \A n \in Tree : t.at[n].aug = compute(t, n)

TreeRight == TypeOK /\ Linked /\ Balanced /\ LoopInvariant /\ WalksAgree /\ Augmented
=============================================================================
