------------------------------- MODULE Memory -------------------------------
(* The page allocator and the slab caches of kmalloc() and kfree():        *)
(* mm/memory.c.  Two of the sixteen caches stand for the rest: objects of  *)
(* "small" (32 to 512 bytes) have their struct Slab and its map in the     *)
(* page itself, "large" (1 KB to 1 MB) takes both from the small caches.   *)
(* A page is 2 MB; requests above 1 MB take whole pages.                   *)
EXTENDS Integers, Sequences, FiniteSets, SequencesExt, FiniteSetsExt

CONSTANTS
    LastPage,       \* the pages of the zone above the kernel are 0 .. LastPage
    PoolCount,      \* objects in the boot slab of the small cache
    SmallCount,     \* objects in a created one: the struct Slab takes room
    LargeCount,     \* objects in a slab of the large cache
    RunLengths      \* lengths of page runs asked for

Caches == {"small", "large"}
Pages == 0 .. LastPage

MemoryAssumption == /\ LastPage \in Nat \ {0} /\ RunLengths \subseteq Nat \ {0}
                  /\ {PoolCount, SmallCount, LargeCount} \subseteq Nat \ {0}

VARIABLES
    mms,        \* bitmap, struct Page and struct Slab by page, counters of zone and caches
    live,       \* the memory that callers hold: [page, index], index -1 for whole pages
    task,       \* the kmalloc() in progress
    fault       \* "none"; "assert" if an assert(0) was hit; "beyond" if the zone was left
vars == <<mms, live, task, fault>>

\* A slab of cache c: the objects in use, and its two counters.
NewSlab(c, count) ==
    [cache |-> c, color_map |-> {}, color_count |-> count,
     free_count |-> count, using_count |-> 0, header |-> <<>>]

NoSlab == NewSlab("none", 0)
FreePage == [used |-> FALSE, number |-> 0, slab |-> FALSE]

pool == [c \in Caches |-> IF c = "small" THEN 0 ELSE 1]

\* slab_init(): one slab for each cache, on the first two pages.
slab_init ==
    [page |-> [p \in Pages |->
                IF p < 2 THEN [used |-> TRUE, number |-> 0, slab |-> TRUE] ELSE FreePage],
     slab |-> [p \in Pages |-> CASE p = 0 -> NewSlab("small", PoolCount)
                                 [] p = 1 -> NewSlab("large", LargeCount)
                                 [] OTHER -> NoSlab],
     using |-> 2, free |-> Cardinality(Pages) - 2,
     list |-> [c \in Caches |-> <<pool[c]>>],
     total_free |-> [c \in Caches |-> IF c = "small" THEN PoolCount ELSE LargeCount],
     total_using |-> [c \in Caches |-> 0]]

Idle == [at |-> "idle", cache |-> "none", page |-> 0, index |-> 0, total |-> 0]

Init ==
    /\ mms = slab_init
    /\ live = {}
    /\ task = Idle
    /\ fault = "none"

----------------------------------------------------------------------------
(* Pages                                                                   *)

Window(p, number) == p .. (p + number - 1)
Free(m, number) ==
    {p \in Pages : Window(p, number) \subseteq Pages
                    /\ \A q \in Window(p, number) : ~m.page[q].used}

\* What alloc_pages() comes to: no zone with that many pages, or a scan that
\* goes on behind the zone (its end is an address, not a page number).
PagesFail(m, number) == m.free < number
PagesBeyond(m, number) == m.free >= number /\ Free(m, number) = {}

alloc_pages(m, number) ==
    LET p == Min(Free(m, number))
    IN  [m EXCEPT !.page = [q \in Pages |->
                    IF q \in Window(p, number)
                    THEN [m.page[q] EXCEPT !.used = TRUE, !.number = number] ELSE m.page[q]],
                  !.using = @ + number, !.free = @ - number]

free_pages(m, p, number) ==
    [m EXCEPT !.page = [q \in Pages |-> IF q \in Window(p, number) THEN FreePage ELSE m.page[q]],
              !.using = @ - number, !.free = @ + number]

----------------------------------------------------------------------------
(* Slabs                                                                   *)

\* The first slab of the cache with a free object, from the pool on.
Roomy(m, c) == SelectInSeq(m.list[c], LAMBDA p : m.slab[p].free_count # 0)

\* The walk over the slabs comes back to the pool: "total_free != 0".
WalkFails(m, c) == m.total_free[c] # 0 /\ Roomy(m, c) = 0

FirstClear(s) == Min((0 .. s.color_count - 1) \ s.color_map)

\* Link a slab of cache c made on page p.
LinkSlab(m, c, p, count, header) ==
    [m EXCEPT !.slab[p] = [NewSlab(c, count) EXCEPT !.header = header],
              !.page[p].slab = TRUE,
              !.total_free[c] = @ + count,
              !.list[c] = Append(@, p)]

\* BIT_SET and the two counters of the slab, then the two of the cache.
TakeObject(m, p, i) ==
    [m EXCEPT !.slab[p].color_map = @ \cup {i},
              !.slab[p].using_count = @ + 1, !.slab[p].free_count = @ - 1]
CountTaken(m, c, total) ==
    [m EXCEPT !.total_free[c] = total - 1, !.total_using[c] = @ + 1]

\* The page of the slab that the next object of cache c comes from.
From(m, c) == m.list[c][Roomy(m, c)]

\* A small kmalloc() that is made inside another one.
NeedsSlab(m, c) == m.total_free[c] = 0
create_small(m) ==
    LET p == Min(Free(m, 1)) IN LinkSlab(alloc_pages(m, 1), "small", p, SmallCount, <<>>)
with_small(m) == IF NeedsSlab(m, "small") THEN create_small(m) ELSE m
take_small(m) ==
    LET n == with_small(m)
        p == From(n, "small")
        i == FirstClear(n.slab[p])
    IN  [mms |-> CountTaken(TakeObject(n, p, i), "small", n.total_free["small"]),
         object |-> [page |-> p, index |-> i]]

\* The page first, then the struct Slab and its map.
create_large(m) ==
    LET p == Min(Free(m, 1))
        struct == take_small(alloc_pages(m, 1))
        map == take_small(struct.mms)
    IN  LinkSlab(map.mms, "large", p, LargeCount, <<struct.object, map.object>>)

\* The pages that kmalloc_create() takes, its own small requests included.
SmallFree(m) == m.total_free["small"]
CreateNeeds(m, c) ==
    IF c = "small" \/ SmallFree(m) >= 2 THEN 1
    ELSE IF SmallFree(m) + SmallCount >= 2 THEN 2 ELSE 3

kmalloc_create(m, c) == IF c = "small" THEN create_small(m) ELSE create_large(m)

----------------------------------------------------------------------------
(* kmalloc                                                                 *)

\* Up to the choice of the object: an interrupt may come before it is marked.
kmalloc_fails(m, c) ==
    \/ WalkFails(m, c)
    \/ NeedsSlab(m, c) /\ PagesFail(m, CreateNeeds(m, c))

kmalloc_find(c) ==
    LET m == IF NeedsSlab(mms, c) THEN kmalloc_create(mms, c) ELSE mms
        p == From(m, c)
    IN  /\ task.at = "idle"
        /\ ~kmalloc_fails(mms, c)
        /\ mms' = m
        /\ task' = [Idle EXCEPT !.at = "take", !.cache = c, !.page = p,
                                !.index = FirstClear(m.slab[p])]
        /\ UNCHANGED <<live, fault>>

kmalloc_take ==
    /\ task.at = "take"
    /\ mms' = TakeObject(mms, task.page, task.index)
    /\ task' = [task EXCEPT !.at = "count", !.total = mms.total_free[task.cache]]
    /\ UNCHANGED <<live, fault>>

kmalloc_count ==
    /\ task.at = "count"
    /\ mms' = CountTaken(mms, task.cache, task.total)
    /\ live' = live \cup {[page |-> task.page, index |-> task.index]}
    /\ task' = Idle
    /\ UNCHANGED fault

kmalloc_assert(c) ==
    /\ task.at = "idle"
    /\ kmalloc_fails(mms, c)
    /\ fault' = "assert"
    /\ UNCHANGED <<mms, live, task>>

\* A request of more than 1 MB.
kmalloc_pages(number) ==
    /\ task.at = "idle"
    /\ IF Free(mms, number) # {}
       THEN /\ mms' = alloc_pages(mms, number)
            /\ live' = live \cup {[page |-> Min(Free(mms, number)), index |-> -1]}
            /\ UNCHANGED fault
       ELSE /\ fault' = IF PagesBeyond(mms, number) THEN "beyond" ELSE "assert"
            /\ UNCHANGED <<mms, live>>
    /\ UNCHANGED task

----------------------------------------------------------------------------
(* kfree                                                                   *)

\* BIT_NOT and the counters.
PutObject(m, o) ==
    LET c == m.slab[o.page].cache
    IN  [m EXCEPT !.slab[o.page].color_map = SymDiff(@, {o.index}),
                  !.slab[o.page].using_count = @ - 1, !.slab[o.page].free_count = @ + 1,
                  !.total_free[c] = @ + 1, !.total_using[c] = @ - 1]

Releasable(m, p) ==
    LET s == m.slab[p]
    IN  /\ s.using_count = 0
        /\ 2 * m.total_free[s.cache] >= 3 * s.color_count
        /\ p # pool[s.cache]

Unlink(m, p) ==
    LET s == m.slab[p]
    IN  [m EXCEPT !.list[s.cache] = SelectSeq(@, LAMBDA q : q # p),
                  !.total_free[s.cache] = @ - s.color_count]
ReleasePage(m, p) == [free_pages(m, p, 1) EXCEPT !.slab[p] = NoSlab]

free_small(m, o) ==
    LET n == PutObject(m, o)
    IN  IF Releasable(n, o.page) THEN ReleasePage(Unlink(n, o.page), o.page) ELSE n

\* A large slab gives back its map, its page and its struct Slab.
kfree_object(m, o) ==
    LET n == PutObject(m, o)
        header == m.slab[o.page].header
    IN  IF header = <<>> \/ ~Releasable(n, o.page) THEN free_small(m, o)
        ELSE LET unmapped == free_small(Unlink(n, o.page), header[2])
             IN  free_small(ReleasePage(unmapped, o.page), header[1])

kfree(o) ==
    /\ task.at = "idle"
    /\ o \in live
    /\ mms' = IF o.index = -1 THEN free_pages(mms, o.page, mms.page[o.page].number)
              ELSE kfree_object(mms, o)
    /\ live' = live \ {o}
    /\ UNCHANGED <<task, fault>>

Next ==
    /\ fault = "none"
    /\ \/ \E c \in Caches : kmalloc_find(c) \/ kmalloc_assert(c)
       \/ kmalloc_take \/ kmalloc_count
       \/ \E number \in RunLengths : kmalloc_pages(number)
       \/ \E o \in live : kfree(o)

----------------------------------------------------------------------------
(* What the allocator owes its callers.                                    *)

Object == [page : Pages, index : -1 .. PoolCount + LargeCount]
Listed(c) == {mms.list[c][n] : n \in DOMAIN mms.list[c]}
Slabs == Listed("small") \cup Listed("large")
Headers == UNION {{mms.slab[p].header[n] : n \in DOMAIN mms.slab[p].header} : p \in Slabs}
RunPages == UNION {Window(o.page, mms.page[o.page].number) : o \in {x \in live : x.index = -1}}

TypeOK ==
    /\ live \subseteq Object
    /\ \A c \in Caches : /\ mms.list[c] \in Seq(Pages)
                         /\ mms.total_free[c] \in Nat /\ mms.total_using[c] \in Nat
    /\ task.at \in {"idle", "take", "count"}
    /\ fault \in {"none", "assert", "beyond"}

\* The counters of the zone, of each slab and of each cache say what the
\* bitmaps say, through every creation and release of a slab by the other
\* cache's kmalloc() and kfree().
CountsOK ==
    /\ mms.using = Cardinality({p \in Pages : mms.page[p].used})
    /\ mms.free = Cardinality(Pages) - mms.using
    /\ task.at = "idle" =>
        \A c \in Caches :
            /\ \A p \in Listed(c) :
                /\ mms.slab[p].using_count = Cardinality(mms.slab[p].color_map)
                /\ mms.slab[p].free_count = mms.slab[p].color_count - mms.slab[p].using_count
            /\ mms.total_free[c] = MapThenSumSet(LAMBDA p : mms.slab[p].free_count, Listed(c))
            /\ mms.total_using[c] = MapThenSumSet(LAMBDA p : mms.slab[p].using_count, Listed(c))

\* Every object marked in a slab is held by one caller or is the struct Slab or
\* the map of one other slab, and every used page is a slab or part of one run
\* that a caller holds: nothing is handed out twice, nothing is lost.
NothingDoubledOrLost ==
    task.at = "idle" =>
        /\ {[page |-> p, index |-> i] : p \in Slabs, i \in 0 .. PoolCount + LargeCount}
             \cap (live \cup Headers)
           = {o \in [page : Slabs, index : 0 .. PoolCount + LargeCount] :
                                            o.index \in mms.slab[o.page].color_map}
        /\ \A o \in live \cup Headers : o.index # -1 => o.page \in Slabs
        /\ live \cap Headers = {}
        /\ {p \in Pages : mms.page[p].used} = Slabs \cup RunPages
        /\ Slabs \cap RunPages = {}
        /\ Cardinality(RunPages) =
             MapThenSumSet(LAMBDA o : mms.page[o.page].number, {x \in live : x.index = -1})

\* A cache keeps at most one created slab empty, whatever the order in which
\* its objects are freed; the pages of all others go back to the zone.
OneEmptySlab ==
    \A c \in Caches :
        Cardinality({p \in Listed(c) \ {pool[c]} : mms.slab[p].using_count = 0}) <= 1

\* What the assert(0) at the end of kmalloc() says cannot happen: the walk over
\* the slabs finds none with a free object although total_free is not 0.
WalkFindsObject == task.at = "idle" => \A c \in Caches : ~WalkFails(mms, c)

MemoryKept == TypeOK /\ CountsOK /\ NothingDoubledOrLost /\ OneEmptySlab /\ WalkFindsObject
=============================================================================
