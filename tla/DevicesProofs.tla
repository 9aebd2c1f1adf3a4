---------------------------- MODULE DevicesProofs ----------------------------
(***************************************************************************)
(* The table of devices for any actors, interrupts and devices: what two   *)
(* actors cannot undo, however the tasks are preempted.                    *)
(***************************************************************************)
EXTENDS Devices, FiniteSetTheorems, SequenceTheorems, WellFoundedInduction, TLAPS

-----------------------------------------------------------------------------
(* The inductive invariant.                                                *)

Registering == {"named", "failed", "free name", "not in tree", "in tree"}

Types ==
    /\ TypeOK
    /\ list \in Seq(Devs)
    /\ dev \in [Actors -> Devs \cup {None}]

\* A device is listed once and has memory while it is listed or in the tree, and
\* two with memory have different names unless that has been noted.
LiveInv ==
    /\ \A i, j \in DOMAIN list : list[i] = list[j] => i = j
    /\ Listed \subseteq live
    /\ dir \subseteq live
    /\ \A d, e \in live : d # e /\ name[d] = name[e] => d \in shared

\* What an actor works on is its own unless it has shared its name, and while it
\* is being registered nobody else knows it.
OwnInv ==
    \A a \in Actors :
        /\ at[a] \in Registering => Owner(dev[a]) = a /\ dev[a] \in live \ Listed
        /\ at[a] \in Registering \ {"in tree"} => dev[a] \notin dir
        /\ at[a] = "listed" => Owner(dev[a]) = a
        /\ at[a] # "idle" => dev[a] = None \/ Owner(dev[a]) = a \/ dev[a] \in shared

\* Once a name was found to be free, only a device of another actor can be listed
\* under it, and only if this actor is a task.
NameInv ==
    \A a \in Actors : at[a] \in {"free name", "not in tree", "in tree"} =>
        \A d \in Listed : name[d] = name[dev[a]] => Owner(d) # a /\ a \in Tasks

\* Interrupts do not nest.
IrqInv == \A i, j \in Irqs : i # j => at[i] = "idle" \/ at[j] = "idle"

\* Where a device is that has not shared its name, by what its owner is doing.
PlaceInv ==
    \A a \in Actors : dev[a] # None /\ dev[a] \notin shared =>
        /\ at[a] = "in tree" => dev[a] \in dir
        /\ at[a] \in {"listed", "found", "leaving"} => dev[a] \in dir \cap Listed
        /\ at[a] \in {"found", "leaving"} => heard[dev[a]] # "none"
        /\ at[a] = "unlinked" => dev[a] \in dir \ Listed
        /\ at[a] # "gone"

\* Whose owner is doing something else is in the tree and in the table or in
\* neither; and the chain has heard of a listed one, or is about to.
RestInv ==
    \A d \in Devs \ shared :
        /\ (at[Owner(d)] # "idle" /\ dev[Owner(d)] = d) \/ (d \in dir <=> d \in Listed)
        /\ d \in Listed => heard[d] # "none" \/ (at[Owner(d)] = "listed" /\ dev[Owner(d)] = d)

\* Memory that is about to be freed is nobody else's.
FreeInv ==
    /\ ~broken => \A a \in Actors : at[a] = "unlinked" =>
        /\ dev[a] \in live \ Listed
        /\ \A b \in Actors \ {a} : at[b] = "unlinked" \/ at[b] \in Registering => dev[b] # dev[a]
    /\ broken => shared # {}

IInv ==
    /\ Types /\ LiveInv /\ OwnInv /\ NameInv /\ IrqInv
    /\ TwinsOnlyByPreemption /\ PlaceInv /\ RestInv /\ FreeInv

-----------------------------------------------------------------------------
(* Sequences of devices, and the names that are taken.                     *)

LEMMA DevFacts ==
    /\ None \notin Devs
    /\ \A d \in Devs : Owner(d) \in Actors
BY DEF None, Devs, Owner

\* What is appended is on the list, and nothing else is new there.
LEMMA AppendListed ==
    ASSUME NEW s \in Seq(Devs), NEW e \in Devs
    PROVE  /\ Append(s, e) \in Seq(Devs)
           /\ ToSet(Append(s, e)) = ToSet(s) \cup {e}
           /\ DOMAIN s = 1 .. Len(s) /\ Len(s) \in Nat
           /\ DOMAIN Append(s, e) = 1 .. Len(s) + 1
           /\ \A i \in 1 .. Len(s) : Append(s, e)[i] = s[i]
           /\ Append(s, e)[Len(s) + 1] = e
<1>1. /\ Append(s, e) \in Seq(Devs)
      /\ DOMAIN s = 1 .. Len(s) /\ Len(s) \in Nat
      /\ DOMAIN Append(s, e) = 1 .. Len(s) + 1
      /\ \A i \in 1 .. Len(s) : Append(s, e)[i] = s[i]
      /\ Append(s, e)[Len(s) + 1] = e
  BY LenProperties, AppendProperties
<1>2. ToSet(Append(s, e)) \subseteq ToSet(s) \cup {e}
  <2> SUFFICES ASSUME NEW i \in 1 .. Len(s) + 1
               PROVE  Append(s, e)[i] \in ToSet(s) \cup {e}
    BY <1>1 DEF ToSet
  <2>1. CASE i = Len(s) + 1
    BY <1>1, <2>1
  <2>2. CASE i \in 1 .. Len(s)
    BY <1>1, <2>2 DEF ToSet
  <2> QED
    BY <1>1, <2>1, <2>2
<1>3. ToSet(s) \cup {e} \subseteq ToSet(Append(s, e))
  <2>1. e \in ToSet(Append(s, e))
    <3>1. Len(s) + 1 \in DOMAIN Append(s, e)
      BY <1>1
    <3> QED
      BY <1>1, <3>1 DEF ToSet
  <2>2. ASSUME NEW i \in DOMAIN s PROVE s[i] \in ToSet(Append(s, e))
    <3>1. i \in DOMAIN Append(s, e) /\ Append(s, e)[i] = s[i]
      BY <1>1
    <3> QED
      BY <3>1 DEF ToSet
  <2> QED
    BY <2>1, <2>2 DEF ToSet
<1> QED
  BY <1>1, <1>2, <1>3

\* What is removed is not on the list any more; the others keep their order.
LEMMA RemoveListed ==
    ASSUME NEW s \in Seq(Devs), NEW n \in DOMAIN s,
           \A i, j \in DOMAIN s : s[i] = s[j] => i = j
    PROVE  LET r == RemoveAt(s, n)
               old(i) == IF i < n THEN i ELSE i + 1
           IN  /\ r \in Seq(Devs)
               /\ \A i \in DOMAIN r : old(i) \in DOMAIN s /\ r[i] = s[old(i)]
               /\ \A i, j \in DOMAIN r : i < j => old(i) < old(j)
               /\ \A i, j \in DOMAIN r : r[i] = r[j] => i = j
               /\ ToSet(r) = ToSet(s) \ {s[n]}
<1> DEFINE r == RemoveAt(s, n)
           a == SubSeq(s, 1, n - 1)
           b == SubSeq(s, n + 1, Len(s))
           old(i) == IF i < n THEN i ELSE i + 1
<1>1. Len(s) \in Nat /\ DOMAIN s = 1 .. Len(s) /\ n \in 1 .. Len(s)
  BY LenProperties
<1>2. /\ a \in Seq(Devs) /\ Len(a) = n - 1
      /\ \A i \in 1 .. n - 1 : a[i] = s[i]
  <2>1. \A i \in 1 .. n - 1 : s[i] \in Devs
    BY <1>1, ElementOfSeq
  <2>2. 1 \in Int /\ n - 1 \in Int
    BY <1>1
  <2>3. /\ a \in Seq(Devs)
        /\ Len(a) = IF 1 <= n - 1 THEN n - 1 - 1 + 1 ELSE 0
        /\ \A i \in 1 .. n - 1 - 1 + 1 : a[i] = s[1 + i - 1]
    BY <2>1, <2>2, SubSeqProperties
  <2> HIDE DEF a
  <2> QED
    BY <1>1, <2>3
<1>3. /\ b \in Seq(Devs) /\ Len(b) = Len(s) - n
      /\ \A i \in 1 .. Len(s) - n : b[i] = s[n + i]
  <2>1. \A i \in n + 1 .. Len(s) : s[i] \in Devs
    BY <1>1, ElementOfSeq
  <2>2. n + 1 \in Int /\ Len(s) \in Int
    BY <1>1
  <2>3. /\ b \in Seq(Devs)
        /\ Len(b) = IF n + 1 <= Len(s) THEN Len(s) - (n + 1) + 1 ELSE 0
        /\ \A i \in 1 .. Len(s) - (n + 1) + 1 : b[i] = s[n + 1 + i - 1]
    BY <2>1, <2>2, SubSeqProperties
  <2> HIDE DEF b
  <2>4. Len(b) = Len(s) - n
    BY <1>1, <2>3
  <2>5. ASSUME NEW i \in 1 .. Len(s) - n PROVE b[i] = s[n + i]
    <3>1. i \in 1 .. Len(s) - (n + 1) + 1 /\ n + 1 + i - 1 = n + i
      BY <1>1
    <3> QED
      BY <2>3, <3>1
  <2> QED
    BY <2>3, <2>4, <2>5
<1>4. r = a \o b
  BY DEF RemoveAt
<1> HIDE DEF r, a, b
<1>5. /\ r \in Seq(Devs) /\ DOMAIN r = 1 .. Len(s) - 1
      /\ \A i \in 1 .. Len(s) - 1 : r[i] = s[old(i)]
  <2>1. /\ r \in Seq(Devs) /\ Len(r) = Len(a) + Len(b)
        /\ \A i \in 1 .. Len(a) + Len(b) : r[i] = IF i <= Len(a) THEN a[i] ELSE b[i - Len(a)]
    <3>1. /\ a \o b \in Seq(Devs) /\ Len(a \o b) = Len(a) + Len(b)
          /\ \A i \in 1 .. Len(a) + Len(b) : (a \o b)[i] = IF i <= Len(a) THEN a[i] ELSE b[i - Len(a)]
      <4>1. a \in Seq(Devs) /\ b \in Seq(Devs)
        BY <1>2, <1>3
      <4> QED
        BY <4>1, ConcatProperties
    <3> QED
      BY <1>4, <3>1
  <2>2. Len(r) = Len(s) - 1 /\ DOMAIN r = 1 .. Len(s) - 1
    BY <1>1, <1>2, <1>3, <2>1, LenProperties
  <2>3. ASSUME NEW i \in 1 .. Len(s) - 1 PROVE r[i] = s[old(i)]
    <3>1. CASE i < n
      <4>1. i \in 1 .. n - 1 /\ i <= Len(a) /\ i \in 1 .. Len(a) + Len(b)
        BY <1>1, <1>2, <1>3, <3>1
      <4> QED
        BY <1>2, <2>1, <3>1, <4>1
    <3>2. CASE ~(i < n)
      <4>1. i - Len(a) \in 1 .. Len(s) - n /\ ~(i <= Len(a)) /\ i \in 1 .. Len(a) + Len(b)
            /\ n + (i - Len(a)) = i + 1
        BY <1>1, <1>2, <1>3, <3>2
      <4> QED
        BY <1>3, <2>1, <3>2, <4>1
    <3> QED
      BY <3>1, <3>2
  <2> QED
    BY <2>1, <2>2, <2>3
<1>6. /\ \A i \in DOMAIN r : old(i) \in DOMAIN s /\ r[i] = s[old(i)]
      /\ \A i, j \in DOMAIN r : i < j => old(i) < old(j)
      /\ \A i, j \in DOMAIN r : old(i) = old(j) => i = j
      /\ \A i \in DOMAIN r : old(i) # n
  BY <1>1, <1>5
<1>7. \A k \in DOMAIN s : k # n => \E i \in DOMAIN r : old(i) = k
  <2> SUFFICES ASSUME NEW k \in DOMAIN s, k # n PROVE \E i \in DOMAIN r : old(i) = k
    OBVIOUS
  <2>1. CASE k < n
    <3>1. k \in DOMAIN r /\ old(k) = k
      BY <1>1, <1>5, <2>1
    <3> QED
      BY <3>1
  <2>2. CASE k > n
    <3>1. k - 1 \in DOMAIN r /\ old(k - 1) = k
      BY <1>1, <1>5, <2>2
    <3> QED
      BY <3>1
  <2> QED
    BY <1>1, <2>1, <2>2
<1> HIDE DEF old
<1>8. \A i, j \in DOMAIN r : r[i] = r[j] => i = j
  BY <1>6
<1>9. ToSet(r) = ToSet(s) \ {s[n]}
  <2>1. ASSUME NEW i \in DOMAIN r PROVE r[i] \in ToSet(s) \ {s[n]}
    BY <1>6 DEF ToSet
  <2>2. ASSUME NEW k \in DOMAIN s, s[k] # s[n] PROVE s[k] \in ToSet(r)
    <3>1. PICK i \in DOMAIN r : old(i) = k
      BY <1>7, <2>2
    <3>2. s[k] = r[i]
      BY <1>6, <3>1
    <3> QED
      BY <3>2 DEF ToSet
  <2> QED
    BY <2>1, <2>2 DEF ToSet
<1> QED
  BY <1>5, <1>6, <1>8, <1>9 DEF r, old

\* A set of naturals with a bound has a greatest element, and one that is not
\* empty a least.
LEMMA LeastOf ==
    ASSUME NEW S \in SUBSET Nat, S # {}
    PROVE  Min(S) \in S
<1> DEFINE R == OpToRel(<, Nat)
<1>1. IsWellFoundedOn(R, Nat)
  BY NatLessThanWellFounded
<1>2. PICK n \in S : \A m \in S : ~(<<m, n>> \in R)
  BY <1>1, WFMin, Zenon
<1>3. \A m \in S : ~(m < n)
  BY <1>2 DEF OpToRel
<1>4. \A m \in S : n <= m
  BY <1>3
<1> QED
  BY <1>4 DEF Min

LEMMA GreatestOf ==
    ASSUME NEW b \in Nat, NEW S \in SUBSET (1 .. b), S # {}
    PROVE  Max(S) \in S
<1> DEFINE R == OpToRel(<, Nat)
           U == {b - m : m \in S}
<1>1. IsWellFoundedOn(R, Nat)
  BY NatLessThanWellFounded
<1>2. U \in SUBSET Nat /\ U # {}
  <2>1. \A m \in S : b - m \in Nat
    OBVIOUS
  <2>2. PICK m \in S : TRUE
    OBVIOUS
  <2>3. b - m \in U
    OBVIOUS
  <2> QED
    BY <2>1, <2>3
<1>3. PICK u \in U : \A m \in U : ~(<<m, u>> \in R)
  <2> HIDE DEF U
  <2> QED
    BY <1>1, <1>2, WFMin, Zenon
<1>4. PICK n \in S : u = b - n
  BY <1>3
<1>5. ASSUME NEW m \in S PROVE n >= m
  <2>1. b - m \in U /\ b - m \in Nat /\ u \in Nat
    BY <1>2, <1>3
  <2>2. ~(b - m < u)
    BY <1>3, <2>1 DEF OpToRel
  <2> QED
    BY <1>4, <2>2
<1> QED
  BY <1>5 DEF Max

\* search_device() returns a listed device of the name.
LEMMA FoundByName ==
    ASSUME Types, NEW id
    PROVE  /\ device_exist(id) <=> \E d \in Listed : name[d] = id
           /\ device_exist(id) => search_device(id) \in Listed /\ name[search_device(id)] = id
           /\ ~device_exist(id) => search_device(id) = None
<1>1. Len(list) \in Nat /\ DOMAIN list = 1 .. Len(list)
  BY LenProperties DEF Types
<1>2. device_exist(id) <=> \E d \in Listed : name[d] = id
  BY DEF device_exist, Named, Listed, ToSet
<1>3. ASSUME device_exist(id)
      PROVE  search_device(id) \in Listed /\ name[search_device(id)] = id
  <2>1. Named(id) \in SUBSET (1 .. Len(list)) /\ Named(id) # {}
    BY <1>1, <1>3 DEF Named, device_exist
  <2>2. Max(Named(id)) \in Named(id)
    BY <1>1, <2>1, GreatestOf
  <2>3. search_device(id) = list[Max(Named(id))]
    BY <1>3 DEF search_device
  <2> QED
    BY <2>2, <2>3 DEF Named, Listed, ToSet
<1> QED
  BY <1>2, <1>3 DEF search_device

\* There is always a name left, as there are more numbers than devices.
LEMMA NameLeft ==
    ASSUME DevicesAssumption, Types
    PROVE  LET id == Min({i \in Ids : ~device_exist(i)})
           IN  id \in Ids /\ ~device_exist(id)
<1> DEFINE c == Cardinality(Devs)
           free == {i \in Ids : ~device_exist(i)}
<1>1. IsFiniteSet(Devs) /\ c \in Nat
  <2>1. Each \in Int /\ 1 \in Int
    BY DEF DevicesAssumption
  <2>2. IsFiniteSet(1 .. Each) /\ IsFiniteSet(Actors)
    BY <2>1, FS_Interval DEF DevicesAssumption
  <2>3. IsFiniteSet(Devs)
    BY <2>2, FS_Product DEF Devs
  <2> QED
    BY <2>3, FS_CardinalityType
<1>2. IsFiniteSet(Ids) /\ Cardinality(Ids) = c + 1
  <2>1. 0 \in Int /\ c \in Int /\ ~(0 > c) /\ c - 0 + 1 = c + 1
    BY <1>1
  <2> QED
    BY <2>1, FS_Interval DEF Ids
<1>3. ASSUME free = {} PROVE FALSE
  <2> DEFINE f == [i \in Ids |-> CHOOSE d \in Listed : name[d] = i]
  <2>1. \A i \in Ids : f[i] \in Listed /\ name[f[i]] = i
    BY <1>3, FoundByName
  <2>2. Listed \subseteq Devs
    BY DEF Types, TypeOK
  <2>3. f \in [Ids -> Devs]
    BY <2>1, <2>2
  <2> HIDE DEF f
  <2>4. c < Cardinality(Ids)
    BY <1>1, <1>2
  <2>5. \E x, y \in Ids : x # y /\ f[x] = f[y]
    BY <1>1, <1>2, <2>3, <2>4, FS_PigeonHole
  <2> QED
    BY <2>1, <2>5
<1>4. free \in SUBSET Nat
  BY <1>1 DEF Ids
<1>5. Min(free) \in free
  BY <1>3, <1>4, LeastOf
<1> QED
  BY <1>5

-----------------------------------------------------------------------------
(* The invariant holds at the beginning and every step keeps it.           *)

\* The actor that takes a step moves, and no interrupt is inside of anything.
LEMMA StepFacts ==
    ASSUME Types, IrqInv, NEW a \in Actors, NEW from, NEW to \in Places, Step(a, from, to)
    PROVE  /\ at[a] = from
           /\ at' \in [Actors -> Places]
           /\ at'[a] = to
           /\ \A b \in Actors \ {a} : at'[b] = at[b]
           /\ \A b \in Irqs \ {a} : at[b] = "idle"
           /\ IrqInv'
<1>1. /\ at[a] = from
      /\ at' \in [Actors -> Places]
      /\ at'[a] = to
      /\ \A b \in Actors \ {a} : at'[b] = at[b]
      /\ \A b \in Irqs \ {a} : at[b] = "idle"
  BY DEF Types, TypeOK, Step, Runs
<1>2. IrqInv'
  BY <1>1 DEF IrqInv, Actors
<1> QED
  BY <1>1, <1>2

LEMMA InitIInv == ASSUME DevicesAssumption, Init PROVE IInv
<1>1. Listed = {} /\ DOMAIN list = {} /\ list \in Seq(Devs)
  BY EmptySeq DEF Init, Listed, ToSet
<1>2. 0 \in Ids
  <2>1. IsFiniteSet(Devs)
    <3>1. Each \in Int /\ 1 \in Int
      BY DEF DevicesAssumption
    <3>2. IsFiniteSet(1 .. Each) /\ IsFiniteSet(Actors)
      BY <3>1, FS_Interval DEF DevicesAssumption
    <3> QED
      BY <3>2, FS_Product DEF Devs
  <2>2. Cardinality(Devs) \in Nat
    BY <2>1, FS_CardinalityType
  <2> QED
    BY <2>2 DEF Ids
<1>3. Types
  BY <1>1, <1>2 DEF Init, Types, TypeOK, Places
<1>4. LiveInv /\ IrqInv /\ TwinsOnlyByPreemption
  BY <1>1 DEF Init, LiveInv, IrqInv, Actors, TwinsOnlyByPreemption
<1>5. OwnInv /\ NameInv /\ FreeInv
  BY <1>1 DEF Init, OwnInv, NameInv, FreeInv, Registering
<1>6. PlaceInv /\ RestInv
  BY <1>1 DEF Init, PlaceInv, RestInv
<1> QED
  BY <1>3, <1>4, <1>5, <1>6 DEF IInv

\* Two parts of the invariant for steps that change the place of one actor only.
LEMMA RestKept ==
    ASSUME RestInv, NEW a \in Actors, \A b \in Actors \ {a} : at'[b] = at[b], dev' = dev,
           NEW d \in Devs, d \notin shared, d # dev[a], Owner(d) \in Actors,
           d \in dir' <=> d \in dir, d \in Listed' <=> d \in Listed,
           heard[d] # "none" => heard'[d] # "none"
    PROVE  /\ (at'[Owner(d)] # "idle" /\ dev'[Owner(d)] = d) \/ (d \in dir' <=> d \in Listed')
           /\ d \in Listed' => heard'[d] # "none" \/ (at'[Owner(d)] = "listed" /\ dev'[Owner(d)] = d)
<1>1. /\ (at[Owner(d)] # "idle" /\ dev[Owner(d)] = d) \/ (d \in dir <=> d \in Listed)
      /\ d \in Listed => heard[d] # "none" \/ (at[Owner(d)] = "listed" /\ dev[Owner(d)] = d)
  BY DEF RestInv
<1>2. CASE Owner(d) = a
  BY <1>1, <1>2
<1>3. CASE Owner(d) # a
  BY <1>1, <1>3
<1> QED
  BY <1>2, <1>3

LEMMA FreeKept ==
    ASSUME FreeInv, ~broken, ~broken', UNCHANGED <<dev, live>>,
           \A b \in Actors : at'[b] = "unlinked" => at[b] = "unlinked" /\ dev[b] \notin Listed',
           \A b \in Actors : at'[b] \in Registering => at[b] \in Registering
    PROVE  FreeInv'
<1>1. ASSUME NEW b \in Actors, at'[b] = "unlinked"
      PROVE  /\ dev'[b] \in live' \ Listed'
             /\ \A c \in Actors \ {b} : at'[c] = "unlinked" \/ at'[c] \in Registering => dev'[c] # dev'[b]
  <2>1. at[b] = "unlinked" /\ dev[b] \in live /\ dev[b] \notin Listed'
    BY <1>1 DEF FreeInv
  <2>2. ASSUME NEW c \in Actors \ {b}, at'[c] = "unlinked" \/ at'[c] \in Registering
        PROVE  dev[c] # dev[b]
    <3>1. at[c] = "unlinked" \/ at[c] \in Registering
      BY <2>2
    <3> QED
      BY <2>1, <3>1 DEF FreeInv
  <2> QED
    BY <2>1, <2>2
<1> QED
  BY <1>1 DEF FreeInv

\* The name that alloc_device_name() finds is not in the table, but may be in memory.
LEMMA AllocIInv ==
    ASSUME DevicesAssumption, IInv, ~broken, NEW a \in Actors, NEW d \in Devs, alloc_device_name(a, d)
    PROVE  IInv'
<1>1. /\ at[a] = "idle" /\ at' \in [Actors -> Places] /\ at'[a] = "named"
      /\ \A b \in Actors \ {a} : at'[b] = at[b]
      /\ \A b \in Irqs \ {a} : at[b] = "idle"
      /\ IrqInv'
  <2>1. Step(a, "idle", "named") /\ "named" \in Places
    BY DEF alloc_device_name, Places
  <2> QED
    BY <2>1, StepFacts DEF IInv
<1>2. list' = list /\ dir' = dir /\ broken' = broken /\ Listed' = Listed
  BY DEF alloc_device_name, Listed
<1>3. /\ at \in [Actors -> Places] /\ dev \in [Actors -> Devs \cup {None}] /\ None \notin Devs
      /\ name \in [Devs -> Ids] /\ heard \in [Devs -> {"none", "add", "remove"}]
      /\ Listed \subseteq Devs /\ dir \subseteq Devs /\ live \subseteq Devs /\ shared \subseteq Devs
      /\ \A b \in Actors : dev[b] \in Devs \/ (dev[b] = None /\ at[b] \in {"idle", "gone"})
      /\ \A e \in Devs : Owner(e) \in Actors
      /\ \A i \in DOMAIN list : list[i] \in Listed

  BY DevFacts DEF IInv, Types, TypeOK, Listed, ToSet
<1>4. /\ d \notin live /\ Owner(d) = a /\ live' = live \cup {d}
      /\ dev' \in [Actors -> Devs \cup {None}] /\ dev'[a] = d /\ \A b \in Actors \ {a} : dev'[b] = dev[b]
      /\ heard' \in [Devs -> {"none", "add", "remove"}] /\ \A e \in Devs \ {d} : heard'[e] = heard[e]
      /\ name' \in [Devs -> Ids] /\ \A e \in Devs \ {d} : name'[e] = name[e]
  <2>1. name' = [name EXCEPT ![d] = Min({id \in Ids : ~device_exist(id)})]
    BY DEF alloc_device_name
  <2>2. Min({id \in Ids : ~device_exist(id)}) \in Ids
    BY NameLeft DEF IInv
  <2> QED
    BY <1>3, <2>1, <2>2 DEF alloc_device_name
<1>5. /\ shared \subseteq shared' /\ shared' \subseteq Devs
      /\ \A e \in live : name[e] = name'[d] => e \in shared' /\ d \in shared'
  BY <1>3 DEF alloc_device_name
<1>6. Types'
  BY <1>1, <1>2, <1>3, <1>4, <1>5 DEF IInv, Types, TypeOK
<1>7. LiveInv'
  BY <1>2, <1>3, <1>4, <1>5 DEF IInv, LiveInv
<1>8. OwnInv'
  <2>1. /\ at'[a] \in Registering => Owner(dev'[a]) = a /\ dev'[a] \in live' \ Listed'
        /\ at'[a] \in Registering \ {"in tree"} => dev'[a] \notin dir'
        /\ at'[a] = "listed" => Owner(dev'[a]) = a
        /\ at'[a] # "idle" => dev'[a] = None \/ Owner(dev'[a]) = a \/ dev'[a] \in shared'
    BY <1>1, <1>2, <1>3, <1>4 DEF IInv, LiveInv, Registering
  <2>2. ASSUME NEW b \in Actors \ {a}
        PROVE  /\ at'[b] \in Registering => Owner(dev'[b]) = b /\ dev'[b] \in live' \ Listed'
               /\ at'[b] \in Registering \ {"in tree"} => dev'[b] \notin dir'
               /\ at'[b] = "listed" => Owner(dev'[b]) = b
               /\ at'[b] # "idle" => dev'[b] = None \/ Owner(dev'[b]) = b \/ dev'[b] \in shared'
    <3>1. OwnInv
      BY DEF IInv
    <3>2. /\ at'[b] = at[b] /\ dev'[b] = dev[b] /\ Listed' = Listed /\ dir' = dir
          /\ live \subseteq live' /\ shared \subseteq shared'
      BY <1>1, <1>2, <1>4, <1>5
    <3> QED
      BY <3>1, <3>2 DEF OwnInv
  <2> QED
    BY <2>1, <2>2 DEF OwnInv
<1>9. NameInv'
  <2> SUFFICES ASSUME NEW b \in Actors, at'[b] \in {"free name", "not in tree", "in tree"},
                      NEW e \in Listed, name'[e] = name'[dev'[b]]
               PROVE  Owner(e) # b /\ b \in Tasks
    BY <1>2 DEF NameInv
  <2>1. b # a /\ at[b] \in {"free name", "not in tree", "in tree"} /\ dev'[b] = dev[b] /\ dev[b] \in live
    BY <1>1, <1>4 DEF IInv, OwnInv, Registering
  <2>2. e # d /\ dev[b] # d /\ e \in Devs /\ dev[b] \in Devs
    BY <1>3, <1>4, <2>1 DEF IInv, LiveInv
  <2>3. name[e] = name[dev[b]]
    BY <1>3, <1>4, <2>1, <2>2
  <2> QED
    BY <2>1, <2>3 DEF IInv, NameInv
<1>10. IrqInv'
  BY <1>1, <1>2, <1>3, <1>4, <1>5 DEF IInv, IrqInv
<1>11. TwinsOnlyByPreemption'
  <2>1. \A i \in DOMAIN list : name'[list[i]] = name[list[i]]
    BY <1>3, <1>4 DEF IInv, LiveInv
  <2> QED
    BY <1>2, <2>1 DEF IInv, TwinsOnlyByPreemption
<1>12. PlaceInv'
  <2>0. \A b \in Actors \ {a} :
          /\ at'[b] = at[b] /\ dev'[b] = dev[b]
          /\ dev[b] \notin shared' => dev[b] \notin shared
          /\ dev[b] # None /\ dev[b] \notin shared' /\ at[b] \in {"found", "leaving"} => heard'[dev[b]] = heard[dev[b]]
    <3>1. \A b \in Actors : dev[b] # None /\ dev[b] \notin shared /\ at[b] \in {"found", "leaving"} => dev[b] # d
      BY <1>4 DEF IInv, PlaceInv, LiveInv
    <3> QED
      BY <1>1, <1>3, <1>4, <1>5, <3>1
  <2>1. dev'[a] # None /\ dev'[a] \notin shared' =>
          /\ at'[a] = "in tree" => dev'[a] \in dir'
          /\ at'[a] \in {"listed", "found", "leaving"} => dev'[a] \in dir' \cap Listed'
          /\ at'[a] \in {"found", "leaving"} => heard'[dev'[a]] # "none"
          /\ at'[a] = "unlinked" => dev'[a] \in dir' \ Listed'
          /\ at'[a] # "gone"
    BY <1>1
  <2>2. ASSUME NEW b \in Actors \ {a}
        PROVE  dev'[b] # None /\ dev'[b] \notin shared' =>
                  /\ at'[b] = "in tree" => dev'[b] \in dir'
                  /\ at'[b] \in {"listed", "found", "leaving"} => dev'[b] \in dir' \cap Listed'
                  /\ at'[b] \in {"found", "leaving"} => heard'[dev'[b]] # "none"
                  /\ at'[b] = "unlinked" => dev'[b] \in dir' \ Listed'
                  /\ at'[b] # "gone"
    BY <1>2, <2>0 DEF IInv, PlaceInv
  <2> QED
    BY <2>1, <2>2 DEF PlaceInv
<1>13. RestInv'
  <2> SUFFICES ASSUME NEW e \in Devs, e \notin shared'
               PROVE  /\ (at'[Owner(e)] # "idle" /\ dev'[Owner(e)] = e) \/ (e \in dir' <=> e \in Listed')
                      /\ e \in Listed' =>
                            heard'[e] # "none" \/ (at'[Owner(e)] = "listed" /\ dev'[Owner(e)] = e)
    BY DEF RestInv
  <2>1. CASE e = d
    BY <1>1, <1>2, <1>4, <2>1 DEF IInv, LiveInv
  <2>2. CASE e # d
    BY <1>1, <1>2, <1>3, <1>4, <1>5, <2>2 DEF IInv, RestInv
  <2> QED
    BY <2>1, <2>2
<1>14. FreeInv'
  <2> SUFFICES ASSUME NEW b \in Actors, at'[b] = "unlinked",
                      NEW c \in Actors \ {b}, at'[c] = "unlinked" \/ at'[c] \in Registering
               PROVE  dev'[b] \in live' \ Listed /\ dev'[c] # dev'[b]
    <3>1. \A b \in Actors : at'[b] = "unlinked" => dev'[b] \in live' \ Listed
      BY <1>1, <1>4 DEF IInv, FreeInv
    <3> QED
      BY <1>2, <3>1 DEF FreeInv
  <2>1. b # a /\ at[b] = "unlinked" /\ dev'[b] = dev[b] /\ dev[b] \in live \ Listed
    BY <1>1, <1>4 DEF IInv, FreeInv
  <2>2. CASE c = a
    BY <1>4, <2>1, <2>2
  <2>3. CASE c # a
    BY <1>1, <1>4, <2>1, <2>3 DEF IInv, FreeInv
  <2> QED
    BY <1>4, <2>1, <2>2, <2>3
<1> QED
  BY <1>6, <1>7, <1>8, <1>9, <1>10, <1>11, <1>12, <1>13, <1>14 DEF IInv

\* What is listed now was nobody else's, and its twin is another actor's.
LEMMA LinkIInv ==
    ASSUME DevicesAssumption, IInv, ~broken, NEW a \in Actors, Link(a)
    PROVE  IInv'
<1>1. /\ at[a] = "in tree" /\ at' \in [Actors -> Places] /\ at'[a] = "listed"
      /\ \A b \in Actors \ {a} : at'[b] = at[b]
      /\ \A b \in Irqs \ {a} : at[b] = "idle"
      /\ IrqInv'
  <2>1. Step(a, "in tree", "listed") /\ "listed" \in Places
    BY DEF Link, Places
  <2> QED
    BY <2>1, StepFacts DEF IInv
<1>2. UNCHANGED <<dir, live, name, dev, heard, shared, broken>>
  BY DEF Link, Listed
<1>3. /\ at \in [Actors -> Places] /\ dev \in [Actors -> Devs \cup {None}] /\ None \notin Devs
      /\ name \in [Devs -> Ids] /\ heard \in [Devs -> {"none", "add", "remove"}]
      /\ Listed \subseteq Devs /\ dir \subseteq Devs /\ live \subseteq Devs /\ shared \subseteq Devs
      /\ \A b \in Actors : dev[b] \in Devs \/ (dev[b] = None /\ at[b] \in {"idle", "gone"})
      /\ \A e \in Devs : Owner(e) \in Actors
      /\ \A i \in DOMAIN list : list[i] \in Listed

  BY DevFacts DEF IInv, Types, TypeOK, Listed, ToSet
<1>4. /\ dev[a] \in live \ Listed /\ Owner(dev[a]) = a /\ dev[a] \in Devs
  BY <1>1, <1>3 DEF IInv, OwnInv, Registering
<1>5. /\ list' \in Seq(Devs) /\ Listed' = Listed \cup {dev[a]}
      /\ Len(list) \in Nat /\ DOMAIN list = 1 .. Len(list) /\ DOMAIN list' = 1 .. Len(list) + 1
      /\ \A i \in 1 .. Len(list) : list'[i] = list[i]
      /\ list'[Len(list) + 1] = dev[a]
  <2>1. list' = Append(list, dev[a]) /\ list \in Seq(Devs)
    BY DEF Link, IInv, Types
  <2> QED
    BY <1>4, <2>1, AppendListed DEF Listed
<1>6. Types'
  BY <1>1, <1>2, <1>3, <1>4, <1>5 DEF IInv, Types, TypeOK
<1>7. LiveInv'
  <2>1. \A i, j \in DOMAIN list' : list'[i] = list'[j] => i = j
    BY <1>3, <1>4, <1>5 DEF IInv, LiveInv
  <2> QED
    BY <1>2, <1>4, <1>5, <2>1 DEF IInv, LiveInv
<1>8. OwnInv'
  <2>1. /\ at'[a] \in Registering => Owner(dev'[a]) = a /\ dev'[a] \in live' \ Listed'
        /\ at'[a] \in Registering \ {"in tree"} => dev'[a] \notin dir'
        /\ at'[a] = "listed" => Owner(dev'[a]) = a
        /\ at'[a] # "idle" => dev'[a] = None \/ Owner(dev'[a]) = a \/ dev'[a] \in shared'
    BY <1>1, <1>2, <1>4 DEF Registering
  <2>2. ASSUME NEW b \in Actors \ {a}
        PROVE  /\ at'[b] \in Registering => Owner(dev'[b]) = b /\ dev'[b] \in live' \ Listed'
               /\ at'[b] \in Registering \ {"in tree"} => dev'[b] \notin dir'
               /\ at'[b] = "listed" => Owner(dev'[b]) = b
               /\ at'[b] # "idle" => dev'[b] = None \/ Owner(dev'[b]) = b \/ dev'[b] \in shared'
    BY <1>1, <1>2, <1>3, <1>4, <1>5 DEF IInv, OwnInv
  <2> QED
    BY <2>1, <2>2 DEF OwnInv
<1>9. NameInv'
  <2> SUFFICES ASSUME NEW b \in Actors, at'[b] \in {"free name", "not in tree", "in tree"},
                      NEW d \in Listed', name[d] = name[dev[b]]
               PROVE  Owner(d) # b /\ b \in Tasks
    BY <1>2 DEF NameInv
  <2>1. b # a /\ at'[b] = at[b] /\ b \in Tasks
    BY <1>1 DEF Actors
  <2>2. CASE d \in Listed
    BY <2>1, <2>2 DEF IInv, NameInv
  <2>3. CASE d = dev[a]
    BY <1>4, <2>1, <2>3
  <2> QED
    BY <1>5, <2>2, <2>3
<1>10. IrqInv'
  BY <1>1, <1>2, <1>3, <1>4, <1>5 DEF IInv, IrqInv
<1>11. TwinsOnlyByPreemption'
  <2> SUFFICES ASSUME NEW i \in DOMAIN list', NEW j \in DOMAIN list',
                      i < j, name[list'[i]] = name[list'[j]]
               PROVE  Owner(list'[i]) # Owner(list'[j]) /\ Owner(list'[j]) \in Tasks
    BY <1>2 DEF TwinsOnlyByPreemption
  <2>1. CASE j = Len(list) + 1
    <3>1. i \in DOMAIN list /\ list'[i] = list[i] /\ list[i] \in Listed /\ list'[j] = dev[a]
      BY <1>3, <1>5, <2>1
    <3> QED
      BY <1>1, <1>4, <3>1 DEF IInv, NameInv
  <2>2. CASE j # Len(list) + 1
    <3>1. i \in DOMAIN list /\ j \in DOMAIN list /\ list'[i] = list[i] /\ list'[j] = list[j]
      BY <1>5, <2>2
    <3> QED
      BY <3>1 DEF IInv, TwinsOnlyByPreemption
  <2> QED
    BY <2>1, <2>2
<1>12. PlaceInv'
  <2>1. dev'[a] # None /\ dev'[a] \notin shared' =>
          /\ at'[a] = "in tree" => dev'[a] \in dir'
          /\ at'[a] \in {"listed", "found", "leaving"} => dev'[a] \in dir' \cap Listed'
          /\ at'[a] \in {"found", "leaving"} => heard'[dev'[a]] # "none"
          /\ at'[a] = "unlinked" => dev'[a] \in dir' \ Listed'
          /\ at'[a] # "gone"
    BY <1>1, <1>2, <1>3, <1>4, <1>5 DEF IInv, PlaceInv
  <2>2. ASSUME NEW b \in Actors \ {a}
        PROVE  dev'[b] # None /\ dev'[b] \notin shared' =>
                  /\ at'[b] = "in tree" => dev'[b] \in dir'
                  /\ at'[b] \in {"listed", "found", "leaving"} => dev'[b] \in dir' \cap Listed'
                  /\ at'[b] \in {"found", "leaving"} => heard'[dev'[b]] # "none"
                  /\ at'[b] = "unlinked" => dev'[b] \in dir' \ Listed'
                  /\ at'[b] # "gone"
    BY <1>1, <1>2, <1>3, <1>4, <1>5 DEF IInv, PlaceInv, OwnInv
  <2> QED
    BY <2>1, <2>2 DEF PlaceInv
<1>13. RestInv'
  <2> SUFFICES ASSUME NEW e \in Devs, e \notin shared'
               PROVE  /\ (at'[Owner(e)] # "idle" /\ dev'[Owner(e)] = e) \/ (e \in dir' <=> e \in Listed')
                      /\ e \in Listed' =>
                            heard'[e] # "none" \/ (at'[Owner(e)] = "listed" /\ dev'[Owner(e)] = e)
    BY DEF RestInv
  <2>1. CASE e = dev[a]
    BY <1>1, <1>2, <1>4, <1>5, <2>1 DEF IInv, PlaceInv
  <2>2. CASE e # dev[a]
    <3>1. RestInv /\ Owner(e) \in Actors
      BY <1>3 DEF IInv
    <3>2. dev' = dev /\ \A b \in Actors \ {a} : at'[b] = at[b]
      BY <1>1, <1>2
    <3>3. (e \in dir' <=> e \in dir) /\ (e \in Listed' <=> e \in Listed)
      BY <1>1, <1>2, <1>3, <1>5, <2>2
    <3>4. heard[e] # "none" => heard'[e] # "none"
      BY <1>2
    <3>5. e # dev[a] /\ e \notin shared
      BY <1>2, <2>2
    <3> QED
      BY <3>1, <3>2, <3>3, <3>4, <3>5, RestKept
  <2> QED
    BY <2>1, <2>2
<1>14. FreeInv'
  <2>1. FreeInv /\ OwnInv
    BY DEF IInv
  <2>2. ~broken'
    BY <1>2
  <2>3. ASSUME NEW b \in Actors, at[b] = "unlinked" PROVE dev[b] # dev[a]
    <3>1. at[a] \in Registering /\ b # a
      BY <1>1, <2>3 DEF Registering
    <3> QED
      BY <2>1, <2>3, <3>1 DEF FreeInv
  <2>4. \A b \in Actors : at'[b] = "unlinked" => dev[b] \notin Listed'
    BY <1>1, <1>5, <2>1, <2>3 DEF FreeInv
  <2> QED
    BY <1>1, <1>2, <2>1, <2>2, <2>4, FreeKept DEF Registering
<1> QED
  BY <1>6, <1>7, <1>8, <1>9, <1>10, <1>11, <1>12, <1>13, <1>14 DEF IInv

\* The search by name finds the caller's own device unless it has shared its name.
LEMMA SearchIInv ==
    ASSUME DevicesAssumption, IInv, ~broken, NEW a \in Actors, NEW d \in Devs, Search(a, d)
    PROVE  IInv'
<1>1. /\ at[a] = "idle" /\ at' \in [Actors -> Places] /\ at'[a] = (IF device_exist(name[d]) THEN "found" ELSE "gone")
      /\ \A b \in Actors \ {a} : at'[b] = at[b]
      /\ \A b \in Irqs \ {a} : at[b] = "idle"
      /\ IrqInv'
  <2>1. Step(a, "idle", (IF device_exist(name[d]) THEN "found" ELSE "gone")) /\ (IF device_exist(name[d]) THEN "found" ELSE "gone") \in Places
    BY DEF Search, Places
  <2> QED
    BY <2>1, StepFacts DEF IInv
<1>2. list' = list /\ dir' = dir /\ live' = live /\ name' = name /\ heard' = heard /\ shared' = shared /\ broken' = broken /\ Listed' = Listed
  BY DEF Search, Listed
<1>3. /\ at \in [Actors -> Places] /\ dev \in [Actors -> Devs \cup {None}] /\ None \notin Devs
      /\ name \in [Devs -> Ids] /\ heard \in [Devs -> {"none", "add", "remove"}]
      /\ Listed \subseteq Devs /\ dir \subseteq Devs /\ live \subseteq Devs /\ shared \subseteq Devs
      /\ \A b \in Actors : dev[b] \in Devs \/ (dev[b] = None /\ at[b] \in {"idle", "gone"})
      /\ \A e \in Devs : Owner(e) \in Actors
      /\ \A i \in DOMAIN list : list[i] \in Listed

  BY DevFacts DEF IInv, Types, TypeOK, Listed, ToSet
<1>4. /\ Owner(d) = a /\ dev' \in [Actors -> Devs \cup {None}]
      /\ \A b \in Actors \ {a} : dev'[b] = dev[b]
      /\ \/ at'[a] = "found" /\ dev'[a] \in Listed /\ (dev'[a] = d \/ dev'[a] \in shared)
         \/ at'[a] = "gone" /\ dev'[a] = None
  <2>1. Owner(d) = a /\ d \in live /\ dev' = [dev EXCEPT ![a] = search_device(name[d])]
    BY DEF Search
  <2>2. CASE device_exist(name[d])
    <3>1. search_device(name[d]) \in Listed /\ name[search_device(name[d])] = name[d]
      BY <2>2, FoundByName DEF IInv
    <3>2. search_device(name[d]) = d \/ search_device(name[d]) \in shared
      BY <2>1, <3>1 DEF IInv, LiveInv
    <3> QED
      BY <1>1, <1>3, <2>1, <2>2, <3>1, <3>2
  <2>3. CASE ~device_exist(name[d])
    <3>1. search_device(name[d]) = None
      BY <2>3, FoundByName DEF IInv
    <3> QED
      BY <1>1, <1>3, <2>1, <2>3, <3>1
  <2> QED
    BY <2>2, <2>3
<1>5. Types'
  BY <1>1, <1>2, <1>3, <1>4 DEF IInv, Types, TypeOK
<1>6. LiveInv'
  BY <1>1, <1>2, <1>3, <1>4 DEF IInv, LiveInv
<1>7. OwnInv'
  <2>1. /\ at'[a] \in Registering => Owner(dev'[a]) = a /\ dev'[a] \in live' \ Listed'
        /\ at'[a] \in Registering \ {"in tree"} => dev'[a] \notin dir'
        /\ at'[a] = "listed" => Owner(dev'[a]) = a
        /\ at'[a] # "idle" => dev'[a] = None \/ Owner(dev'[a]) = a \/ dev'[a] \in shared'
    BY <1>1, <1>2, <1>3, <1>4 DEF Registering
  <2>2. ASSUME NEW b \in Actors \ {a}
        PROVE  /\ at'[b] \in Registering => Owner(dev'[b]) = b /\ dev'[b] \in live' \ Listed'
               /\ at'[b] \in Registering \ {"in tree"} => dev'[b] \notin dir'
               /\ at'[b] = "listed" => Owner(dev'[b]) = b
               /\ at'[b] # "idle" => dev'[b] = None \/ Owner(dev'[b]) = b \/ dev'[b] \in shared'
    BY <1>1, <1>2, <1>3, <1>4 DEF IInv, OwnInv
  <2> QED
    BY <2>1, <2>2 DEF OwnInv
<1>8. NameInv'
  <2>1. \A b \in Actors : at'[b] \in {"free name", "not in tree", "in tree"} =>
            at[b] \in {"free name", "not in tree", "in tree"} /\ dev'[b] = dev[b]
    BY <1>1, <1>4
  <2> QED
    BY <1>2, <2>1 DEF IInv, NameInv
<1>9. IrqInv'
  BY <1>1, <1>2, <1>3, <1>4 DEF IInv, IrqInv
<1>10. TwinsOnlyByPreemption'
  BY <1>2 DEF IInv, TwinsOnlyByPreemption
<1>11. PlaceInv'
  <2>0. dev'[a] # None /\ dev'[a] \notin shared =>
          at'[a] = "found" /\ dev'[a] \in dir \cap Listed /\ heard[dev'[a]] # "none"
    BY <1>1, <1>3, <1>4 DEF IInv, RestInv
  <2>1. dev'[a] # None /\ dev'[a] \notin shared' =>
          /\ at'[a] = "in tree" => dev'[a] \in dir'
          /\ at'[a] \in {"listed", "found", "leaving"} => dev'[a] \in dir' \cap Listed'
          /\ at'[a] \in {"found", "leaving"} => heard'[dev'[a]] # "none"
          /\ at'[a] = "unlinked" => dev'[a] \in dir' \ Listed'
          /\ at'[a] # "gone"
    BY <1>2, <2>0
  <2>2. ASSUME NEW b \in Actors \ {a}
        PROVE  dev'[b] # None /\ dev'[b] \notin shared' =>
                  /\ at'[b] = "in tree" => dev'[b] \in dir'
                  /\ at'[b] \in {"listed", "found", "leaving"} => dev'[b] \in dir' \cap Listed'
                  /\ at'[b] \in {"found", "leaving"} => heard'[dev'[b]] # "none"
                  /\ at'[b] = "unlinked" => dev'[b] \in dir' \ Listed'
                  /\ at'[b] # "gone"
    BY <1>1, <1>2, <1>3, <1>4 DEF IInv, PlaceInv
  <2> QED
    BY <2>1, <2>2 DEF PlaceInv
<1>12. RestInv'
  <2> SUFFICES ASSUME NEW e \in Devs, e \notin shared'
               PROVE  /\ (at'[Owner(e)] # "idle" /\ dev'[Owner(e)] = e) \/ (e \in dir' <=> e \in Listed')
                      /\ e \in Listed' =>
                            heard'[e] # "none" \/ (at'[Owner(e)] = "listed" /\ dev'[Owner(e)] = e)
    BY DEF RestInv
  <2>1. CASE Owner(e) = a
    BY <1>1, <1>2, <1>3, <1>4, <2>1 DEF IInv, RestInv
  <2>2. CASE Owner(e) # a
    BY <1>1, <1>2, <1>3, <1>4, <2>2 DEF IInv, RestInv
  <2> QED
    BY <2>1, <2>2
<1>13. FreeInv'
  <2>1. \A b \in Actors : /\ at'[b] = "unlinked" => at[b] = "unlinked" /\ dev'[b] = dev[b]
                          /\ at'[b] \in Registering => at[b] \in Registering /\ dev'[b] = dev[b]
    BY <1>1, <1>4 DEF Registering
  <2> QED
    BY <1>2, <2>1 DEF IInv, FreeInv
<1> QED
  BY <1>5, <1>6, <1>7, <1>8, <1>9, <1>10, <1>11, <1>12, <1>13 DEF IInv

\* The chain is told of the removal of a device of which it has heard.
LEMMA NotifyRemoveIInv ==
    ASSUME DevicesAssumption, IInv, ~broken, NEW a \in Actors, NotifyRemove(a)
    PROVE  IInv'
<1>1. /\ at[a] = "found" /\ at' \in [Actors -> Places]
      /\ \A b \in Actors \ {a} : at'[b] = at[b]
      /\ IrqInv'
      /\ \/ at'[a] = "leaving" /\ dev[a] \in Listed
         \/ at'[a] = "gone" /\ dev[a] \notin Listed
  <2>1. CASE Step(a, "found", "leaving") /\ dev[a] \in Listed
    BY <2>1, StepFacts DEF IInv, Places
  <2>2. CASE Step(a, "found", "gone") /\ dev[a] \notin Listed
    BY <2>2, StepFacts DEF IInv, Places
  <2> QED
    BY <2>1, <2>2 DEF NotifyRemove
<1>2. UNCHANGED <<list, dir, live, name, dev, shared, broken>> /\ Listed' = Listed
  BY DEF NotifyRemove, Listed
<1>3. /\ at \in [Actors -> Places] /\ dev \in [Actors -> Devs \cup {None}] /\ None \notin Devs
      /\ name \in [Devs -> Ids] /\ heard \in [Devs -> {"none", "add", "remove"}]
      /\ Listed \subseteq Devs /\ dir \subseteq Devs /\ live \subseteq Devs /\ shared \subseteq Devs
      /\ \A b \in Actors : dev[b] \in Devs \/ (dev[b] = None /\ at[b] \in {"idle", "gone"})
      /\ \A e \in Devs : Owner(e) \in Actors
      /\ \A i \in DOMAIN list : list[i] \in Listed

  BY DevFacts DEF IInv, Types, TypeOK, Listed, ToSet
<1>4. /\ heard' \in [Devs -> {"none", "add", "remove"}]
      /\ \A e \in Devs : heard[e] # "none" => heard'[e] # "none" 
  BY <1>3 DEF NotifyRemove
<1>5. Types'
  BY <1>1, <1>2, <1>3, <1>4 DEF IInv, Types, TypeOK
<1>6. LiveInv'
  BY <1>1, <1>2, <1>3, <1>4 DEF IInv, LiveInv
<1>7. OwnInv'
  BY <1>1, <1>2, <1>3, <1>4 DEF IInv, OwnInv, Registering
<1>8. NameInv'
  BY <1>1, <1>2, <1>3, <1>4 DEF IInv, NameInv
<1>9. IrqInv'
  BY <1>1, <1>2, <1>3, <1>4 DEF IInv, IrqInv
<1>10. TwinsOnlyByPreemption'
  BY <1>2 DEF IInv, TwinsOnlyByPreemption
<1>11. PlaceInv'
  <2>1. PlaceInv
    BY DEF IInv
  <2>2. ASSUME NEW b \in Actors, dev'[b] # None, dev'[b] \notin shared'
        PROVE  /\ at'[b] = "in tree" => dev'[b] \in dir'
               /\ at'[b] \in {"listed", "found", "leaving"} => dev'[b] \in dir' \cap Listed'
               /\ at'[b] \in {"found", "leaving"} => heard'[dev'[b]] # "none"
               /\ at'[b] = "unlinked" => dev'[b] \in dir' \ Listed'
               /\ at'[b] # "gone"
    <3>1. dev[b] \in Devs
      BY <1>2, <1>3, <2>2
    <3>2. CASE b = a
      <4>1. dev[a] \in dir \cap Listed /\ heard[dev[a]] # "none"
        BY <1>1, <1>2, <2>1, <2>2, <3>2 DEF PlaceInv
      <4> QED
        BY <1>1, <1>2, <1>4, <3>1, <3>2, <4>1
    <3>3. CASE b # a
      BY <1>1, <1>2, <1>4, <2>1, <2>2, <3>1, <3>3 DEF PlaceInv
    <3> QED
      BY <3>2, <3>3
  <2> QED
    BY <2>2 DEF PlaceInv
<1>12. RestInv'
  <2> SUFFICES ASSUME NEW e \in Devs, e \notin shared'
               PROVE  /\ (at'[Owner(e)] # "idle" /\ dev'[Owner(e)] = e) \/ (e \in dir' <=> e \in Listed')
                      /\ e \in Listed' =>
                            heard'[e] # "none" \/ (at'[Owner(e)] = "listed" /\ dev'[Owner(e)] = e)
    BY DEF RestInv
  <2>1. CASE e = dev[a]
    <3>1. PlaceInv
      BY DEF IInv
    <3>2. e \in dir \cap Listed /\ heard[e] # "none"
      BY <1>1, <1>2, <1>3, <2>1, <3>1 DEF PlaceInv
    <3> QED
      BY <1>2, <1>4, <3>2
  <2>2. CASE e # dev[a]
    BY <1>1, <1>2, <1>3, <1>4, <2>2 DEF IInv, RestInv
  <2> QED
    BY <2>1, <2>2
<1>13. FreeInv'
  <2>1. FreeInv
    BY DEF IInv
  <2>2. ~broken'
    BY <1>2
  <2>3. dev' = dev /\ live' = live
    BY <1>2
  <2>4. \A b \in Actors : at'[b] = "unlinked" => at[b] = "unlinked" /\ dev[b] \notin Listed'
    BY <1>1, <1>2, <2>1 DEF FreeInv
  <2>5. \A b \in Actors : at'[b] \in Registering => at[b] \in Registering
    BY <1>1 DEF Registering
  <2> QED
    BY <2>1, <2>2, <2>3, <2>4, <2>5, FreeKept
<1> QED
  BY <1>5, <1>6, <1>7, <1>8, <1>9, <1>10, <1>11, <1>12, <1>13 DEF IInv

\* list_del() takes the device off the table, if it is there.
LEMMA UnlinkIInv ==
    ASSUME DevicesAssumption, IInv, ~broken, NEW a \in Actors, Unlink(a)
    PROVE  IInv'
<1>1. /\ at[a] = "leaving" /\ at' \in [Actors -> Places] /\ at'[a] = "unlinked"
      /\ \A b \in Actors \ {a} : at'[b] = at[b]
      /\ \A b \in Irqs \ {a} : at[b] = "idle"
      /\ IrqInv'
  <2>1. Step(a, "leaving", "unlinked") /\ "unlinked" \in Places
    BY DEF Unlink, Places
  <2> QED
    BY <2>1, StepFacts DEF IInv
<1>2. UNCHANGED <<dir, live, name, dev, heard, shared>>
  BY DEF Unlink, Listed
<1>3. /\ at \in [Actors -> Places] /\ dev \in [Actors -> Devs \cup {None}] /\ None \notin Devs
      /\ name \in [Devs -> Ids] /\ heard \in [Devs -> {"none", "add", "remove"}]
      /\ Listed \subseteq Devs /\ dir \subseteq Devs /\ live \subseteq Devs /\ shared \subseteq Devs
      /\ \A b \in Actors : dev[b] \in Devs \/ (dev[b] = None /\ at[b] \in {"idle", "gone"})
      /\ \A e \in Devs : Owner(e) \in Actors
      /\ \A i \in DOMAIN list : list[i] \in Listed

  BY DevFacts DEF IInv, Types, TypeOK, Listed, ToSet
<1>4. /\ list' \in Seq(Devs) /\ Listed' = Listed \ {dev[a]}
      /\ \A i, j \in DOMAIN list' : list'[i] = list'[j] => i = j
      /\ TwinsOnlyByPreemption'
      /\ broken' \in BOOLEAN /\ (broken' <=> dev[a] \notin Listed)
  <2>1. CASE dev[a] \notin Listed /\ broken' = TRUE /\ UNCHANGED list
    BY <1>2, <2>1 DEF IInv, Types, LiveInv, TwinsOnlyByPreemption, Listed
  <2>2. ASSUME NEW n \in DOMAIN list, list[n] = dev[a], list' = RemoveAt(list, n), UNCHANGED broken
        PROVE  /\ list' \in Seq(Devs) /\ Listed' = Listed \ {dev[a]}
               /\ \A i, j \in DOMAIN list' : list'[i] = list'[j] => i = j
               /\ TwinsOnlyByPreemption'
               /\ broken' \in BOOLEAN /\ (broken' <=> dev[a] \notin Listed)
    <3> DEFINE old(i) == IF i < n THEN i ELSE i + 1
    <3>1. /\ list' \in Seq(Devs)
          /\ \A i \in DOMAIN list' : old(i) \in DOMAIN list /\ list'[i] = list[old(i)]
          /\ \A i, j \in DOMAIN list' : i < j => old(i) < old(j)
          /\ \A i, j \in DOMAIN list' : list'[i] = list'[j] => i = j
          /\ ToSet(list') = ToSet(list) \ {list[n]}
      BY <2>2, RemoveListed DEF IInv, Types, LiveInv
    <3>2. Listed' = Listed \ {dev[a]} /\ dev[a] \in Listed
      BY <2>2, <3>1 DEF Listed, ToSet
    <3> HIDE DEF old
    <3>3. TwinsOnlyByPreemption'
      BY <1>2, <3>1 DEF IInv, TwinsOnlyByPreemption
    <3>4. broken' = FALSE
      BY <2>2 DEF IInv, Types, TypeOK
    <3> QED
      BY <3>1, <3>2, <3>3, <3>4
  <2> QED
    BY <2>1, <2>2 DEF Unlink
<1>5. Types'
  BY <1>1, <1>2, <1>3, <1>4 DEF IInv, Types, TypeOK
<1>6. LiveInv'
  BY <1>2, <1>4 DEF IInv, LiveInv
<1>7. OwnInv'
  BY <1>1, <1>2, <1>3, <1>4 DEF IInv, OwnInv, Registering
<1>8. NameInv'
  BY <1>1, <1>2, <1>3, <1>4 DEF IInv, NameInv
<1>9. IrqInv'
  BY <1>1, <1>2, <1>3, <1>4 DEF IInv, IrqInv
<1>10. TwinsOnlyByPreemption'
  BY <1>4
<1>11. PlaceInv'
  <2>1. dev'[a] # None /\ dev'[a] \notin shared' =>
          /\ at'[a] = "in tree" => dev'[a] \in dir'
          /\ at'[a] \in {"listed", "found", "leaving"} => dev'[a] \in dir' \cap Listed'
          /\ at'[a] \in {"found", "leaving"} => heard'[dev'[a]] # "none"
          /\ at'[a] = "unlinked" => dev'[a] \in dir' \ Listed'
          /\ at'[a] # "gone"
    BY <1>1, <1>2, <1>4 DEF IInv, PlaceInv
  <2>2. ASSUME NEW b \in Actors \ {a}
        PROVE  dev'[b] # None /\ dev'[b] \notin shared' =>
                  /\ at'[b] = "in tree" => dev'[b] \in dir'
                  /\ at'[b] \in {"listed", "found", "leaving"} => dev'[b] \in dir' \cap Listed'
                  /\ at'[b] \in {"found", "leaving"} => heard'[dev'[b]] # "none"
                  /\ at'[b] = "unlinked" => dev'[b] \in dir' \ Listed'
                  /\ at'[b] # "gone"
    BY <1>1, <1>2, <1>3, <1>4 DEF IInv, PlaceInv, OwnInv
  <2> QED
    BY <2>1, <2>2 DEF PlaceInv
<1>12. RestInv'
  <2> SUFFICES ASSUME NEW d \in Devs, d \notin shared
               PROVE  /\ (at'[Owner(d)] # "idle" /\ dev'[Owner(d)] = d) \/ (d \in dir' <=> d \in Listed')
                      /\ d \in Listed' =>
                            heard'[d] # "none" \/ (at'[Owner(d)] = "listed" /\ dev'[Owner(d)] = d)
    BY <1>2 DEF RestInv
  <2>1. CASE d # dev[a]
    BY <1>1, <1>2, <1>3, <1>4, <2>1 DEF IInv, RestInv
  <2>2. CASE d = dev[a]
    <3>1. Owner(d) = a
      BY <1>1, <1>3, <2>2 DEF IInv, OwnInv
    <3> QED
      BY <1>1, <1>2, <1>3, <1>4, <2>2, <3>1 DEF IInv, PlaceInv, RestInv, OwnInv, Registering
  <2> QED
    BY <2>1, <2>2
<1>13. FreeInv'
  <2>1. broken' => dev[a] \in shared
    BY <1>1, <1>3, <1>4 DEF IInv, PlaceInv
  <2> SUFFICES ASSUME ~broken', NEW b \in Actors, at'[b] = "unlinked"
               PROVE  /\ dev[b] \in live \ Listed'
                      /\ \A c \in Actors \ {b} : at'[c] = "unlinked" \/ at'[c] \in Registering => dev[c] # dev[b]
    BY <1>2, <2>1 DEF FreeInv
  <2>2. dev[a] \in Listed /\ dev[a] \in live
    BY <1>4 DEF IInv, LiveInv
  <2>3. \A c \in Actors \ {a} : at[c] = "unlinked" \/ at[c] \in Registering => dev[c] # dev[a]
    BY <2>2 DEF IInv, FreeInv, OwnInv
  <2>4. "unlinked" \notin Registering
    BY DEF Registering
  <2>5. CASE b = a
    BY <1>1, <1>4, <2>2, <2>3, <2>5
  <2>6. CASE b # a
    <3>1. at[b] = "unlinked" /\ dev[b] \in live \ Listed
      BY <1>1, <2>6 DEF IInv, FreeInv
    <3>2. \A c \in Actors \ {b} : at'[c] = "unlinked" \/ at'[c] \in Registering => dev[c] # dev[b]
      BY <1>1, <2>2, <2>4, <3>1 DEF IInv, FreeInv
    <3> QED
      BY <1>4, <3>1, <3>2
  <2> QED
    BY <2>5, <2>6
<1> QED
  BY <1>5, <1>6, <1>7, <1>8, <1>9, <1>10, <1>11, <1>12, <1>13 DEF IInv

\* register_device() finds the name taken or free.
LEMMA CheckNameIInv ==
    ASSUME DevicesAssumption, IInv, ~broken, NEW a \in Actors, CheckName(a)
    PROVE  IInv'
<1>1. /\ at[a] = "named" /\ at' \in [Actors -> Places] /\ at'[a] = (IF device_exist(name[dev[a]]) THEN "failed" ELSE "free name")
      /\ \A b \in Actors \ {a} : at'[b] = at[b]
      /\ \A b \in Irqs \ {a} : at[b] = "idle"
      /\ IrqInv'
  <2>1. Step(a, "named", (IF device_exist(name[dev[a]]) THEN "failed" ELSE "free name")) /\ (IF device_exist(name[dev[a]]) THEN "failed" ELSE "free name") \in Places
    BY DEF CheckName, Places
  <2> QED
    BY <2>1, StepFacts DEF IInv
<1>2. UNCHANGED <<list, dir, live, name, dev, heard, shared, broken>> /\ Listed' = Listed
  BY DEF CheckName, Listed
<1>3. /\ at \in [Actors -> Places] /\ dev \in [Actors -> Devs \cup {None}] /\ None \notin Devs
      /\ name \in [Devs -> Ids] /\ heard \in [Devs -> {"none", "add", "remove"}]
      /\ Listed \subseteq Devs /\ dir \subseteq Devs /\ live \subseteq Devs /\ shared \subseteq Devs
      /\ \A b \in Actors : dev[b] \in Devs \/ (dev[b] = None /\ at[b] \in {"idle", "gone"})
      /\ \A e \in Devs : Owner(e) \in Actors
      /\ \A i \in DOMAIN list : list[i] \in Listed

  BY DevFacts DEF IInv, Types, TypeOK, Listed, ToSet
<1>4. \A e \in Listed : name[e] = name[dev[a]] => device_exist(name[dev[a]])
  BY FoundByName DEF IInv
<1>5. at'[a] \in Registering
  BY <1>1 DEF Registering
<1>6. Types'
  BY <1>1, <1>2, <1>3, <1>4, <1>5 DEF IInv, Types, TypeOK
<1>7. LiveInv'
  BY <1>1, <1>2, <1>3, <1>4, <1>5 DEF IInv, LiveInv
<1>8. OwnInv'
  BY <1>1, <1>2, <1>3, <1>4, <1>5 DEF IInv, OwnInv, Registering
<1>9. NameInv'
  BY <1>1, <1>2, <1>3, <1>4, <1>5 DEF IInv, NameInv
<1>10. IrqInv'
  BY <1>1, <1>2, <1>3, <1>4, <1>5 DEF IInv, IrqInv
<1>11. TwinsOnlyByPreemption'
  BY <1>2 DEF IInv, TwinsOnlyByPreemption
<1>12. PlaceInv'
  BY <1>1, <1>2, <1>3, <1>4, <1>5 DEF IInv, PlaceInv
<1>13. RestInv'
  <2> SUFFICES ASSUME NEW d \in Devs, d \notin shared
               PROVE  /\ (at'[Owner(d)] # "idle" /\ dev'[Owner(d)] = d) \/ (d \in dir' <=> d \in Listed')
                      /\ d \in Listed' =>
                            heard'[d] # "none" \/ (at'[Owner(d)] = "listed" /\ dev'[Owner(d)] = d)
    BY <1>2 DEF RestInv
  <2>1. CASE d # dev[a]
    BY <1>1, <1>2, <1>3, <1>4, <1>5, <2>1 DEF IInv, RestInv
  <2>2. CASE d = dev[a]
    <3>1. Owner(d) = a
      BY <1>1, <1>3, <2>2 DEF IInv, OwnInv
    <3> QED
      BY <1>1, <1>2, <1>3, <1>4, <1>5, <2>2, <3>1 DEF IInv, PlaceInv, RestInv, OwnInv, Registering
  <2> QED
    BY <2>1, <2>2
<1>14. FreeInv'
  <2>1. \A b \in Actors : /\ at'[b] = "unlinked" => at[b] = "unlinked"
                          /\ at'[b] \in Registering => at[b] \in Registering
    BY <1>1 DEF Registering
  <2> QED
    BY <1>2, <2>1 DEF IInv, FreeInv
<1> QED
  BY <1>6, <1>7, <1>8, <1>9, <1>10, <1>11, <1>12, <1>13, <1>14 DEF IInv

\* The device_t of a registration that failed is given back.
LEMMA FailIInv ==
    ASSUME DevicesAssumption, IInv, ~broken, NEW a \in Actors, Fail(a)
    PROVE  IInv'
<1>1. /\ at[a] = "failed" /\ at' \in [Actors -> Places] /\ at'[a] = "idle"
      /\ \A b \in Actors \ {a} : at'[b] = at[b]
      /\ \A b \in Irqs \ {a} : at[b] = "idle"
      /\ IrqInv'
  <2>1. Step(a, "failed", "idle") /\ "idle" \in Places
    BY DEF Fail, Places
  <2> QED
    BY <2>1, StepFacts DEF IInv
<1>2. UNCHANGED <<list, dir, name, dev, heard, shared, broken>> /\ Listed' = Listed
  BY DEF Fail, Listed
<1>3. /\ at \in [Actors -> Places] /\ dev \in [Actors -> Devs \cup {None}] /\ None \notin Devs
      /\ name \in [Devs -> Ids] /\ heard \in [Devs -> {"none", "add", "remove"}]
      /\ Listed \subseteq Devs /\ dir \subseteq Devs /\ live \subseteq Devs /\ shared \subseteq Devs
      /\ \A b \in Actors : dev[b] \in Devs \/ (dev[b] = None /\ at[b] \in {"idle", "gone"})
      /\ \A e \in Devs : Owner(e) \in Actors
      /\ \A i \in DOMAIN list : list[i] \in Listed

  BY DevFacts DEF IInv, Types, TypeOK, Listed, ToSet
<1>4. live' = live \ {dev[a]}
  BY DEF Fail
<1>5. Types'
  BY <1>1, <1>2, <1>3, <1>4 DEF IInv, Types, TypeOK
<1>6. LiveInv'
  BY <1>1, <1>2, <1>3, <1>4 DEF IInv, LiveInv, OwnInv, Registering
<1>7. OwnInv'
  BY <1>1, <1>2, <1>3, <1>4 DEF IInv, OwnInv, Registering
<1>8. NameInv'
  BY <1>1, <1>2, <1>3, <1>4 DEF IInv, NameInv
<1>9. IrqInv'
  BY <1>1, <1>2, <1>3, <1>4 DEF IInv, IrqInv
<1>10. TwinsOnlyByPreemption'
  BY <1>2 DEF IInv, TwinsOnlyByPreemption
<1>11. PlaceInv'
  BY <1>1, <1>2, <1>3, <1>4 DEF IInv, PlaceInv
<1>12. RestInv'
  <2> SUFFICES ASSUME NEW d \in Devs, d \notin shared
               PROVE  /\ (at'[Owner(d)] # "idle" /\ dev'[Owner(d)] = d) \/ (d \in dir' <=> d \in Listed')
                      /\ d \in Listed' =>
                            heard'[d] # "none" \/ (at'[Owner(d)] = "listed" /\ dev'[Owner(d)] = d)
    BY <1>2 DEF RestInv
  <2>1. CASE d # dev[a]
    BY <1>1, <1>2, <1>3, <1>4, <2>1 DEF IInv, RestInv
  <2>2. CASE d = dev[a]
    <3>1. Owner(d) = a
      BY <1>1, <1>3, <2>2 DEF IInv, OwnInv
    <3> QED
      BY <1>1, <1>2, <1>3, <1>4, <2>2, <3>1 DEF IInv, PlaceInv, RestInv, OwnInv, Registering
  <2> QED
    BY <2>1, <2>2
<1>13. FreeInv'
  BY <1>1, <1>2, <1>3, <1>4 DEF IInv, FreeInv, Registering
<1> QED
  BY <1>5, <1>6, <1>7, <1>8, <1>9, <1>10, <1>11, <1>12, <1>13 DEF IInv

\* kobj_add() finds a child of the name only where two devices have shared it.
LEMMA SearchKobjIInv ==
    ASSUME DevicesAssumption, IInv, ~broken, NEW a \in Actors, search_device_kobj(a)
    PROVE  IInv'
<1>1. /\ at[a] = "free name" /\ at' \in [Actors -> Places] /\ at'[a] = (IF kobj_search(name[dev[a]]) THEN "in tree" ELSE "not in tree")
      /\ \A b \in Actors \ {a} : at'[b] = at[b]
      /\ \A b \in Irqs \ {a} : at[b] = "idle"
      /\ IrqInv'
  <2>1. Step(a, "free name", (IF kobj_search(name[dev[a]]) THEN "in tree" ELSE "not in tree")) /\ (IF kobj_search(name[dev[a]]) THEN "in tree" ELSE "not in tree") \in Places
    BY DEF search_device_kobj, Places
  <2> QED
    BY <2>1, StepFacts DEF IInv
<1>2. UNCHANGED <<list, dir, live, name, dev, heard, shared, broken>> /\ Listed' = Listed
  BY DEF search_device_kobj, Listed
<1>3. /\ at \in [Actors -> Places] /\ dev \in [Actors -> Devs \cup {None}] /\ None \notin Devs
      /\ name \in [Devs -> Ids] /\ heard \in [Devs -> {"none", "add", "remove"}]
      /\ Listed \subseteq Devs /\ dir \subseteq Devs /\ live \subseteq Devs /\ shared \subseteq Devs
      /\ \A b \in Actors : dev[b] \in Devs \/ (dev[b] = None /\ at[b] \in {"idle", "gone"})
      /\ \A e \in Devs : Owner(e) \in Actors
      /\ \A i \in DOMAIN list : list[i] \in Listed

  BY DevFacts DEF IInv, Types, TypeOK, Listed, ToSet
<1>4. kobj_search(name[dev[a]]) => dev[a] \in shared
  <2> SUFFICES ASSUME NEW e \in dir, name[e] = name[dev[a]] PROVE dev[a] \in shared
    BY DEF kobj_search
  <2>1. dev[a] \in live /\ e \in live /\ e # dev[a]
    BY <1>1 DEF IInv, OwnInv, LiveInv, Registering
  <2> QED
    BY <2>1 DEF IInv, LiveInv
<1>5. Types'
  BY <1>1, <1>2, <1>3, <1>4 DEF IInv, Types, TypeOK
<1>6. LiveInv'
  BY <1>1, <1>2, <1>3, <1>4 DEF IInv, LiveInv
<1>7. OwnInv'
  BY <1>1, <1>2, <1>3, <1>4 DEF IInv, OwnInv, Registering
<1>8. NameInv'
  BY <1>1, <1>2, <1>3, <1>4 DEF IInv, NameInv
<1>9. IrqInv'
  BY <1>1, <1>2, <1>3, <1>4 DEF IInv, IrqInv
<1>10. TwinsOnlyByPreemption'
  BY <1>2 DEF IInv, TwinsOnlyByPreemption
<1>11. PlaceInv'
  BY <1>1, <1>2, <1>3, <1>4 DEF IInv, PlaceInv
<1>12. RestInv'
  <2> SUFFICES ASSUME NEW d \in Devs, d \notin shared
               PROVE  /\ (at'[Owner(d)] # "idle" /\ dev'[Owner(d)] = d) \/ (d \in dir' <=> d \in Listed')
                      /\ d \in Listed' =>
                            heard'[d] # "none" \/ (at'[Owner(d)] = "listed" /\ dev'[Owner(d)] = d)
    BY <1>2 DEF RestInv
  <2>1. CASE d # dev[a]
    <3>1. RestInv /\ Owner(d) \in Actors
      BY <1>3 DEF IInv
    <3>2. dev' = dev /\ \A b \in Actors \ {a} : at'[b] = at[b]
      BY <1>1, <1>2
    <3>3. (d \in dir' <=> d \in dir) /\ (d \in Listed' <=> d \in Listed)
      BY <1>1, <1>2, <1>3, <1>4, <2>1
    <3>4. heard[d] # "none" => heard'[d] # "none"
      BY <1>2
    <3>5. d # dev[a] /\ d \notin shared
      BY <1>2, <2>1
    <3> QED
      BY <3>1, <3>2, <3>3, <3>4, <3>5, RestKept
  <2>2. CASE d = dev[a]
    <3>1. Owner(d) = a
      BY <1>1, <1>3, <2>2 DEF IInv, OwnInv
    <3> QED
      BY <1>1, <1>2, <1>3, <1>4, <2>2, <3>1 DEF IInv, PlaceInv, RestInv, OwnInv, Registering
  <2> QED
    BY <2>1, <2>2
<1>13. FreeInv'
  <2>1. FreeInv
    BY DEF IInv
  <2>2. ~broken'
    BY <1>2
  <2>3. dev' = dev /\ live' = live
    BY <1>2
  <2>4. \A b \in Actors : at'[b] = "unlinked" => at[b] = "unlinked" /\ dev[b] \notin Listed'
    BY <1>1, <1>2, <2>1 DEF FreeInv
  <2>5. \A b \in Actors : at'[b] \in Registering => at[b] \in Registering
    BY <1>1 DEF Registering
  <2> QED
    BY <2>1, <2>2, <2>3, <2>4, <2>5, FreeKept
<1> QED
  BY <1>5, <1>6, <1>7, <1>8, <1>9, <1>10, <1>11, <1>12, <1>13 DEF IInv

LEMMA KobjAddIInv ==
    ASSUME DevicesAssumption, IInv, ~broken, NEW a \in Actors, kobj_add(a)
    PROVE  IInv'
<1>1. /\ at[a] = "not in tree" /\ at' \in [Actors -> Places] /\ at'[a] = "in tree"
      /\ \A b \in Actors \ {a} : at'[b] = at[b]
      /\ \A b \in Irqs \ {a} : at[b] = "idle"
      /\ IrqInv'
  <2>1. Step(a, "not in tree", "in tree") /\ "in tree" \in Places
    BY DEF kobj_add, Places
  <2> QED
    BY <2>1, StepFacts DEF IInv
<1>2. UNCHANGED <<list, live, name, dev, heard, shared, broken>> /\ Listed' = Listed
  BY DEF kobj_add, Listed
<1>3. /\ at \in [Actors -> Places] /\ dev \in [Actors -> Devs \cup {None}] /\ None \notin Devs
      /\ name \in [Devs -> Ids] /\ heard \in [Devs -> {"none", "add", "remove"}]
      /\ Listed \subseteq Devs /\ dir \subseteq Devs /\ live \subseteq Devs /\ shared \subseteq Devs
      /\ \A b \in Actors : dev[b] \in Devs \/ (dev[b] = None /\ at[b] \in {"idle", "gone"})
      /\ \A e \in Devs : Owner(e) \in Actors
      /\ \A i \in DOMAIN list : list[i] \in Listed

  BY DevFacts DEF IInv, Types, TypeOK, Listed, ToSet
<1>4. dir' = dir \cup {dev[a]}
  BY DEF kobj_add
<1>5. Types'
  BY <1>1, <1>2, <1>3, <1>4 DEF IInv, Types, TypeOK
<1>6. LiveInv'
  BY <1>1, <1>2, <1>3, <1>4 DEF IInv, LiveInv, OwnInv, Registering
<1>7. OwnInv'
  BY <1>1, <1>2, <1>3, <1>4 DEF IInv, OwnInv, Registering
<1>8. NameInv'
  BY <1>1, <1>2, <1>3, <1>4 DEF IInv, NameInv
<1>9. IrqInv'
  BY <1>1, <1>2, <1>3, <1>4 DEF IInv, IrqInv
<1>10. TwinsOnlyByPreemption'
  BY <1>2 DEF IInv, TwinsOnlyByPreemption
<1>11. PlaceInv'
  BY <1>1, <1>2, <1>3, <1>4 DEF IInv, PlaceInv
<1>12. RestInv'
  <2> SUFFICES ASSUME NEW d \in Devs, d \notin shared
               PROVE  /\ (at'[Owner(d)] # "idle" /\ dev'[Owner(d)] = d) \/ (d \in dir' <=> d \in Listed')
                      /\ d \in Listed' =>
                            heard'[d] # "none" \/ (at'[Owner(d)] = "listed" /\ dev'[Owner(d)] = d)
    BY <1>2 DEF RestInv
  <2>1. CASE d # dev[a]
    <3>1. RestInv /\ Owner(d) \in Actors
      BY <1>3 DEF IInv
    <3>2. dev' = dev /\ \A b \in Actors \ {a} : at'[b] = at[b]
      BY <1>1, <1>2
    <3>3. (d \in dir' <=> d \in dir) /\ (d \in Listed' <=> d \in Listed)
      BY <1>1, <1>2, <1>3, <1>4, <2>1
    <3>4. heard[d] # "none" => heard'[d] # "none"
      BY <1>2
    <3>5. d # dev[a] /\ d \notin shared
      BY <1>2, <2>1
    <3> QED
      BY <3>1, <3>2, <3>3, <3>4, <3>5, RestKept
  <2>2. CASE d = dev[a]
    <3>1. Owner(d) = a
      BY <1>1, <1>3, <2>2 DEF IInv, OwnInv
    <3> QED
      BY <1>1, <1>2, <1>3, <1>4, <2>2, <3>1 DEF IInv, PlaceInv, RestInv, OwnInv, Registering
  <2> QED
    BY <2>1, <2>2
<1>13. FreeInv'
  <2>1. FreeInv
    BY DEF IInv
  <2>2. ~broken'
    BY <1>2
  <2>3. dev' = dev /\ live' = live
    BY <1>2
  <2>4. \A b \in Actors : at'[b] = "unlinked" => at[b] = "unlinked" /\ dev[b] \notin Listed'
    BY <1>1, <1>2, <2>1 DEF FreeInv
  <2>5. \A b \in Actors : at'[b] \in Registering => at[b] \in Registering
    BY <1>1 DEF Registering
  <2> QED
    BY <2>1, <2>2, <2>3, <2>4, <2>5, FreeKept
<1> QED
  BY <1>5, <1>6, <1>7, <1>8, <1>9, <1>10, <1>11, <1>12, <1>13 DEF IInv

LEMMA NotifyAddIInv ==
    ASSUME DevicesAssumption, IInv, ~broken, NEW a \in Actors, NotifyAdd(a)
    PROVE  IInv'
<1>1. /\ at[a] = "listed" /\ at' \in [Actors -> Places] /\ at'[a] = "idle"
      /\ \A b \in Actors \ {a} : at'[b] = at[b]
      /\ \A b \in Irqs \ {a} : at[b] = "idle"
      /\ IrqInv'
  <2>1. Step(a, "listed", "idle") /\ "idle" \in Places
    BY DEF NotifyAdd, Places
  <2> QED
    BY <2>1, StepFacts DEF IInv
<1>2. UNCHANGED <<list, dir, live, name, dev, shared, broken>> /\ Listed' = Listed
  BY DEF NotifyAdd, Listed
<1>3. /\ at \in [Actors -> Places] /\ dev \in [Actors -> Devs \cup {None}] /\ None \notin Devs
      /\ name \in [Devs -> Ids] /\ heard \in [Devs -> {"none", "add", "remove"}]
      /\ Listed \subseteq Devs /\ dir \subseteq Devs /\ live \subseteq Devs /\ shared \subseteq Devs
      /\ \A b \in Actors : dev[b] \in Devs \/ (dev[b] = None /\ at[b] \in {"idle", "gone"})
      /\ \A e \in Devs : Owner(e) \in Actors
      /\ \A i \in DOMAIN list : list[i] \in Listed

  BY DevFacts DEF IInv, Types, TypeOK, Listed, ToSet
<1>4. heard' = [heard EXCEPT ![dev[a]] = "add"]
  BY DEF NotifyAdd
<1>5. Types'
  BY <1>1, <1>2, <1>3, <1>4 DEF IInv, Types, TypeOK
<1>6. LiveInv'
  BY <1>1, <1>2, <1>3, <1>4 DEF IInv, LiveInv
<1>7. OwnInv'
  BY <1>1, <1>2, <1>3, <1>4 DEF IInv, OwnInv, Registering
<1>8. NameInv'
  BY <1>1, <1>2, <1>3, <1>4 DEF IInv, NameInv
<1>9. IrqInv'
  BY <1>1, <1>2, <1>3, <1>4 DEF IInv, IrqInv
<1>10. TwinsOnlyByPreemption'
  BY <1>2 DEF IInv, TwinsOnlyByPreemption
<1>11. PlaceInv'
  BY <1>1, <1>2, <1>3, <1>4 DEF IInv, PlaceInv
<1>12. RestInv'
  <2> SUFFICES ASSUME NEW d \in Devs, d \notin shared
               PROVE  /\ (at'[Owner(d)] # "idle" /\ dev'[Owner(d)] = d) \/ (d \in dir' <=> d \in Listed')
                      /\ d \in Listed' =>
                            heard'[d] # "none" \/ (at'[Owner(d)] = "listed" /\ dev'[Owner(d)] = d)
    BY <1>2 DEF RestInv
  <2>1. CASE d # dev[a]
    BY <1>1, <1>2, <1>3, <1>4, <2>1 DEF IInv, RestInv
  <2>2. CASE d = dev[a]
    <3>1. Owner(d) = a
      BY <1>1, <1>3, <2>2 DEF IInv, OwnInv
    <3> QED
      <4>1. PlaceInv
        BY DEF IInv
      <4>2. d \in dir \cap Listed
        BY <1>1, <1>3, <2>2, <4>1 DEF PlaceInv
      <4>3. heard'[d] = "add"
        BY <1>3, <1>4, <2>2
      <4> QED
        BY <1>2, <4>2, <4>3
  <2> QED
    BY <2>1, <2>2
<1>13. FreeInv'
  BY <1>1, <1>2, <1>3, <1>4 DEF IInv, FreeInv, Registering
<1> QED
  BY <1>5, <1>6, <1>7, <1>8, <1>9, <1>10, <1>11, <1>12, <1>13 DEF IInv

LEMMA GoneIInv ==
    ASSUME DevicesAssumption, IInv, ~broken, NEW a \in Actors, Gone(a)
    PROVE  IInv'
<1>1. /\ at[a] = "gone" /\ at' \in [Actors -> Places] /\ at'[a] = "idle"
      /\ \A b \in Actors \ {a} : at'[b] = at[b]
      /\ \A b \in Irqs \ {a} : at[b] = "idle"
      /\ IrqInv'
  <2>1. Step(a, "gone", "idle") /\ "idle" \in Places
    BY DEF Gone, Places
  <2> QED
    BY <2>1, StepFacts DEF IInv
<1>2. UNCHANGED <<list, dir, live, name, dev, heard, shared, broken>> /\ Listed' = Listed
  BY DEF Gone, Listed
<1>3. /\ at \in [Actors -> Places] /\ dev \in [Actors -> Devs \cup {None}] /\ None \notin Devs
      /\ name \in [Devs -> Ids] /\ heard \in [Devs -> {"none", "add", "remove"}]
      /\ Listed \subseteq Devs /\ dir \subseteq Devs /\ live \subseteq Devs /\ shared \subseteq Devs
      /\ \A b \in Actors : dev[b] \in Devs \/ (dev[b] = None /\ at[b] \in {"idle", "gone"})
      /\ \A e \in Devs : Owner(e) \in Actors
      /\ \A i \in DOMAIN list : list[i] \in Listed

  BY DevFacts DEF IInv, Types, TypeOK, Listed, ToSet
<1>4. Types'
  BY <1>1, <1>2, <1>3 DEF IInv, Types, TypeOK
<1>5. LiveInv'
  BY <1>1, <1>2, <1>3 DEF IInv, LiveInv
<1>6. OwnInv'
  BY <1>1, <1>2, <1>3 DEF IInv, OwnInv, Registering
<1>7. NameInv'
  BY <1>1, <1>2, <1>3 DEF IInv, NameInv
<1>8. IrqInv'
  BY <1>1, <1>2, <1>3 DEF IInv, IrqInv
<1>9. TwinsOnlyByPreemption'
  BY <1>2 DEF IInv, TwinsOnlyByPreemption
<1>10. PlaceInv'
  BY <1>1, <1>2, <1>3 DEF IInv, PlaceInv
<1>11. RestInv'
  <2> SUFFICES ASSUME NEW d \in Devs, d \notin shared
               PROVE  /\ (at'[Owner(d)] # "idle" /\ dev'[Owner(d)] = d) \/ (d \in dir' <=> d \in Listed')
                      /\ d \in Listed' =>
                            heard'[d] # "none" \/ (at'[Owner(d)] = "listed" /\ dev'[Owner(d)] = d)
    BY <1>2 DEF RestInv
  <2>1. CASE d # dev[a]
    BY <1>1, <1>2, <1>3, <2>1 DEF IInv, RestInv
  <2>2. CASE d = dev[a]
    <3>1. Owner(d) = a
      BY <1>1, <1>3, <2>2 DEF IInv, OwnInv
    <3> QED
      BY <1>1, <1>2, <1>3, <2>2, <3>1 DEF IInv, PlaceInv, RestInv, OwnInv, Registering
  <2> QED
    BY <2>1, <2>2
<1>12. FreeInv'
  BY <1>1, <1>2, <1>3 DEF IInv, FreeInv, Registering
<1> QED
  BY <1>4, <1>5, <1>6, <1>7, <1>8, <1>9, <1>10, <1>11, <1>12 DEF IInv

\* kobj_remove() and free() of what nobody else holds.
LEMMA FreeIInv ==
    ASSUME DevicesAssumption, IInv, ~broken, NEW a \in Actors, Free(a)
    PROVE  IInv'
<1>1. /\ at[a] = "unlinked" /\ at' \in [Actors -> Places] /\ at'[a] = "idle"
      /\ \A b \in Actors \ {a} : at'[b] = at[b]
      /\ \A b \in Irqs \ {a} : at[b] = "idle"
      /\ IrqInv'
  <2>1. Step(a, "unlinked", "idle") /\ "idle" \in Places
    BY DEF Free, Places
  <2> QED
    BY <2>1, StepFacts DEF IInv
<1>2. UNCHANGED <<list, name, dev, heard, shared>> /\ Listed' = Listed
  BY DEF Free, Listed
<1>3. /\ at \in [Actors -> Places] /\ dev \in [Actors -> Devs \cup {None}] /\ None \notin Devs
      /\ name \in [Devs -> Ids] /\ heard \in [Devs -> {"none", "add", "remove"}]
      /\ Listed \subseteq Devs /\ dir \subseteq Devs /\ live \subseteq Devs /\ shared \subseteq Devs
      /\ \A b \in Actors : dev[b] \in Devs \/ (dev[b] = None /\ at[b] \in {"idle", "gone"})
      /\ \A e \in Devs : Owner(e) \in Actors
      /\ \A i \in DOMAIN list : list[i] \in Listed

  BY DevFacts DEF IInv, Types, TypeOK, Listed, ToSet
<1>4. dir' = dir \ {dev[a]} /\ live' = live \ {dev[a]} /\ dev[a] \in live \ Listed /\ broken' = FALSE
  BY <1>1 DEF IInv, FreeInv, Free
<1>5. Types'
  BY <1>1, <1>2, <1>3, <1>4 DEF IInv, Types, TypeOK
<1>6. LiveInv'
  BY <1>1, <1>2, <1>3, <1>4 DEF IInv, LiveInv
<1>7. OwnInv'
  <2> SUFFICES ASSUME NEW b \in Actors
               PROVE  /\ at'[b] \in Registering => Owner(dev[b]) = b /\ dev[b] \in live' \ Listed
                      /\ at'[b] \in Registering \ {"in tree"} => dev[b] \notin dir'
                      /\ at'[b] = "listed" => Owner(dev[b]) = b
                      /\ at'[b] # "idle" => dev[b] = None \/ Owner(dev[b]) = b \/ dev[b] \in shared
    BY <1>2 DEF OwnInv
  <2>1. at[b] \in Registering /\ b # a => dev[b] # dev[a]
    BY <1>1 DEF IInv, FreeInv
  <2>2. "idle" \notin Registering
    BY DEF Registering
  <2> QED
    BY <1>1, <1>4, <2>1, <2>2 DEF IInv, OwnInv
<1>8. NameInv'
  BY <1>1, <1>2, <1>3, <1>4 DEF IInv, NameInv
<1>9. IrqInv'
  BY <1>1, <1>2, <1>3, <1>4 DEF IInv, IrqInv
<1>10. TwinsOnlyByPreemption'
  BY <1>2 DEF IInv, TwinsOnlyByPreemption
<1>11. PlaceInv'
  <2> SUFFICES ASSUME NEW b \in Actors \ {a}, dev[b] # None, dev[b] \notin shared,
                      at[b] \in {"in tree", "listed", "found", "leaving", "unlinked", "gone"}
               PROVE  dev[b] # dev[a]
    BY <1>1, <1>2, <1>3, <1>4 DEF IInv, PlaceInv
  <2> QED
    BY <1>1, <1>3 DEF IInv, OwnInv
<1>12. RestInv'
  <2> SUFFICES ASSUME NEW d \in Devs, d \notin shared
               PROVE  /\ (at'[Owner(d)] # "idle" /\ dev'[Owner(d)] = d) \/ (d \in dir' <=> d \in Listed')
                      /\ d \in Listed' =>
                            heard'[d] # "none" \/ (at'[Owner(d)] = "listed" /\ dev'[Owner(d)] = d)
    BY <1>2 DEF RestInv
  <2>1. CASE d # dev[a]
    BY <1>1, <1>2, <1>3, <1>4, <2>1 DEF IInv, RestInv
  <2>2. CASE d = dev[a]
    <3>1. Owner(d) = a
      BY <1>1, <1>3, <2>2 DEF IInv, OwnInv
    <3> QED
      BY <1>1, <1>2, <1>3, <1>4, <2>2, <3>1 DEF IInv, PlaceInv, RestInv, OwnInv, Registering
  <2> QED
    BY <2>1, <2>2
<1>13. FreeInv'
  BY <1>1, <1>2, <1>3, <1>4 DEF IInv, FreeInv, Registering
<1> QED
  BY <1>5, <1>6, <1>7, <1>8, <1>9, <1>10, <1>11, <1>12, <1>13 DEF IInv

LEMMA NextIInv == ASSUME DevicesAssumption, IInv, [Next]_vars PROVE IInv'
<1>1. CASE UNCHANGED vars
  <2>1. /\ list' = list /\ dir' = dir /\ live' = live /\ name' = name /\ at' = at
        /\ dev' = dev /\ heard' = heard /\ shared' = shared /\ broken' = broken
    BY <1>1 DEF vars
  <2>2. Types' /\ LiveInv'
    BY <2>1 DEF IInv, Types, TypeOK, LiveInv, Listed
  <2>3. OwnInv' /\ NameInv' /\ IrqInv'
    BY <2>1 DEF IInv, OwnInv, NameInv, IrqInv, Listed
  <2>4. TwinsOnlyByPreemption'
    BY <2>1 DEF IInv, TwinsOnlyByPreemption
  <2>5. PlaceInv'
    BY <2>1 DEF IInv, PlaceInv, Listed
  <2>6. RestInv'
    BY <2>1 DEF IInv, RestInv, Listed
  <2>7. FreeInv'
    BY <2>1 DEF IInv, FreeInv, Listed
  <2> QED
    BY <2>2, <2>3, <2>4, <2>5, <2>6, <2>7 DEF IInv
<1>2. ASSUME NEW a \in Actors, ~broken,
             \/ \E d \in Devs : alloc_device_name(a, d) \/ Search(a, d)
             \/ CheckName(a) \/ Fail(a) \/ search_device_kobj(a) \/ kobj_add(a) \/ Link(a) \/ NotifyAdd(a)
             \/ NotifyRemove(a) \/ Unlink(a) \/ Free(a) \/ Gone(a)
      PROVE  IInv'
  BY <1>2, AllocIInv, SearchIInv, CheckNameIInv, FailIInv, SearchKobjIInv, KobjAddIInv, LinkIInv, NotifyAddIInv,
     NotifyRemoveIInv, UnlinkIInv, FreeIInv, GoneIInv
<1> QED
  BY <1>1, <1>2 DEF Next

-----------------------------------------------------------------------------
(* What follows for every state and every step.                            *)

\* The table of devices and the tree of kobjs stay consistent however many actors
\* register and unregister devices, with tasks preempted anywhere and interrupts
\* that register them as well: what goes wrong needs two devices of one name.
THEOREM TableStaysSound ==
    ASSUME DevicesAssumption
    PROVE  Spec => []TableSound
<1>1. ASSUME IInv PROVE TableSound
  <2>1. TreeShowsTheTable
    BY <1>1, DevFacts DEF IInv, RestInv, TreeShowsTheTable, Busy
  <2>2. RemovedOnce
    BY <1>1 DEF IInv, FreeInv, LiveInv, RemovedOnce
  <2>3. RemovesItsOwn
    BY <1>1, DevFacts DEF IInv, Types, TypeOK, OwnInv, RemovesItsOwn
  <2> QED
    BY <1>1, <2>1, <2>2, <2>3 DEF TableSound, IInv, Types
<1> QED
  BY <1>1, InitIInv, NextIInv, PTL DEF Spec

\* The notifier chain hears of the addition of a device before its removal.
THEOREM AdditionsComeFirst ==
    ASSUME DevicesAssumption
    PROVE  Spec => AddedFirst
<1>1. ASSUME IInv, [Next]_vars PROVE [AddedBeforeRemoved]_vars
  <2> SUFFICES ASSUME Next, NEW d \in Devs \ shared, heard[d] = "none" PROVE heard'[d] # "remove"
    BY <1>1 DEF AddedBeforeRemoved
  <2>1. ASSUME NEW a \in Actors, NotifyRemove(a) PROVE heard'[d] # "remove"
    <3>1. at[a] = "found" /\ (heard' = heard \/ heard' = [heard EXCEPT ![dev[a]] = "remove"])
      BY <2>1 DEF NotifyRemove, Step
    <3>2. dev[a] # d
      BY <1>1, <3>1, DevFacts DEF IInv, PlaceInv
    <3>3. heard \in [Devs -> {"none", "add", "remove"}] /\ d \in Devs
      BY <1>1 DEF IInv, Types, TypeOK
    <3>4. heard'[d] = heard[d]
      BY <3>1, <3>2, <3>3
    <3> QED
      BY <3>4
  <2>2. ASSUME NEW a \in Actors,
               \/ \E e \in Devs : alloc_device_name(a, e) \/ Search(a, e)
               \/ CheckName(a) \/ Fail(a) \/ search_device_kobj(a) \/ kobj_add(a) \/ Link(a) \/ NotifyAdd(a)
               \/ Unlink(a) \/ Free(a) \/ Gone(a)
        PROVE  heard'[d] # "remove"
    <3>1. \/ heard' = heard
          \/ \E e \in Devs : heard' = [heard EXCEPT ![e] = "none"]
          \/ heard' = [heard EXCEPT ![dev[a]] = "add"]
      BY <2>2 DEF alloc_device_name, Search, CheckName, Fail, search_device_kobj, kobj_add, Link, NotifyAdd, Unlink,
                  Free, Gone
    <3>2. heard \in [Devs -> {"none", "add", "remove"}] /\ d \in Devs
      BY <1>1 DEF IInv, Types, TypeOK
    <3>3. CASE heard' = heard
      BY <3>3
    <3>4. ASSUME NEW e \in Devs, heard' = [heard EXCEPT ![e] = "none"] PROVE heard'[d] # "remove"
      <4>1. heard'[d] = heard[d] \/ heard'[d] = "none"
        BY <3>2, <3>4
      <4> QED
        BY <4>1
    <3>5. CASE heard' = [heard EXCEPT ![dev[a]] = "add"]
      <4>1. heard'[d] = heard[d] \/ heard'[d] = "add"
        BY <3>2, <3>5
      <4> QED
        BY <4>1
    <3> QED
      BY <3>1, <3>3, <3>4, <3>5
  <2> QED
    BY <2>1, <2>2 DEF Next
<1> QED
  BY <1>1, InitIInv, NextIInv, PTL DEF Spec, AddedFirst

=============================================================================
