------------------------------- MODULE Machine -------------------------------
(* The machine of core/machine.c, the ranges it maps, and the first page    *)
(* table, which lib/mmu.c builds from them.  An address is the number of a  *)
(* page in a memory of Top pages; an entry of the table (pgd) maps Section  *)
(* pages at once, or a table with an entry for each of them.                *)
EXTENDS Integers, Sequences

CONSTANTS
    Names,          \* what machines may be called
    Top, Section,
    Entries,        \* virt, phys and size of the ranges a memmap() may ask for
    MaxMaps,        \* bound on the ranges of a machine
    Vectors         \* the page that holds the exception vectors

MachineAssumption == /\ Section \in Nat \ {0} /\ Top \in Nat \ {0} /\ Top % Section = 0 /\ Vectors \in 0..(Top - 1)
                            /\ Entries \subseteq [virt : 0..(Top - 1), phys : 0..(Top - 1), size : 0..(Top - 1)]

VARIABLES
    list,           \* __machine_list
    machine,        \* __machine
    mmap,           \* mach->mmap of each
    phase,          \* of the boot: "none", "memmap", "setup", "running", or "halted" by an assert
    pgd             \* __mmu_ttb: for each section None, where it is mapped to, or a table of its pages
vars == <<list, machine, mmap, phase, pgd>>

None == -1
Nobody == "none"
Address == 0..(Top - 1)
pgd_index(v) == v \div Section
Empty == [s \in 0..(pgd_index(Top) - 1) |-> None]

Init == list = <<>> /\ machine = Nobody /\ mmap = [m \in Names |-> <<>>] /\ phase = "none" /\ pgd = Empty

----------------------------------------------------------------------------
(* Addresses.  What is in no range is taken as it is.                       *)

Has(a, start, size) == a >= start /\ a < (start + size) % Top

phys_to_virt(p) ==
    LET in == {i \in DOMAIN mmap[machine] : Has(p, mmap[machine][i].phys, mmap[machine][i].size)}
        e == mmap[machine][CHOOSE i \in in : \A j \in in : i <= j]
    IN IF machine = Nobody \/ in = {} THEN p ELSE (e.virt + (p - e.phys)) % Top
virt_to_phys(v) ==
    LET in == {i \in DOMAIN mmap[machine] : Has(v, mmap[machine][i].virt, mmap[machine][i].size)}
        e == mmap[machine][CHOOSE i \in in : \A j \in in : i <= j]
    IN IF machine = Nobody \/ in = {} THEN v ELSE (e.phys + (v - e.virt)) % Top

----------------------------------------------------------------------------
(* Registering.  A name is taken once; the first machine that is there has  *)
(* its memory mapped.                                                       *)

register_machine(m, detect) ==
    /\ phase \in {"none", "running"} /\ \A i \in DOMAIN list : list[i] # m
    /\ list' = Append(list, m) /\ mmap' = [mmap EXCEPT ![m] = <<>>]
    /\ IF machine = Nobody /\ detect THEN machine' = m /\ phase' = "memmap" ELSE UNCHANGED <<machine, phase>>
    /\ UNCHANGED pgd

\* One range; an entry that there is no memory for is left out.
machine_mmap(e, malloc) ==
    /\ phase = "memmap" /\ Len(mmap[machine]) < MaxMaps
    /\ mmap' = IF e.size = 0 \/ ~malloc THEN mmap ELSE [mmap EXCEPT ![machine] = Append(@, e)]
    /\ UNCHANGED <<list, machine, phase, pgd>>

\* The ranges are gone with the machine, but __machine is not reset.
unregister_machine(m) ==
    /\ phase = "running" /\ \E i \in DOMAIN list : list[i] = m
    /\ list' = SelectSeq(list, LAMBDA n : n # m) /\ mmap' = [mmap EXCEPT ![m] = <<>>]
    /\ UNCHANGED <<machine, phase, pgd>>

----------------------------------------------------------------------------
(* mmu_setup()                                                              *)

\* The asserts of alloc_init_pgd(); count sections are mapped.
Count(e) == e.size \div Section
Asserts(e) ==
    /\ e.virt % Section = 0 /\ e.phys % Section = 0 /\ Count(e) > 0
    /\ \A i \in 0..(Count(e) - 1) : (e.virt + i * Section) % Top >= e.virt /\ (e.phys + i * Section) % Top >= e.phys

set_pmd(t, v, p) == [t EXCEPT ![pgd_index(v)] = p]
alloc_init_pgd(t, e) ==
    LET f[i \in 0..Count(e)] ==
          IF i = 0 THEN t
          ELSE set_pmd(f[i - 1], (e.virt + (i - 1) * Section) % Top, (e.phys + (i - 1) * Section) % Top)
    IN f[Count(e)]
Mapped(m) ==
    LET f[i \in 0..Len(m)] == IF i = 0 THEN Empty ELSE alloc_init_pgd(f[i - 1], m[i]) IN f[Len(m)]

\* The section of the vectors becomes a table, which keeps what was mapped.
alloc_pte(pmd) == [i \in 0..(Section - 1) |-> IF pmd = None THEN None ELSE pmd + i]
High == Top - 1                                         \* 0xffff0000
Tables(t) == [s \in DOMAIN t |-> IF s = pgd_index(High) THEN [alloc_pte(t[s]) EXCEPT ![High % Section] = Vectors]
                                 ELSE [i \in 0..(Section - 1) |-> IF t[s] = None THEN None ELSE t[s] + i]]

create_page_table ==
    /\ phase = "memmap" /\ phase' = IF \A i \in DOMAIN mmap[machine] : Asserts(mmap[machine][i]) THEN "setup" ELSE "halted"
    /\ pgd' = IF phase' = "setup" THEN Mapped(mmap[machine]) ELSE pgd
    /\ UNCHANGED <<list, machine, mmap>>
set_vector_map ==
    /\ phase = "setup" /\ phase' = "running" /\ pgd' = Tables(pgd) /\ UNCHANGED <<list, machine, mmap>>

Next ==
    \/ \E m \in Names, detect \in BOOLEAN : register_machine(m, detect)
    \/ \E e \in Entries, malloc \in BOOLEAN : machine_mmap(e, malloc)
    \/ \E m \in Names : unregister_machine(m)
    \/ create_page_table \/ set_vector_map

----------------------------------------------------------------------------
(* The kernel and the hardware agree on where a page is.                    *)

Map == IF machine = Nobody THEN <<>> ELSE mmap[machine]
In(a, start, size) == a >= start /\ a < start + size    \* counted without an end of memory
Apart(e, f) == \A v \in Address : ~(In(v, e.virt, e.size) /\ In(v, f.virt, f.size))
Below(e) == e.virt + e.size < Top /\ e.phys + e.size < Top
\* No virtual address is given twice, and no range reaches the end of memory:
\* its last address wraps to 0 there, and the kernel finds nothing in it.
Tame == \A i \in DOMAIN Map : Below(Map[i]) /\ \A j \in DOMAIN Map \ {i} : Apart(Map[i], Map[j])

\* A page of a range that was mapped is found again by its virtual address,
\* whichever of several virtual addresses it was given.
RoundTrip ==
    Tame => \A p \in Address : (\E i \in DOMAIN Map : In(p, Map[i].phys, Map[i].size)) => virt_to_phys(phys_to_virt(p)) = p

\* When the MMU is on it takes an address to the page that virt_to_phys() says,
\* but for the vectors; what a range holds besides whole sections is not mapped.
Hardware(v) == pgd[pgd_index(v)][v % Section]
Reached(v) == \E i \in DOMAIN Map : In(v, Map[i].virt, Count(Map[i]) * Section)
Agrees ==
    (phase = "running" /\ Tame /\ Map # <<>>) =>
      \A v \in Address \ {High} : Hardware(v) = IF Reached(v) THEN virt_to_phys(v) ELSE None

\* However its ranges overlap, a running machine has its vectors, and every page
\* of the sections of the range that was mapped last.
LastWins ==
    phase = "running" =>
      /\ Hardware(High) = Vectors
      /\ Map # <<>> => LET e == Map[Len(Map)] IN
           \A k \in 0..(Count(e) * Section - 1) : e.virt + k # High => Hardware(e.virt + k) = e.phys + k

\* No range that runs, as the CPU counts, over the end of memory onto its start.
Inside == phase = "running" => \A i \in DOMAIN Map : Map[i].virt + Count(Map[i]) * Section <= Top
                                                     /\ Map[i].phys + Count(Map[i]) * Section <= Top

MapTrue == RoundTrip /\ Agrees /\ LastWins /\ Inside
=============================================================================
