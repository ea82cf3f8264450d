-------------------------------- MODULE Mmu --------------------------------
(***************************************************************************)
(* The page tables (mmu.c): three-level radix trees that live in pages of  *)
(* the page allocator, with the kernel mapped into each of them.  Virtual  *)
(* and physical memory are counted in pages; physical page n is reached by *)
(* the kernel at KERNEL_SPACE_OFFSET + n, so a table is named by its page. *)
(* The functions run to completion one at a time: they are called by the   *)
(* booting hart only.  A failed alloc_pages gives page NULL, which         *)
(* phys2safe does not keep: see EntryGetAny.                               *)
(***************************************************************************)
EXTENDS Integers, FiniteSets, FiniteSetsExt

CONSTANTS Fanout,      \* MMU_ENTRY_COUNT
          KernelMap,   \* pages that identity_map_kernel maps, with their flags
          FirstHeap,   \* heap_bottom
          NHeap,       \* pages of the page allocator
          UserPages,   \* virtual pages that callers pass
          Perms,       \* flags that callers pass
          MaxRoots,    \* bound: address spaces
          Watched      \* bound: virtual pages whose translations are compared

Half == Fanout \div 2
VPages == 0 .. Fanout * Fanout * Fanout - 1
PPages == 0 .. Half * Fanout * Fanout - 1
Heap == FirstHeap .. FirstHeap + NHeap - 1
KernelPages == DOMAIN KernelMap

ASSUME MmuAssumption ==
    /\ Half \in Nat \ {0} /\ Fanout = 2 * Half
    /\ NHeap \in Nat \ {0} /\ FirstHeap \in Nat \ {0} /\ Heap \subseteq PPages
    /\ KernelPages \subseteq 1 .. FirstHeap - 1
    /\ UserPages \subseteq VPages
    /\ \A f \in Perms \cup {KernelMap[p] : p \in KernelPages} :
          f \subseteq {"R", "W", "X"} /\ f # {}
    /\ MaxRoots \in Nat \ {0} /\ Watched \subseteq VPages

VARIABLES tab,    \* entries of the heap pages, read as tables
          taken,  \* heap pages that are allocated
          roots,  \* address spaces created
          held,   \* pages mmu_remove returned, not yet given back
          on,     \* satp holds a table: mmu_enabled
          faulted \* the kernel has used a wild pointer

vars == <<tab, taken, roots, held, on, faulted>>

NULL == 0
Index == 0 .. Fanout - 1
Empty == [flags |-> {}, page |-> NULL]
ZeroTable == [i \in Index |-> Empty]

\* get_vpns
Vpn(v, level) == CASE level = 0 -> v \div (Fanout * Fanout)
                   [] level = 1 -> (v \div Fanout) % Fanout
                   [] level = 2 -> v % Fanout

Valid(e) == "V" \in e.flags
Frame(e) == e.flags \cap {"R", "W", "X"} # {}

Init ==
    /\ tab = [p \in Heap |-> ZeroTable]
    /\ taken = {}
    /\ roots = {}
    /\ held = {}
    /\ on = FALSE
    /\ faulted = FALSE

-----------------------------------------------------------------------------
(* Memory is passed along as a record m of tab and taken.  A pointer to an  *)
(* entry is a pair <<page, index>>, or NoEntry, or Wild.                    *)

Mem == [tab |-> tab, taken |-> taken]
NoEntry == <<NULL, 0>>
Wild == <<NULL, 1>>
Entry(m, at) == m.tab[at[1]][at[2]]

\* alloc_pages(1): the lowest free page, the last one excepted, zeroed.
Available(m) == {p \in Heap : p < FirstHeap + NHeap - 1 /\ p \notin m.taken}
FreshPage(m) == IF Available(m) = {} THEN NULL ELSE Min(Available(m))
Allocated(m, p) ==
    IF p = NULL THEN m
    ELSE [tab |-> [m.tab EXCEPT ![p] = ZeroTable], taken |-> m.taken \cup {p}]
\* A mistake: the page that could not be mapped is not given back.
ReleasedNot(m, p) == m

Released(m, p) == [m EXCEPT !.taken = @ \ {p}]

SetEntry(m, at, flags, page) ==
    [m EXCEPT !.tab[at[1]][at[2]] = [flags |-> flags, page |-> page]]

\* mmu_entry_get_any.  For page NULL with the MMU on, mmu_entry_phys is the
\* start of kernel space, which is not NULL, and phys2safe of that is NULL: the
\* result is the address of entry i of a table at address 0.
EntryGetAny(e, i) ==
    IF ~Valid(e) \/ Frame(e) THEN NoEntry
    ELSE IF e.page # NULL THEN <<e.page, i>>
    ELSE IF on /\ i # 0 THEN Wild ELSE NoEntry

\* mmu_entry_get and mmu_root_get: only an entry that is valid.
IfValid(m, at) ==
    IF at \in {NoEntry, Wild} THEN at
    ELSE IF Valid(Entry(m, at)) THEN at ELSE NoEntry

\* mmu_walk_to_entry
Deeper(m, at, i) ==
    IF at \in {NoEntry, Wild} THEN at
    ELSE IF Frame(Entry(m, at)) THEN at
    ELSE IfValid(m, EntryGetAny(Entry(m, at), i))
WalkToEntry(m, root, v) ==
    Deeper(m, Deeper(m, IfValid(m, <<root, Vpn(v, 0)>>), Vpn(v, 1)), Vpn(v, 2))

\* A mistake: a new table replaces the one that is there.
DescendAnew(m, at, i) ==
    IF at \in {NoEntry, Wild} \/ (Valid(Entry(m, at)) /\ Frame(Entry(m, at)))
    THEN [m |-> m, at |-> IF at = Wild THEN Wild ELSE NoEntry]
    ELSE LET p == FreshPage(m)
             n == SetEntry(Allocated(m, p), at, {"V"}, p)
         IN [m |-> n, at |-> EntryGetAny(Entry(n, at), i)]

\* One round of the loop of mmu_map: from the entry at, which gets a table if it
\* has none, to entry i of its table.
Descend(m, at, i) ==
    IF at \in {NoEntry, Wild} \/ (Valid(Entry(m, at)) /\ Frame(Entry(m, at)))
    THEN [m |-> m, at |-> IF at = Wild THEN Wild ELSE NoEntry]
    ELSE LET p == FreshPage(m)
             n == IF Valid(Entry(m, at)) THEN m
                  ELSE SetEntry(Allocated(m, p), at, {"V"}, p)
         IN [m |-> n, at |-> EntryGetAny(Entry(n, at), i)]

\* mmu_map: the memory it leaves, and whether it returns 0.
MapResult(m, root, v, page, flags) ==
    LET d1 == Descend(m, <<root, Vpn(v, 0)>>, Vpn(v, 1))
        d2 == Descend(d1.m, d1.at, Vpn(v, 2))
    IN IF d2.at \in {NoEntry, Wild} \/ Valid(Entry(d2.m, d2.at))
       THEN [m |-> d2.m, ok |-> FALSE, wild |-> d2.at = Wild]
       ELSE [m |-> SetEntry(d2.m, d2.at, flags \cup {"V"}, page), ok |-> TRUE, wild |-> FALSE]

\* mmu_translate, without the offset in the page: the page and its flags.  Below
\* a frame of a higher level the page numbers of the lower levels are kept.
Unmapped == [page |-> NULL, flags |-> {}]
Child(m, e, i) == IF Valid(e) /\ ~Frame(e) /\ e.page # NULL THEN m.tab[e.page][i] ELSE e
Translate(m, root, v) ==
    LET e0 == m.tab[root][Vpn(v, 0)]
        e1 == Child(m, e0, Vpn(v, 1))
        e2 == Child(m, e1, Vpn(v, 2))
        below == IF Frame(e0) THEN v % (Fanout * Fanout)
                 ELSE IF Frame(e1) THEN v % Fanout ELSE 0
    IN IF Valid(e2) /\ Frame(e2) THEN [page |-> e2.page + below, flags |-> e2.flags]
       ELSE Unmapped

-----------------------------------------------------------------------------
Becomes(m) == tab' = m.tab /\ taken' = m.taken
Fault == faulted' = TRUE /\ UNCHANGED <<tab, taken, roots, held, on>>

\* The upper half of a new root: frames of the highest level over all of physical
\* memory.
KernelWindow ==
    [i \in Index |->
       IF i < Half THEN Empty
       ELSE [flags |-> {"V", "R", "W"}, page |-> (i - Half) * Fanout * Fanout]]

\* identity_map_kernel, from the lowest page of the kernel up to heap_bottom; it
\* ignores the result of mmu_map.
MapKernelPage(acc, root, p) ==
    IF p \notin KernelPages \/ acc.wild THEN acc
    ELSE MapResult(acc.m, root, p, p, KernelMap[p])
IdentityMapped(m, root) ==
    LET acc[n \in 0 .. FirstHeap] ==
          IF n = 0 THEN [m |-> m, ok |-> TRUE, wild |-> FALSE]
          ELSE MapKernelPage(acc[n - 1], root, n - 1)
    IN acc[FirstHeap]

\* create_mmu_table.  kinit makes the first table with the MMU off and turns it on;
\* without a page for the table the kernel writes to physical address 0.
create_mmu_table ==
    /\ Cardinality(roots) < MaxRoots
    /\ LET root == FreshPage(Mem)
           made == IdentityMapped([Allocated(Mem, root) EXCEPT !.tab[root] = KernelWindow], root)
       IN IF root = NULL THEN Fault
          ELSE IF made.wild THEN Fault
          ELSE /\ Becomes(made.m)
               /\ roots' = roots \cup {root}
               /\ on' = TRUE
               /\ UNCHANGED <<held, faulted>>

\* mmu_alloc: a page is allocated and mapped, and given back if it cannot be.
mmu_alloc(root, v, flags) ==
    LET page == FreshPage(Mem)
        res == MapResult(Allocated(Mem, page), root, v, page, flags)
    IN \/ /\ ~res.wild
          /\ Becomes(IF res.ok THEN res.m ELSE Released(res.m, page))
          /\ UNCHANGED <<roots, held, on, faulted>>
       \/ res.wild /\ Fault

mmu_change_flags(root, v, flags) ==
    LET at == WalkToEntry(Mem, root, v) IN
    \/ /\ at \notin {NoEntry, Wild}
       /\ Becomes(SetEntry(Mem, at, flags \cup {"V"}, Entry(Mem, at).page))
       /\ UNCHANGED <<roots, held, on, faulted>>
    \/ at = Wild /\ Fault

\* mmu_remove: the page now belongs to the caller.  The page number left behind in
\* the entry is not kept: nothing reads it in an invalid entry.
mmu_remove(root, v) ==
    LET at == WalkToEntry(Mem, root, v) IN
    \/ /\ at \notin {NoEntry, Wild}
       /\ Becomes(SetEntry(Mem, at, {}, NULL))
       /\ held' = held \cup {Entry(Mem, at).page}
       /\ UNCHANGED <<roots, on, faulted>>
    \/ at = Wild /\ Fault

\* dealloc_pages has no counter for a page outside the heap.
dealloc_pages(page) ==
    /\ page \in held
    /\ held' = held \ {page}
    /\ taken' = taken \ {page}
    /\ UNCHANGED <<tab, roots, on, faulted>>

\* Only pages of the user are removed or change their flags (removing a page of
\* the kernel window would remove a whole gigapage of it), and a page that was
\* removed is given back before the next one is.
Private(v) == v \in UserPages /\ v \notin KernelPages /\ Vpn(v, 0) < Half

Next ==
    /\ ~faulted
    /\ \/ create_mmu_table
       \/ \E root \in roots, v \in UserPages, f \in Perms :
             mmu_alloc(root, v, f \cup {"U"})
       \/ \E root \in roots, v \in UserPages, f \in Perms :
             Private(v) /\ mmu_change_flags(root, v, f \cup {"U"})
       \/ \E root \in roots, v \in UserPages :
             held = {} /\ Private(v) /\ mmu_remove(root, v)
       \/ \E page \in held : dealloc_pages(page)

Spec == Init /\ [][Next]_vars

-----------------------------------------------------------------------------
Space == [r \in roots |-> [v \in Watched |-> Translate(Mem, r, v)]]

\* A new table translates the kernel window and, unless pages run out, the
\* kernel's own pages to themselves, and nothing else.
Fresh(K) ==
    [v \in Watched |->
       CASE Vpn(v, 0) >= Half -> [page |-> v - Half * Fanout * Fanout, flags |-> {"V", "R", "W"}]
         [] Vpn(v, 0) < Half /\ v \in K -> [page |-> v, flags |-> KernelMap[v] \cup {"V"}]
         [] OTHER -> Unmapped]

\* The trees implement AddressSpaces: mmu_map, mmu_remove and mmu_change_flags
\* change the translation of the page they are asked for and of no other page in
\* any address space, mmu_map never replaces a translation, and those of the
\* kernel stay, whatever tables had to be allocated and even when pages run out
\* on the way.
Abstract ==
    INSTANCE AddressSpaces WITH
       space <- Space,
       VPages <- Watched,
       Mappings <- [page : PPages, flags : {f \cup {"V", "U"} : f \in Perms}],
       Blank <- {Fresh(K) : K \in SUBSET KernelPages}
SpaceSpec == Abstract!Spec

\* The entries, by table page and index, that are valid and reachable from a root.
RootSlots == {<<r, i>> : r \in roots, i \in Index}
Below(S) ==
    {<<Entry(Mem, s).page, i>> : i \in Index,
        s \in {t \in S : Valid(Entry(Mem, t)) /\ ~Frame(Entry(Mem, t))
                         /\ Entry(Mem, t).page \in Heap}}
Slots == RootSlots \cup Below(RootSlots) \cup Below(Below(RootSlots))
Pointing == {s \in Slots : Valid(Entry(Mem, s)) /\ Entry(Mem, s).page \in Heap
                           /\ (~Frame(Entry(Mem, s)) \/ "U" \in Entry(Mem, s).flags)}

\* Every page of the heap has one owner: it is the root of an address space, or
\* one entry of one tree points at it, or mmu_remove has returned it and nothing
\* points at it.  So no process reaches a page table or a page of another process
\* through its own mappings, and no page is allocated without being in use.
OneOwner ==
    /\ \A s, t \in Pointing : Entry(Mem, s).page = Entry(Mem, t).page => s = t
    /\ \A s \in Pointing : Entry(Mem, s).page \notin roots \cup held
    /\ taken = roots \cup (held \ {NULL}) \cup {Entry(Mem, s).page : s \in Pointing}

\* mmu_alloc "allocates a new page and inserts it into the mmu table": what a
\* process has mapped is memory that was allocated for it.
UserFramesAllocated ==
    \A r \in roots, v \in Watched : "U" \in Space[r][v].flags => Space[r][v].page \in taken
=============================================================================
