------------------------------ MODULE PageAlloc ------------------------------
(***************************************************************************)
(* The physical page allocator of the kernel (memory.c, first half): one   *)
(* 16-bit reference count per page behind the spin lock mutating_heap.     *)
(* Pages are numbered from heap_bottom; the counters start at pages_bottom.*)
(* Every function is split at its accesses to the shared counters, so that *)
(* calls of several harts interleave the way they can on the machine.      *)
(***************************************************************************)
EXTENDS Integers, FiniteSets

CONSTANTS Harts,       \* harts that call the allocator
          NPages,      \* page counters between pages_bottom and heap_bottom
          RcMax,       \* UINT16_MAX, where incr_page_ref_count saturates
          MaxRefs,     \* bound: references the callers keep to one page
          MaxCount,    \* bound: pages asked for in one call
          PageSize,    \* PAGE_SIZE, in bytes
          InitrdFirst, \* page where the boot loader put the initrd
          InitrdPages  \* length of the initrd, in pages

ASSUME PageAllocAssumption ==
    /\ IsFiniteSet(Harts)
    /\ NPages \in Nat /\ RcMax \in Nat \ {0} /\ MaxRefs \in Nat \ {0}
    /\ MaxCount \in Nat \ {0} /\ PageSize \in Nat \ {0}
    /\ InitrdFirst \in Nat \ {0} /\ InitrdPages \in Nat
    /\ InitrdFirst + InitrdPages < NPages

VARIABLES lock,  \* mutating_heap
          rc,    \* the counters
          dirty, \* pages whose bytes are not all zero
          held,  \* references owned by callers that are not inside a call
          pc,    \* where each hart is in its call
          call,  \* function, page, count and loop index of that call
          snap   \* the counter value a hart has loaded and not yet stored

vars == <<lock, rc, dirty, held, pc, call, snap>>

Pages == 0 .. NPages - 1
NULL == -1
Span(p, n) == p .. p + n - 1
Run(h) == IF call[h].page = NULL THEN {} ELSE Span(call[h].page, call[h].n)

Initrd == Span(InitrdFirst, InitrdPages)

-----------------------------------------------------------------------------
(* Boot.  init_pages clears the counters, kinit reserves the initrd and the *)
(* root page table takes page 0 before any other call.                      *)

\* The pages mark_as_used(page, size) marks; page_ref_count has no counter
\* for page 0.
Marked(page, size) ==
    IF page = 0 THEN {} ELSE Span(page, (size + PageSize - 1) \div PageSize)

\* kinit passes the length of the initrd in pages, which mark_as_used takes
\* for a length in bytes.
Reserved == {0} \cup (Marked(InitrdFirst, InitrdPages) \cap Pages)

Calls == [fn : {"none", "alloc", "incr", "dealloc"},
          page : Pages \cup {NULL}, n : 1 .. MaxCount, i : 0 .. MaxCount]

NoCall == [fn |-> "none", page |-> NULL, n |-> 1, i |-> 0]

Init ==
    /\ lock = FALSE
    /\ rc = [p \in Pages |-> IF p \in Reserved THEN 1 ELSE 0]
    /\ held = rc
    /\ dirty = [p \in Pages |-> TRUE]
    /\ pc = [h \in Harts |-> "idle"]
    /\ call = [h \in Harts |-> NoCall]
    /\ snap = [h \in Harts |-> 0]

-----------------------------------------------------------------------------
(* References that calls in progress account for.                           *)

\* The reference a call on page q was made with, or the one alloc_pages has
\* claimed for its caller: still counted in rc[q].
Pinned(q) ==
    {h \in Harts : q \in Run(h) /\
        \/ call[h].fn = "alloc" /\ pc[h] \in {"zero", "unlock"}
        \/ call[h].fn = "incr"
        \/ call[h].fn = "dealloc" /\ q >= call[h].page + call[h].i}

\* Calls of incr_page_ref_count that have already counted page q up.
Shared(q) ==
    {h \in Harts : q \in Run(h) /\ call[h].fn = "incr"
                   /\ q < call[h].page + call[h].i}

\* Calls of incr_page_ref_count that have yet to do so.
ToShare(q) ==
    {h \in Harts : q \in Run(h) /\ call[h].fn = "incr"
                   /\ q >= call[h].page + call[h].i}

\* References page q has once every call in progress is over, at most.
Promised(q) == held[q] + Cardinality(Pinned(q)) + Cardinality(Shared(q))
                       + Cardinality(ToShare(q))

-----------------------------------------------------------------------------
(* Entering a function.  incr_page_ref_count and dealloc_pages are called   *)
(* by the owner of a reference to each page of the run, which the call then *)
(* accounts for; nobody calls them for the pages reserved at boot.          *)

Enter(h, fn, p, n) ==
    /\ pc[h] = "idle"
    /\ call' = [call EXCEPT ![h] = [fn |-> fn, page |-> p, n |-> n, i |-> 0]]
    /\ pc' = [pc EXCEPT ![h] = "lock"]
    /\ UNCHANGED <<lock, rc, dirty, snap>>

Owned(p, n) == Span(p, n) \subseteq {q \in Pages \ Reserved : held[q] > 0}

Taken(S) == [q \in Pages |-> IF q \in S THEN held[q] - 1 ELSE held[q]]

alloc_pages(h, n) ==
    /\ Enter(h, "alloc", NULL, n)
    /\ UNCHANGED held

incr_page_ref_count(h, p, n) ==
    /\ Owned(p, n)
    /\ \A q \in Span(p, n) : Promised(q) < MaxRefs
    /\ Enter(h, "incr", p, n)
    /\ held' = Taken(Span(p, n))

dealloc_pages(h, p, n) ==
    /\ Owned(p, n)
    /\ Enter(h, "dealloc", p, n)
    /\ held' = Taken(Span(p, n))

\* A page without a counter: NULL from a failed alloc_pages, which mmu_alloc
\* gives back when the mapping fails.
OnNull(h, fn) ==
    /\ Enter(h, fn, NULL, 1)
    /\ UNCHANGED held

-----------------------------------------------------------------------------
(* Inside a function.                                                       *)

\* Mistakes in spin_lock: the result of the exchange is not tested; the early
\* return for NULL keeps the lock.
SpinLockUntested(h) ==
    /\ pc[h] = "lock"
    /\ lock' = TRUE
    /\ pc' = [pc EXCEPT ![h] = IF call[h].fn = "alloc" THEN "scan"
                               ELSE IF call[h].page = NULL THEN "unlock"
                               ELSE "load"]
    /\ UNCHANGED <<rc, dirty, held, call, snap>>

SpinLockKept(h) ==
    /\ pc[h] = "lock"
    /\ ~lock
    /\ lock' = TRUE
    /\ pc' = [pc EXCEPT ![h] = IF call[h].fn = "alloc" THEN "scan"
                               ELSE IF call[h].page = NULL THEN "idle"
                               ELSE "load"]
    /\ UNCHANGED <<rc, dirty, held, call, snap>>

\* The compare-and-exchange that succeeds, then the early return of
\* incr_page_ref_count and dealloc_pages when page_ref_count gives NULL.
spin_lock(h) ==
    /\ pc[h] = "lock"
    /\ ~lock
    /\ lock' = TRUE
    /\ pc' = [pc EXCEPT ![h] = IF call[h].fn = "alloc" THEN "scan"
                               ELSE IF call[h].page = NULL THEN "unlock"
                               ELSE "load"]
    /\ UNCHANGED <<rc, dirty, held, call, snap>>

\* A mistake: the inner loop of the search is missing.
FitsFirst(p, n) == rc[p] = 0

Fits(p, n) == \A q \in Span(p, n) : rc[q] = 0

\* The starts the search tries: p < heap_bottom - count, so never the last.
Starts(n) == 0 .. NPages - n - 1

FirstFit(p, n) == Fits(p, n) /\ \A q \in 0 .. p - 1 : ~Fits(q, n)

Scan(h) ==
    /\ pc[h] = "scan"
    /\ \/ \E p \in Starts(call[h].n) :
             /\ FirstFit(p, call[h].n)
             /\ call' = [call EXCEPT ![h].page = p]
             /\ pc' = [pc EXCEPT ![h] = "claim"]
       \/ /\ \A p \in Starts(call[h].n) : ~Fits(p, call[h].n)
          /\ pc' = [pc EXCEPT ![h] = "unlock"]
          /\ UNCHANGED call
    /\ UNCHANGED <<lock, rc, dirty, held, snap>>

Claim(h) ==
    /\ pc[h] = "claim"
    /\ rc' = [q \in Pages |-> IF q \in Run(h) THEN 1 ELSE rc[q]]
    /\ pc' = [pc EXCEPT ![h] = "zero"]
    /\ UNCHANGED <<lock, dirty, held, call, snap>>

\* A mistake: one page is cleared, whatever count is.
ZeroFirst(h) ==
    /\ pc[h] = "zero"
    /\ dirty' = [dirty EXCEPT ![call[h].page] = FALSE]
    /\ pc' = [pc EXCEPT ![h] = "unlock"]
    /\ UNCHANGED <<lock, rc, held, call, snap>>

Zero(h) ==
    /\ pc[h] = "zero"
    /\ dirty' = [q \in Pages |-> IF q \in Run(h) THEN FALSE ELSE dirty[q]]
    /\ pc' = [pc EXCEPT ![h] = "unlock"]
    /\ UNCHANGED <<lock, rc, held, call, snap>>

\* One turn of the loops of incr_page_ref_count and dealloc_pages: read the
\* counter, write back what becomes of it.
Load(h) ==
    /\ pc[h] = "load"
    /\ snap' = [snap EXCEPT ![h] = rc[call[h].page + call[h].i]]
    /\ pc' = [pc EXCEPT ![h] = "store"]
    /\ UNCHANGED <<lock, rc, dirty, held, call>>

Incremented(c) == IF c # RcMax /\ c # 0 THEN c + 1 ELSE c
\* A mistake: the page is freed, whoever else holds it.
DecrementedToZero(c) == 0

Decremented(c) == IF c # 0 THEN c - 1 ELSE c

\* A mistake in the loops: i < count - 1.
StoreShort(h) ==
    /\ pc[h] = "store"
    /\ rc' = [rc EXCEPT ![call[h].page + call[h].i] =
                 IF call[h].fn = "incr" THEN Incremented(snap[h])
                                        ELSE Decremented(snap[h])]
    /\ call' = [call EXCEPT ![h].i = call[h].i + 1]
    /\ pc' = [pc EXCEPT ![h] = IF call[h].i + 2 < call[h].n THEN "load"
                                                           ELSE "unlock"]
    /\ UNCHANGED <<lock, dirty, held, snap>>

Store(h) ==
    /\ pc[h] = "store"
    /\ rc' = [rc EXCEPT ![call[h].page + call[h].i] =
                 IF call[h].fn = "incr" THEN Incremented(snap[h])
                                        ELSE Decremented(snap[h])]
    /\ call' = [call EXCEPT ![h].i = call[h].i + 1]
    /\ pc' = [pc EXCEPT ![h] = IF call[h].i + 1 < call[h].n THEN "load"
                                                           ELSE "unlock"]
    /\ UNCHANGED <<lock, dirty, held, snap>>

\* References the returning call leaves with its caller, per page of the run.
Returned(fn) == IF fn = "alloc" THEN 1 ELSE IF fn = "incr" THEN 2 ELSE 0

spin_unlock(h) ==
    /\ pc[h] = "unlock"
    /\ lock' = FALSE
    /\ held' = [q \in Pages |-> IF q \in Run(h)
                                THEN held[q] + Returned(call[h].fn)
                                ELSE held[q]]
    /\ call' = [call EXCEPT ![h] = NoCall]
    /\ pc' = [pc EXCEPT ![h] = "idle"]
    /\ UNCHANGED <<rc, dirty, snap>>

\* An owner of a page writes to it.
Write(p) ==
    /\ held[p] > 0
    /\ dirty' = [dirty EXCEPT ![p] = TRUE]
    /\ UNCHANGED <<lock, rc, held, pc, call, snap>>

-----------------------------------------------------------------------------
Begin(h) ==
    \/ \E n \in 1 .. MaxCount : alloc_pages(h, n)
    \/ \E p \in Pages, n \in 1 .. MaxCount : incr_page_ref_count(h, p, n)
    \/ \E p \in Pages, n \in 1 .. MaxCount : dealloc_pages(h, p, n)
    \/ \E fn \in {"incr", "dealloc"} : OnNull(h, fn)

Step(h) ==
    \/ spin_lock(h)
    \/ Scan(h)
    \/ Claim(h)
    \/ Zero(h)
    \/ Load(h)
    \/ Store(h)
    \/ spin_unlock(h)

Next ==
    \/ \E h \in Harts : Begin(h) \/ Step(h)
    \/ \E p \in Pages : Write(p)

Spec == Init /\ [][Next]_vars

\* A hart inside a function keeps executing it: traps are off in the kernel.
FairSpec == Spec /\ \A h \in Harts : WF_vars(Step(h))

-----------------------------------------------------------------------------
PcValues == {"idle", "lock", "scan", "claim", "zero", "load", "store", "unlock"}
InCritical(h) == pc[h] \notin {"idle", "lock"}

\* Every variable keeps its type; the counters stay within 16 bits.
TypeOK ==
    /\ lock \in BOOLEAN
    /\ rc \in [Pages -> 0 .. RcMax]
    /\ dirty \in [Pages -> BOOLEAN]
    /\ held \in [Pages -> Nat]
    /\ pc \in [Harts -> PcValues]
    /\ call \in [Harts -> Calls]
    /\ snap \in [Harts -> 0 .. RcMax]

\* At most one hart is between spin_lock and spin_unlock of mutating_heap, and
\* the lock is set exactly while one is.
MutualExclusion ==
    /\ \A g, h \in Harts : InCritical(g) /\ InCritical(h) => g = h
    /\ lock <=> \E h \in Harts : InCritical(h)

\* What alloc_pages found, and what the loops have read, is still so when they
\* act on it: the run chosen is free and the first one that is, the counter
\* loaded has not changed, and a search that failed is over a full heap.
CheckedStillTrue ==
    \A h \in Harts :
       /\ pc[h] = "claim" => FirstFit(call[h].page, call[h].n)
       /\ pc[h] = "store" => snap[h] = rc[call[h].page + call[h].i]
       /\ pc[h] = "unlock" /\ call[h].fn = "alloc" /\ call[h].page = NULL
             => \A p \in Starts(call[h].n) : ~Fits(p, call[h].n)

\* The counter of a page is the number of references that exist to it: none is
\* lost or invented by calls of several harts that overlap.
RcExact ==
    \A q \in Pages :
       rc[q] = held[q] + Cardinality(Pinned(q)) + Cardinality(Shared(q))

\* alloc_pages hands out pages to which nobody else has a reference, through
\* the allocator or inside a call on it, and never a page reserved at boot.
FreshPagesExclusive ==
    \A h \in Harts : call[h].fn = "alloc" /\ pc[h] \in {"zero", "unlock"} =>
       \A q \in Run(h) :
          /\ q \notin Reserved
          /\ rc[q] = 1 /\ held[q] = 0
          /\ \A g \in Harts \ {h} : q \notin Run(g)

\* "Allocates a number of pages, zeroing out the values": a page that was in
\* use before holds only zeros when alloc_pages returns it.
FreshPagesZeroed ==
    \A h \in Harts : call[h].fn = "alloc" /\ pc[h] = "unlock" =>
       \A q \in Run(h) : ~dirty[q]

\* "Marks the given pages as used": what the boot loader put in the initrd is
\* never handed out as a free page.
InitrdNeverHandedOut ==
    \A h \in Harts : call[h].fn = "alloc" /\ pc[h] = "unlock" =>
       Run(h) \cap Initrd = {}

\* Calls of several harts add up to steps of the abstract pool.
Pool == INSTANCE PagePool WITH refs <- rc, Referenced <- Reserved
PoolSpec == Pool!Spec

\* A hart that holds mutating_heap releases it, on every path through the
\* functions, so that the harts spinning on it are not stuck forever.
LockReleased == lock ~> ~lock
=============================================================================
