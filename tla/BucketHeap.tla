----------------------------- MODULE BucketHeap -----------------------------
(***************************************************************************)
(* malloc, free and realloc of the kernel (memory.c, second half): free    *)
(* lists of buckets by size class, carved out of chunks of pages, one      *)
(* doubly linked list of the buckets in use, and whole pages for what is   *)
(* larger than the largest class.  Memory is an array of words, of which   *)
(* only the bucket headers are kept.  The code between taking and          *)
(* releasing GLOBAL_ALLOC.mutating is one step; realloc takes it twice and *)
(* works outside it in between.                                            *)
(***************************************************************************)
EXTENDS Integers, FiniteSets

CONSTANTS Harts,      \* harts that call the heap
          Classes,    \* data sizes of the free lists: 16, 64, ... 65536
          Hdr,        \* sizeof(struct s_free_bucket)
          PageLen,    \* PAGE_SIZE
          ChunkPages, \* GLOBAL_ALLOC_FALLBACK_PAGE_COUNT
          NPages,     \* pages of the page allocator
          Sizes,      \* sizes the callers ask for
          MaxLive     \* bound: buckets of one class in use at a time

ASSUME BucketHeapAssumption ==
    /\ Classes \subseteq Nat \ {0} /\ Sizes \subseteq Nat \ {0}
    /\ Hdr \in Nat \ {0} /\ PageLen \in Nat \ {0} /\ ChunkPages \in Nat \ {0}
    /\ NPages \in Nat \ {0} /\ MaxLive \in Nat

VARIABLES hdr,     \* the header at each address
          free,    \* heads of the free lists
          used,    \* head of the list of buckets in use
          taken,   \* pages the page allocator has handed out
          live,    \* size each bucket was last asked for, 0 if not in use
          moving,  \* realloc calls between their two critical sections
          chunks,  \* first pages of the chunks formatted so far
          faulted  \* the kernel has written through an invalid address

vars == <<hdr, free, used, taken, live, moving, chunks, faulted>>

NULL == 0
Pages == 0 .. NPages - 1
PageAddr(p) == PageLen * (p + 1)
Addrs == PageAddr(0) .. PageAddr(NPages) - 1
PageOf(a) == a \div PageLen - 1
ZeroHdr == [next |-> NULL, prev |-> NULL, size |-> 0]
Idle == [old |-> NULL, new |-> NULL]

Least(S) == CHOOSE x \in S : \A y \in S : x =< y

\* The first page table holds page 0.
Init ==
    /\ hdr = [a \in Addrs |-> ZeroHdr]
    /\ free = [c \in Classes |-> NULL]
    /\ used = NULL
    /\ taken = {0}
    /\ live = [a \in Addrs |-> 0]
    /\ moving = [h \in Harts |-> Idle]
    /\ chunks = {}
    /\ faulted = FALSE

-----------------------------------------------------------------------------
(* The page allocator, as the heap sees it: see module PageAlloc.           *)

Run(p, n) == p .. p + n - 1
Fitting(n) == {p \in 0 .. NPages - n - 1 : Run(p, n) \cap taken = {}}

\* Fresh pages read as zero.
Zeroed(p, n) == [a \in Addrs |-> IF PageOf(a) \in Run(p, n) THEN ZeroHdr ELSE hdr[a]]

\* A mistake: the header is forgotten.
PagesForData(size) == (size + PageLen - 1) \div PageLen

PagesFor(size) == (size + Hdr + PageLen - 1) \div PageLen

-----------------------------------------------------------------------------
IsLarge(size) == \A c \in Classes : size > c
ClassOf(size) == Least({c \in Classes : size =< c})

\* free_buckets_format_unused on a chunk at address base.  The test inside the
\* loop repeats the loop's own condition, so every bucket has a next one: the
\* last formatted bucket points at memory that was not formatted.
format_unused(mem, base, c) ==
    LET size == Hdr + c
        total == ChunkPages * PageLen
        offsets == {i \in 0 .. total - 1 : i % size = 0 /\ i + size < total}
    IN [a \in Addrs |->
          IF a - base \in offsets
          THEN [prev |-> IF a > base THEN a - size ELSE NULL,
                next |-> IF a - base + size < total THEN a + size ELSE NULL,
                size |-> c]
          ELSE mem[a]]

\* Put bucket b in front of the list of buckets in use.
Link(mem, b) ==
    [a \in Addrs |->
       CASE a = b    -> [mem[b] EXCEPT !.next = used, !.prev = NULL]
         [] a = used /\ a # b -> [mem[a] EXCEPT !.prev = b]
         [] OTHER    -> mem[a]]

\* A mistake: the head of the free list stays.
TakeBucketTwice(c, size, b) ==
    /\ free[c] # NULL \/ Fitting(ChunkPages) # {}
    /\ LET p == Least(Fitting(ChunkPages))
           mem == IF free[c] # NULL THEN hdr
                  ELSE format_unused(Zeroed(p, ChunkPages), PageAddr(p), c)
       IN /\ b = IF free[c] # NULL THEN free[c] ELSE PageAddr(p)
          /\ taken' = IF free[c] # NULL THEN taken ELSE taken \cup Run(p, ChunkPages)
          /\ chunks' = IF free[c] # NULL THEN chunks ELSE chunks \cup {p}
          /\ hdr' = Link(mem, b)
          /\ free' = [free EXCEPT ![c] = b]

\* A bucket of size class c leaves the free list, refilled if it was empty.
TakeBucket(c, size, b) ==
    \/ /\ free[c] # NULL
       /\ b = free[c]
       /\ hdr' = Link(hdr, b)
       /\ free' = [free EXCEPT ![c] = hdr[b].next]
       /\ UNCHANGED <<taken, chunks>>
    \/ /\ free[c] = NULL
       /\ Fitting(ChunkPages) # {}
       /\ LET p == Least(Fitting(ChunkPages))
              mem == format_unused(Zeroed(p, ChunkPages), PageAddr(p), c)
          IN /\ b = PageAddr(p)
             /\ taken' = taken \cup Run(p, ChunkPages)
             /\ hdr' = Link(mem, b)
             /\ free' = [free EXCEPT ![c] = mem[b].next]
       /\ chunks' = chunks \cup {PageOf(b)}

TakePages(size, b) ==
    LET n == PagesFor(size) IN
    /\ Fitting(n) # {}
    /\ LET p == Least(Fitting(n))
           mem == [Zeroed(p, n) EXCEPT ![PageAddr(p)].size = size]
       IN /\ b = PageAddr(p)
          /\ taken' = taken \cup Run(p, n)
          /\ hdr' = Link(mem, b)
    /\ UNCHANGED <<free, chunks>>

\* The buckets of class c in use, which MaxLive bounds.
InUse(c) == {a \in Addrs : live[a] # 0 /\ hdr[a].size = c}

free_buckets_alloc(size, b) ==
    /\ IF IsLarge(size) THEN TakePages(size, b)
       ELSE /\ Cardinality(InUse(ClassOf(size))) < MaxLive
            /\ TakeBucket(ClassOf(size), size, b)
    /\ used' = b

\* alloc_pages has failed.  phys2safe turns its NULL into the start of kernel
\* space, the test for NULL does not fire, and the header goes to physical
\* address 0, where there is no memory.
AllocFails(size) ==
    /\ IF IsLarge(size) THEN Fitting(PagesFor(size)) = {}
       ELSE /\ Cardinality(InUse(ClassOf(size))) < MaxLive
            /\ free[ClassOf(size)] = NULL /\ Fitting(ChunkPages) = {}
    /\ faulted' = TRUE
    /\ UNCHANGED <<hdr, free, used, taken, live, moving, chunks>>

malloc(size) ==
    \/ \E b \in Addrs :
          /\ free_buckets_alloc(size, b)
          /\ live' = [live EXCEPT ![b] = size]
          /\ UNCHANGED <<moving, faulted>>
    \/ AllocFails(size)

-----------------------------------------------------------------------------
\* A mistake: the bucket behind b keeps its backward link.
UnlinkForward(b) ==
    [a \in Addrs |->
       IF a = b THEN [hdr[b] EXCEPT !.next = NULL, !.prev = NULL]
       ELSE [hdr[a] EXCEPT !.next = IF a = hdr[b].prev THEN hdr[b].next ELSE @]]

\* Unlink bucket b from the list of buckets in use.
Unlink(b) ==
    [a \in Addrs |->
       IF a = b THEN [hdr[b] EXCEPT !.next = NULL, !.prev = NULL]
       ELSE [hdr[a] EXCEPT !.next = IF a = hdr[b].prev THEN hdr[b].next ELSE @,
                           !.prev = IF a = hdr[b].next THEN hdr[b].prev ELSE @]]

\* Put bucket b in front of the free list of class c.
Push(mem, b, c) ==
    [a \in Addrs |->
       CASE a = b -> [mem[b] EXCEPT !.next = free[c]]
         [] a # b /\ a = free[c] -> [mem[a] EXCEPT !.prev = b]
         [] OTHER -> mem[a]]

\* A mistake: the page count of a large bucket leaves out the header.
FreeData(b) ==
    /\ used' = IF b = used THEN hdr[b].next ELSE used
    /\ live' = [live EXCEPT ![b] = 0]
    /\ LET size == hdr[b].size IN
       \/ /\ ~IsLarge(size)
          /\ hdr' = Push(Unlink(b), b, ClassOf(size))
          /\ free' = [free EXCEPT ![ClassOf(size)] = b]
          /\ UNCHANGED taken
       \/ /\ IsLarge(size)
          /\ hdr' = Unlink(b)
          /\ taken' = taken \ Run(PageOf(b), PagesForData(size))
          /\ UNCHANGED free
    /\ UNCHANGED <<chunks, faulted>>

\* free by the size in the header, which for a bucket that was never formatted
\* is 0.
Free(b) ==
    /\ used' = IF b = used THEN hdr[b].next ELSE used
    /\ live' = [live EXCEPT ![b] = 0]
    /\ LET size == hdr[b].size IN
       \/ /\ ~IsLarge(size)
          /\ hdr' = Push(Unlink(b), b, ClassOf(size))
          /\ free' = [free EXCEPT ![ClassOf(size)] = b]
          /\ UNCHANGED taken
       \/ /\ IsLarge(size)
          /\ hdr' = Unlink(b)
          /\ taken' = taken \ Run(PageOf(b), PagesFor(size))
          /\ UNCHANGED free
    /\ UNCHANGED <<chunks, faulted>>

\* The buckets callers may pass to free and realloc: not those a realloc owns.
Owned == {a \in Addrs : live[a] # 0
                        /\ \A h \in Harts : a \notin {moving[h].old, moving[h].new}}

FreeCall(b) == b \in Owned /\ Free(b) /\ UNCHANGED moving

\* realloc: the size is read without the lock.  A bucket that is large enough
\* is kept, otherwise a new one is allocated.
realloc(h, b, size) ==
    /\ moving[h] = Idle
    /\ b \in Owned
    /\ \/ /\ hdr[b].size >= size
          /\ live' = [live EXCEPT ![b] = size]
          /\ UNCHANGED <<hdr, free, used, taken, moving, chunks, faulted>>
       \/ /\ hdr[b].size < size
          /\ \E new \in Addrs :
                /\ free_buckets_alloc(size, new)
                /\ live' = [live EXCEPT ![new] = size]
                /\ moving' = [moving EXCEPT ![h] = [old |-> b, new |-> new]]
          /\ UNCHANGED faulted
       \/ hdr[b].size < size /\ AllocFails(size)

\* The memcpy to the new bucket, then free of the old one.
ReallocFree(h) ==
    /\ moving[h] # Idle
    /\ Free(moving[h].old)
    /\ moving' = [moving EXCEPT ![h] = Idle]

Next ==
    /\ ~faulted
    /\ \/ \E size \in Sizes : malloc(size)
       \/ \E b \in Addrs : FreeCall(b)
       \/ \E h \in Harts, b \in Addrs, size \in Sizes : realloc(h, b, size)
       \/ \E h \in Harts : ReallocFree(h)

Spec == Init /\ [][Next]_vars

-----------------------------------------------------------------------------
\* The buckets of the list that starts at head, with the NULL that ends it; a
\* list that does not end has no NULL.
Chain(head) ==
    LET node[i \in 0 .. Cardinality(Addrs)] ==
          IF i = 0 THEN head
          ELSE IF node[i - 1] = NULL THEN NULL ELSE hdr[node[i - 1]].next
    IN {node[i] : i \in DOMAIN node}

Members(head) == Chain(head) \ {NULL}
Live == {a \in Addrs : live[a] # 0}

\* The list of buckets in use holds exactly the buckets in use, ends, and its
\* backward links mirror its forward links, so that free can unlink from it.
UsedListExact ==
    /\ NULL \in Chain(used)
    /\ Members(used) = Live
    /\ used # NULL => hdr[used].prev = NULL
    /\ \A a \in Live : hdr[a].next # NULL => hdr[hdr[a].next].prev = a

\* The words of a chunk.
ChunkWords(p) == PageAddr(p) .. PageAddr(p + ChunkPages) - 1

\* The free lists end, share no bucket with each other or with the callers, and
\* every bucket on the list of a class, except the one that ends it, has the size
\* of the class and lies in a chunk with all its words.  (The one that ends it was
\* never formatted and reaches out of the chunk: see InsideChunk.)
FreeListsSound ==
    \A c \in Classes :
       /\ NULL \in Chain(free[c])
       /\ Members(free[c]) \cap Live = {}
       /\ \A d \in Classes \ {c} : Members(free[c]) \cap Members(free[d]) = {}
       /\ \A a \in Members(free[c]) : hdr[a].next # NULL =>
             /\ hdr[a].size = c
             /\ \E p \in chunks : a .. a + Hdr + c - 1 \subseteq ChunkWords(p)

\* What is handed out, header included, lies in pages the heap has taken, and
\* no two buckets in use overlap.
Extent(a) == a .. a + Hdr + live[a] - 1
LiveDisjoint ==
    /\ \A a \in Live : Extent(a) \subseteq Addrs
                       /\ \A x \in Extent(a) : PageOf(x) \in taken
    /\ \A a, b \in Live : a # b => Extent(a) \cap Extent(b) = {}

\* A bucket of a chunk never reaches out of the chunk: "else bucket->next =
\* NULL" ends the list at the last bucket that fits.
InsideChunk ==
    \A a \in Live : ~IsLarge(hdr[a].size) =>
       \E p \in chunks : Extent(a) \subseteq ChunkWords(p)

\* Pages are neither lost nor given back twice: those taken are the root table,
\* the chunks, and the pages of the large buckets in use.
PagesBalanced ==
    taken = {0} \cup (UNION {Run(p, ChunkPages) : p \in chunks})
                \cup (UNION {Run(PageOf(a), PagesFor(hdr[a].size)) :
                               a \in {b \in Live : IsLarge(hdr[b].size)}})
=============================================================================
