--------------------------- MODULE BucketHeapProofs ---------------------------
(***************************************************************************)
(* Theorems about the kernel's heap, for every page size, set of size      *)
(* classes, number of harts and amount of memory: as long as no class has  *)
(* more buckets in use than a chunk has formatted ones, the lists are      *)
(* sound, buckets in use do not overlap and no page is lost.  Behind the   *)
(* formatted buckets of a chunk comes the phantom, the bucket that the     *)
(* last formatted one points at and that was never formatted.              *)
(***************************************************************************)
EXTENDS BucketHeap, Loops, FiniteSetTheorems

-----------------------------------------------------------------------------
(* Pages and addresses.                                                     *)

\* The addresses of n pages from page p.
Words(p, n) == PageAddr(p) .. PageAddr(p + n) - 1

\* The constants are numbers.
LEMMA HeapNumbers ==
    /\ PageLen \in Nat \ {0} /\ ChunkPages \in Nat \ {0} /\ NPages \in Nat \ {0} /\ Hdr \in Nat \ {0}
    /\ MaxLive \in Nat /\ \A c \in Classes : c \in Nat \ {0}
    /\ \A size \in Sizes : size \in Nat \ {0}
  BY BucketHeapAssumption

\* An address belongs to the page that its quotient gives.
LEMMA WordsOfPages ==
    ASSUME NEW p \in Nat, NEW n \in Nat, NEW w \in Int
    PROVE  w \in Words(p, n) <=> w \in Nat /\ PageOf(w) \in Run(p, n)
<1> DEFINE q == w \div PageLen
<1>1. PageLen \in Nat \ {0} /\ PageLen \in Int
  BY HeapNumbers
<1>2. q \in Int /\ q * PageLen =< w /\ w < q * PageLen + PageLen
  BY <1>1
<1> HIDE DEF q
<1>3. PageOf(w) = q - 1
  BY DEF PageOf, q
<1>4. PageAddr(p) = (p + 1) * PageLen /\ PageAddr(p + n) = (p + n + 1) * PageLen
  BY <1>1 DEF PageAddr
<1>5. ASSUME NEW x \in Nat PROVE (x * PageLen =< w) <=> (x =< q)
  <2>1. CASE x =< q
    <3>1. x * PageLen =< q * PageLen
      BY <1>1, <1>2, <2>1
    <3>2. QED
      BY <1>1, <1>2, <2>1, <3>1
  <2>2. CASE ~(x =< q)
    <3>1. (q + 1) * PageLen =< x * PageLen
      BY <1>1, <1>2, <2>2
    <3>2. (q + 1) * PageLen = q * PageLen + PageLen
      BY <1>1, <1>2
    <3>3. QED
      BY <1>1, <1>2, <2>2, <3>1, <3>2
  <2>3. QED
    BY <2>1, <2>2
<1>6. p + 1 \in Nat /\ p + n + 1 \in Nat
  OBVIOUS
<1>7. (PageAddr(p) =< w <=> p + 1 =< q) /\ (PageAddr(p + n) =< w <=> p + n + 1 =< q)
  BY <1>4, <1>5, <1>6
<1>8. PageAddr(p) \in Nat /\ PageAddr(p + n) \in Nat
  BY <1>1, <1>4, <1>6
<1>9. QED
  BY <1>2, <1>3, <1>7, <1>8 DEF Words, Run

\* The heap's addresses are those of its pages, and NULL is none of them.
LEMMA AddrFacts ==
    /\ Addrs = Words(0, NPages) /\ Pages = Run(0, NPages) /\ Addrs \subseteq Nat
    /\ NULL \notin Addrs /\ NULL = 0 /\ \A a \in Addrs : PageOf(a) \in Pages
<1>1. NPages \in Nat /\ PageLen \in Nat \ {0} /\ 0 + NPages = NPages
  BY HeapNumbers
<1>2. Addrs = Words(0, NPages) /\ Pages = Run(0, NPages)
  BY <1>1 DEF Addrs, Words, Pages, Run
<1>3. PageAddr(0) \in Nat \ {0}
  BY <1>1 DEF PageAddr
<1>4. Addrs \subseteq Nat /\ NULL \notin Addrs
  BY <1>3 DEF Addrs, NULL
<1>5. \A a \in Addrs : PageOf(a) \in Pages
  BY <1>1, <1>2, <1>4, WordsOfPages
<1>6. QED
  BY <1>2, <1>4, <1>5 DEF NULL

\* The words of pages of the heap.
LEMMA WordsInHeap ==
    ASSUME NEW p \in Nat, NEW n \in Nat, Run(p, n) \subseteq Pages, NEW w \in Words(p, n)
    PROVE  w \in Addrs /\ PageOf(w) \in Run(p, n)
<1>1. w \in Int
  BY DEF Words
<1>2. w \in Nat /\ PageOf(w) \in Run(p, n)
  BY <1>1, WordsOfPages
<1>3. PageOf(w) \in Run(0, NPages) /\ NPages \in Nat
  BY <1>2, AddrFacts, HeapNumbers
<1>4. QED
  BY <1>1, <1>2, <1>3, AddrFacts, WordsOfPages

\* The address of a page is in this page.
LEMMA PageOfAddr ==
    ASSUME NEW p \in Nat
    PROVE  PageAddr(p) \in Nat /\ PageOf(PageAddr(p)) = p
<1>1. PageLen \in Nat \ {0} /\ PageAddr(p) \in Nat /\ PageAddr(p + 1) = PageAddr(p) + PageLen
  BY HeapNumbers DEF PageAddr
<1>2. PageAddr(p) \in Words(p, 1)
  BY <1>1 DEF Words
<1>3. PageOf(PageAddr(p)) \in Run(p, 1)
  BY <1>1, <1>2, WordsOfPages
<1>4. QED
  BY <1>1, <1>3 DEF Run

-----------------------------------------------------------------------------
(* The buckets of a chunk.                                                  *)

Total == ChunkPages * PageLen
Room(c) == Hdr + c
Formatted(c) == (Total - 1) \div Room(c)
Slot(c, p, k) == PageAddr(p) + k * Room(c)
Phantom(c, p) == Slot(c, p, Formatted(c))
SlotsOf(c, p) == {Slot(c, p, k) : k \in 0 .. Formatted(c)}

\* What the theorems suppose: the buckets in use of a class are fewer than those a
\* chunk has room for, so that no caller is given the phantom.
Roomy == \A c \in Classes : MaxLive * Room(c) < Total

\* The formatted buckets fill the chunk but for less than one and a byte.
LEMMA ChunkNumbers ==
    ASSUME NEW c \in Classes
    PROVE  /\ Room(c) \in Nat \ {0} /\ Total \in Nat \ {0} /\ Formatted(c) \in Nat
           /\ Formatted(c) * Room(c) < Total /\ Total =< Formatted(c) * Room(c) + Room(c)
           /\ \A p \in Nat : PageAddr(p) \in Nat /\ PageAddr(p + ChunkPages) = PageAddr(p) + Total
<1>1. Room(c) \in Nat \ {0} /\ PageLen \in Nat \ {0} /\ ChunkPages \in Nat \ {0}
  BY HeapNumbers DEF Room
<1>2. Total \in Nat \ {0}
  BY <1>1 DEF Total
<1>3. \A p \in Nat : PageAddr(p) \in Nat /\ PageAddr(p + ChunkPages) = PageAddr(p) + Total
  BY <1>1 DEF PageAddr, Total
<1> DEFINE t == Total - 1
           r == Room(c)
           f == t \div r
<1>4. t \in Nat /\ r \in Nat \ {0}
  BY <1>1, <1>2
<1> HIDE DEF t, r
<1>5. f \in Nat /\ f * r =< t /\ t < f * r + r
  BY <1>4
<1> HIDE DEF f
<1>6. f * r \in Nat
  BY <1>4, <1>5
<1>7. Formatted(c) = f
  BY DEF Formatted, f, t, r
<1>8. f * r < Total /\ Total =< f * r + r
  BY <1>2, <1>4, <1>5, <1>6 DEF t
<1>9. QED
  BY <1>1, <1>2, <1>3, <1>5, <1>7, <1>8 DEF r

\* Buckets lie in the chunk one behind the other, the formatted ones entirely.
LEMMA SlotFacts ==
    ASSUME NEW c \in Classes, NEW p \in Nat, NEW k \in 0 .. Formatted(c)
    PROVE  /\ Slot(c, p, k) \in Words(p, ChunkPages)
           /\ k < Formatted(c) => Slot(c, p, k) + Room(c) < PageAddr(p + ChunkPages)
           /\ \A j \in 0 .. Formatted(c) : k < j => Slot(c, p, k) + Room(c) =< Slot(c, p, j)
<1> DEFINE r == Room(c)
           f == Formatted(c)
           b == PageAddr(p)
<1>1. /\ r \in Nat \ {0} /\ Total \in Nat \ {0} /\ f \in Nat /\ f * r < Total
      /\ b \in Nat /\ PageAddr(p + ChunkPages) = b + Total /\ k \in Nat /\ k =< f
  BY ChunkNumbers
<1>2. Slot(c, p, k) = b + k * r /\ \A j \in 0 .. f : Slot(c, p, j) = b + j * r
  BY DEF Slot
<1> HIDE DEF r, f, b
<1>3. ASSUME NEW i \in Nat, NEW j \in Nat, i < j PROVE i * r + r =< j * r /\ i * r \in Nat
  <2>1. (i + 1) * r =< j * r /\ (i + 1) * r = i * r + r
    BY <1>1, <1>3
  <2>2. QED
    BY <1>1, <2>1
<1>4. k * r \in Nat /\ k * r =< f * r /\ f * r \in Nat
  BY <1>1
<1>5. Slot(c, p, k) \in Words(p, ChunkPages)
  BY <1>1, <1>2, <1>4 DEF Words, b
<1>6. k < f => Slot(c, p, k) + r < PageAddr(p + ChunkPages)
  BY <1>1, <1>2, <1>3, <1>4
<1>7. ASSUME NEW j \in 0 .. f, k < j PROVE Slot(c, p, k) + r =< Slot(c, p, j)
  <2>1. k * r + r =< j * r /\ j * r \in Nat
    BY <1>1, <1>3, <1>7
  <2>2. QED
    BY <1>1, <1>2, <1>4, <2>1
<1>8. QED
  BY <1>5, <1>6, <1>7 DEF r, f

\* Two buckets of a chunk are different.
LEMMA SlotsDiffer ==
    ASSUME NEW c \in Classes, NEW p \in Nat, NEW k \in 0 .. Formatted(c), NEW j \in 0 .. Formatted(c),
           Slot(c, p, k) = Slot(c, p, j)
    PROVE  k = j
<1>1. Slot(c, p, k) \in Int /\ Room(c) \in Nat \ {0} /\ Formatted(c) \in Nat
  BY SlotFacts, ChunkNumbers DEF Words
<1>2. ~(k < j)
  BY <1>1, SlotFacts
<1>3. ~(j < k)
  BY <1>1, SlotFacts
<1>4. QED
  BY <1>1, <1>2, <1>3

\* There are formatted buckets for all that are in use.
LEMMA RoomyFacts ==
    ASSUME Roomy, NEW c \in Classes
    PROVE  MaxLive =< Formatted(c)
<1> DEFINE r == Room(c)
           f == Formatted(c)
<1>1. /\ r \in Nat \ {0} /\ Total \in Nat \ {0} /\ f \in Nat /\ Total =< f * r + r
      /\ MaxLive \in Nat /\ MaxLive * r < Total
  BY ChunkNumbers, HeapNumbers DEF Roomy
<1> HIDE DEF r, f
<1>2. ASSUME f < MaxLive PROVE FALSE
  <2>1. (f + 1) * r =< MaxLive * r /\ (f + 1) * r = f * r + r /\ f * r \in Nat /\ MaxLive * r \in Nat
    BY <1>1, <1>2
  <2>2. QED
    BY <1>1, <2>1
<1>3. QED
  BY <1>1, <1>2 DEF f

-----------------------------------------------------------------------------
(* Headers.                                                                 *)

HdrSet == [next : Nat, prev : Nat, size : Nat]

\* Link sets the links of b and the backward link of the bucket that was in front.
LEMMA LinkFacts ==
    ASSUME NEW mem \in [Addrs -> HdrSet], NEW b \in Addrs, used \in Nat,
           NEW h, h = Link(mem, b)
    PROVE  /\ h \in [Addrs -> HdrSet] /\ h[b].next = used /\ h[b].prev = NULL
           /\ \A a \in Addrs : h[a].size = mem[a].size
           /\ \A a \in Addrs : a # b => /\ h[a].next = mem[a].next
                                        /\ h[a].prev = IF a = used THEN b ELSE mem[a].prev
<1>1. b \in Nat /\ NULL \in Nat /\ Addrs \subseteq Nat
  BY AddrFacts
<1>2. \A a \in Addrs : h[a] = IF a = b THEN [mem[b] EXCEPT !.next = used, !.prev = NULL]
                              ELSE IF a = used THEN [mem[a] EXCEPT !.prev = b] ELSE mem[a]
  BY DEF Link
<1>3. \A a \in Addrs : mem[a] \in HdrSet
  OBVIOUS
<1>4. /\ h[b] = [mem[b] EXCEPT !.next = used, !.prev = NULL] /\ mem[b] \in HdrSet
  BY <1>2, <1>3
<1>5. h[b] \in HdrSet /\ h[b].next = used /\ h[b].prev = NULL /\ h[b].size = mem[b].size
  BY <1>1, <1>4 DEF HdrSet
<1>6. ASSUME NEW a \in Addrs, a # b
      PROVE  /\ h[a] \in HdrSet /\ h[a].size = mem[a].size /\ h[a].next = mem[a].next
             /\ h[a].prev = IF a = used THEN b ELSE mem[a].prev
  <2>1. h[a] = IF a = used THEN [mem[a] EXCEPT !.prev = b] ELSE mem[a]
    BY <1>2, <1>6
  <2>2. mem[a] \in HdrSet
    BY <1>3
  <2>3. QED
    BY <1>1, <2>1, <2>2 DEF HdrSet
<1>7. h = [a \in Addrs |-> h[a]]
  BY DEF Link
<1>8. h \in [Addrs -> HdrSet]
  BY <1>5, <1>6, <1>7
<1>9. QED
  BY <1>5, <1>6, <1>8

\* free takes b out of the list of buckets in use; f is the front of the free list
\* b is put on, or NULL if there is none.
Unlinked(h, b, f) ==
    /\ h \in [Addrs -> HdrSet] /\ h[b].next = f
    /\ \A a \in Addrs : h[a].size = hdr[a].size
    /\ \A a \in Addrs : a # b =>
          /\ h[a].next = IF a = hdr[b].prev THEN hdr[b].next ELSE hdr[a].next
          /\ a # f => h[a].prev = IF a = hdr[b].next THEN hdr[b].prev ELSE hdr[a].prev

\* A large bucket is only unlinked.
LEMMA UnlinkFacts ==
    ASSUME hdr \in [Addrs -> HdrSet], NEW b \in Addrs
    PROVE  Unlinked(Unlink(b), b, NULL)
<1> DEFINE h == Unlink(b)
<1>1. \A a \in Addrs : hdr[a] \in HdrSet
  OBVIOUS
<1>2. NULL \in Nat
  BY AddrFacts
<1>3. h[b] = [hdr[b] EXCEPT !.next = NULL, !.prev = NULL]
  BY DEF Unlink
<1>4. h[b] \in HdrSet /\ h[b].next = NULL /\ h[b].size = hdr[b].size
  BY <1>1, <1>2, <1>3 DEF HdrSet
<1>5. ASSUME NEW a \in Addrs, a # b
      PROVE  /\ h[a] \in HdrSet /\ h[a].size = hdr[a].size
             /\ h[a].next = IF a = hdr[b].prev THEN hdr[b].next ELSE hdr[a].next
             /\ h[a].prev = IF a = hdr[b].next THEN hdr[b].prev ELSE hdr[a].prev
  <2> DEFINE x == IF a = hdr[b].prev THEN hdr[b].next ELSE hdr[a].next
             y == IF a = hdr[b].next THEN hdr[b].prev ELSE hdr[a].prev
  <2>1. x \in Nat /\ y \in Nat /\ hdr[a] \in HdrSet
    BY <1>1 DEF HdrSet
  <2>2. h[a] = [hdr[a] EXCEPT !.next = x, !.prev = y]
    BY <1>5 DEF Unlink
  <2> HIDE DEF x, y
  <2>3. h[a] \in HdrSet /\ h[a].size = hdr[a].size /\ h[a].next = x /\ h[a].prev = y
    BY <2>1, <2>2 DEF HdrSet
  <2>4. QED
    BY <2>3 DEF x, y
<1>6. h = [a \in Addrs |-> h[a]]
  BY DEF Unlink
<1> HIDE DEF h
<1>7. h \in [Addrs -> HdrSet]
  BY <1>4, <1>5, <1>6
<1>8. QED
  BY <1>4, <1>5, <1>7 DEF Unlinked, h

\* A small one is then pushed.
LEMMA PushFacts ==
    ASSUME hdr \in [Addrs -> HdrSet], NEW b \in Addrs, NEW c \in Classes,
           free \in [Classes -> Nat]
    PROVE  Unlinked(Push(Unlink(b), b, c), b, free[c])
<1> DEFINE u == Unlink(b)
           h == Push(u, b, c)
           f == free[c]
<1>1. Unlinked(u, b, NULL)
  BY UnlinkFacts
<1> HIDE DEF u
<1>2. u \in [Addrs -> HdrSet] /\ \A a \in Addrs : u[a] \in HdrSet
  BY <1>1 DEF Unlinked
<1>3. f \in Nat /\ b \in Nat
  BY AddrFacts
<1>4. h = [a \in Addrs |-> IF a = b THEN [u[b] EXCEPT !.next = f]
                           ELSE IF a = f THEN [u[a] EXCEPT !.prev = b] ELSE u[a]]
  BY DEF Push
<1> HIDE DEF h, f
<1>5. h[b] \in HdrSet /\ h[b].next = f /\ h[b].size = u[b].size
  <2>1. h[b] = [u[b] EXCEPT !.next = f] /\ u[b] \in HdrSet
    BY <1>2, <1>4
  <2>2. QED
    BY <1>3, <2>1 DEF HdrSet
<1>6. ASSUME NEW a \in Addrs, a # b
      PROVE  /\ h[a] \in HdrSet /\ h[a].next = u[a].next /\ h[a].size = u[a].size
             /\ a # f => h[a].prev = u[a].prev
  <2>1. h[a] = IF a = f THEN [u[a] EXCEPT !.prev = b] ELSE u[a]
    BY <1>4, <1>6
  <2>2. u[a] \in HdrSet
    BY <1>2
  <2>3. QED
    BY <1>3, <2>1, <2>2 DEF HdrSet
<1>7. h \in [Addrs -> HdrSet]
  BY <1>4, <1>5, <1>6
<1>8. NULL \notin Addrs
  BY AddrFacts
<1>9. Unlinked(h, b, f)
  BY <1>1, <1>5, <1>6, <1>7, <1>8 DEF Unlinked
<1>10. QED
  BY <1>9 DEF h, u, f

\* A fresh chunk: the formatted buckets, and the phantom, whose header is zero.
LEMMA FormatFacts ==
    ASSUME NEW c \in Classes, NEW p \in Nat, Run(p, ChunkPages) \subseteq Pages,
           hdr \in [Addrs -> HdrSet],
           NEW h, h = format_unused(Zeroed(p, ChunkPages), PageAddr(p), c)
    PROVE  /\ h \in [Addrs -> HdrSet]
           /\ \A a \in Addrs : PageOf(a) \notin Run(p, ChunkPages) => h[a] = hdr[a]
           /\ \A k \in 0 .. Formatted(c) - 1 : /\ h[Slot(c, p, k)].next = Slot(c, p, k + 1)
                                               /\ h[Slot(c, p, k)].size = c
           /\ h[Phantom(c, p)].next = NULL /\ h[Phantom(c, p)].size = 0
<1> DEFINE z == Zeroed(p, ChunkPages)
           r == Room(c)
           f == Formatted(c)
           b == PageAddr(p)
           O == {i \in 0 .. Total - 1 : i % r = 0 /\ i + r < Total}
<1>1. /\ r \in Nat \ {0} /\ Total \in Nat \ {0} /\ f \in Nat /\ f * r < Total /\ Total =< f * r + r
      /\ b \in Nat /\ b + Total = PageAddr(p + ChunkPages) /\ ChunkPages \in Nat /\ c \in Nat
  BY ChunkNumbers, HeapNumbers
<1>2. h = [a \in Addrs |-> IF a - b \in O
                           THEN [prev |-> IF a > b THEN a - r ELSE NULL,
                                 next |-> IF a - b + r < Total THEN a + r ELSE NULL,
                                 size |-> c]
                           ELSE z[a]]
  BY DEF format_unused, Total, Room
<1>3. ZeroHdr \in HdrSet
  BY AddrFacts DEF ZeroHdr, HdrSet
<1>4. z = [a \in Addrs |-> IF PageOf(a) \in Run(p, ChunkPages) THEN ZeroHdr ELSE hdr[a]]
  BY DEF Zeroed
<1>5. \A k \in 0 .. f : Slot(c, p, k) = b + k * r /\ k * r \in Nat
  BY <1>1 DEF Slot
<1> HIDE DEF z, r, f, b
<1>6. \A a \in Addrs : z[a] \in HdrSet
  BY <1>3, <1>4
<1>7. ASSUME NEW a \in Addrs, a - b \in O
      PROVE  /\ h[a].next = a + r /\ h[a].size = c /\ h[a] \in HdrSet
             /\ PageOf(a) \in Run(p, ChunkPages)
  <2>1. a \in Nat /\ NULL \in Nat /\ a - b \in 0 .. Total - 1 /\ a - b + r < Total
    BY <1>7, AddrFacts
  <2> DEFINE x == IF a > b THEN a - r ELSE NULL
  <2>2. x \in Nat
    <3>1. CASE a > b
      <4> DEFINE i == a - b
      <4>1. i \in Nat \ {0} /\ i % r = 0
        BY <1>1, <1>7, <2>1, <3>1
      <4>2. i - r >= 0
        <5> HIDE DEF i
        <5>1. QED
          BY <1>1, <4>1
      <4>3. QED
        BY <1>1, <2>1, <3>1, <4>2
    <3>2. CASE ~(a > b)
      BY <2>1, <3>2
    <3>3. QED
      BY <3>1, <3>2
  <2>3. h[a] = [prev |-> x, next |-> a + r, size |-> c]
    BY <1>2, <1>7, <2>1
  <2> HIDE DEF x
  <2>4. a + r \in Nat
    BY <1>1, <2>1
  <2>5. h[a].next = a + r /\ h[a].size = c /\ h[a] \in HdrSet
    BY <1>1, <2>2, <2>3, <2>4 DEF HdrSet
  <2>6. a \in Words(p, ChunkPages)
    BY <1>1, <2>1 DEF Words, b
  <2>7. QED
    BY <1>1, <2>1, <2>5, <2>6, WordsOfPages
<1>8. \A a \in Addrs : a - b \notin O => h[a] = z[a]
  BY <1>2
<1> HIDE DEF O
<1>9. h \in [Addrs -> HdrSet]
  BY <1>2, <1>6, <1>7, <1>8
<1>10. \A a \in Addrs : PageOf(a) \notin Run(p, ChunkPages) => h[a] = hdr[a]
  BY <1>4, <1>7, <1>8
<1>11. \A k \in 0 .. f : Slot(c, p, k) \in Addrs /\ PageOf(Slot(c, p, k)) \in Run(p, ChunkPages)
  BY <1>1, SlotFacts, WordsInHeap DEF f
<1>12. ASSUME NEW k \in 0 .. f - 1
       PROVE  h[Slot(c, p, k)].next = Slot(c, p, k + 1) /\ h[Slot(c, p, k)].size = c
  <2> DEFINE a == Slot(c, p, k)
             i == k * r
  <2>1. k \in 0 .. f /\ k + 1 \in 0 .. f /\ k \in Nat
    BY <1>1
  <2>2. a \in Addrs /\ a = b + i /\ i \in Nat /\ Slot(c, p, k + 1) = b + (k + 1) * r
    BY <1>5, <1>11, <2>1
  <2>3. (k + 1) * r = i + r /\ i + r =< f * r /\ f * r \in Nat
    <3>1. (k + 1) * r =< f * r
      BY <1>1, <2>1
    <3>2. QED
      BY <1>1, <2>1, <3>1
  <2>4. i % r = 0
    BY <1>1, <2>1
  <2> HIDE DEF a, i
  <2>5. a - b = i /\ i \in 0 .. Total - 1 /\ i + r < Total
    BY <1>1, <2>2, <2>3
  <2>6. a - b \in O
    BY <2>4, <2>5 DEF O
  <2>7. h[a].next = a + r /\ h[a].size = c
    BY <1>7, <2>2, <2>6
  <2>8. a + r = Slot(c, p, k + 1)
    BY <1>1, <2>2, <2>3
  <2>9. QED
    BY <2>7, <2>8 DEF a
<1>13. h[Phantom(c, p)] = ZeroHdr
  <2> DEFINE a == Phantom(c, p)
  <2>1. f \in 0 .. f /\ a = Slot(c, p, f)
    BY <1>1 DEF Phantom, f
  <2>2. a \in Addrs /\ PageOf(a) \in Run(p, ChunkPages) /\ a = b + f * r /\ f * r \in Nat
    BY <1>5, <1>11, <2>1
  <2> HIDE DEF a
  <2>3. a - b = f * r
    BY <1>1, <2>2
  <2>4. a - b \notin O
    BY <1>1, <2>2, <2>3 DEF O
  <2>5. QED
    BY <1>4, <1>8, <2>2, <2>4 DEF a
<1>14. h[Phantom(c, p)].next = NULL /\ h[Phantom(c, p)].size = 0
  BY <1>13 DEF ZeroHdr
<1>15. QED
  BY <1>9, <1>10, <1>12, <1>14 DEF f

-----------------------------------------------------------------------------
(* Lists.  u numbers the buckets of a list from its end: u[0] is NULL and   *)
(* u[m] the head.                                                           *)

Linked(h, head, S, m, u) ==
    /\ m \in Nat /\ u \in [0 .. m -> Nat] /\ u[0] = NULL /\ u[m] = head
    /\ \A i \in 1 .. m : u[i] \in S /\ h[u[i]].next = u[i - 1]
    /\ \A a \in S : \E i \in 1 .. m : u[i] = a
    /\ \A i, j \in 1 .. m : u[i] = u[j] => i = j

\* The backward links mirror the forward ones.
Mirrored(h, m, u) == \A i \in 1 .. m : h[u[i]].prev = IF i = m THEN NULL ELSE u[i + 1]

DoublyLinked(h, head, S) == \E m, u : Linked(h, head, S, m, u) /\ Mirrored(h, m, u)

\* A list is the same in a memory with the same links.
LEMMA LinkedSame ==
    ASSUME NEW h, NEW g, NEW head, NEW S, NEW m, NEW u, Linked(h, head, S, m, u),
           \A a \in S : g[a].next = h[a].next
    PROVE  Linked(g, head, S, m, u)
  BY DEF Linked

\* A bucket in front of the list.
LEMMA LinkedPush ==
    ASSUME NEW h, NEW g, NEW head, NEW S \in SUBSET Addrs, NEW m, NEW u, Linked(h, head, S, m, u),
           \A a \in S : g[a].next = h[a].next,
           NEW b \in Addrs, b \notin S, g[b].next = head,
           NEW w, w = [i \in 0 .. m + 1 |-> IF i = m + 1 THEN b ELSE u[i]]
    PROVE  Linked(g, b, S \cup {b}, m + 1, w)
<1>1. m \in Nat /\ b \in Nat /\ u \in [0 .. m -> Nat]
  BY AddrFacts DEF Linked
<1>2. w \in [0 .. m + 1 -> Nat] /\ w[0] = NULL /\ w[m + 1] = b /\ m + 1 \in Nat
  BY <1>1 DEF Linked
<1>3. \A i \in 0 .. m : w[i] = u[i]
  BY <1>1
<1>4. ASSUME NEW i \in 1 .. m + 1 PROVE w[i] \in S \cup {b} /\ g[w[i]].next = w[i - 1]
  <2>1. CASE i = m + 1
    <3>1. w[i] = b /\ w[i - 1] = u[m] /\ u[m] = head
      BY <1>1, <1>3, <2>1 DEF Linked
    <3>2. QED
      BY <3>1
  <2>2. CASE i # m + 1
    <3>1. i \in 1 .. m /\ i - 1 \in 0 .. m /\ i \in 0 .. m
      BY <1>1, <2>2
    <3>2. w[i] = u[i] /\ w[i - 1] = u[i - 1] /\ u[i] \in S /\ h[u[i]].next = u[i - 1]
      BY <1>3, <3>1 DEF Linked
    <3>3. QED
      BY <3>2
  <2>3. QED
    BY <2>1, <2>2
<1>5. ASSUME NEW a \in S \cup {b} PROVE \E i \in 1 .. m + 1 : w[i] = a
  <2>1. CASE a = b
    BY <1>1, <1>2, <2>1
  <2>2. CASE a \in S
    <3>1. PICK i \in 1 .. m : u[i] = a
      BY <2>2 DEF Linked
    <3>2. i \in 1 .. m + 1 /\ w[i] = a
      BY <1>1, <1>3, <3>1
    <3>3. QED
      BY <3>2
  <2>3. QED
    BY <2>1, <2>2
<1>6. ASSUME NEW i \in 1 .. m + 1, NEW j \in 1 .. m + 1, w[i] = w[j] PROVE i = j
  <2>1. \A x \in 1 .. m + 1 : x # m + 1 => x \in 1 .. m /\ w[x] = u[x] /\ w[x] # b
    BY <1>1, <1>3 DEF Linked
  <2>2. QED
    BY <1>2, <1>6, <2>1 DEF Linked
<1>7. QED
  BY <1>2, <1>4, <1>5, <1>6 DEF Linked

\* The front of a list is taken.
LEMMA LinkedPop ==
    ASSUME NEW h, NEW head, NEW S, NEW m, NEW u, Linked(h, head, S, m, u), m - 1 >= 1,
           NEW T, T = S \ {head}
    PROVE  /\ head \in S
           /\ \E w : Linked(h, h[head].next, T, m - 1, w) /\ w[1] = u[1]
<1> DEFINE w == [i \in 0 .. m - 1 |-> u[i]]
<1>1. m \in Nat \ {0} /\ m \in 1 .. m /\ u \in [0 .. m -> Nat] /\ u[m] = head /\ m - 1 \in Nat
  BY DEF Linked
<1>2. head \in S /\ h[head].next = u[m - 1]
  BY <1>1 DEF Linked
<1>3. \A i \in 0 .. m - 1 : w[i] = u[i] /\ i \in 0 .. m
  BY <1>1
<1>4. w \in [0 .. m - 1 -> Nat] /\ w[0] = NULL /\ w[m - 1] = u[m - 1]
  BY <1>1, <1>3 DEF Linked
<1>5. ASSUME NEW i \in 1 .. m - 1 PROVE w[i] \in S \ {head} /\ h[w[i]].next = w[i - 1]
  <2>1. i \in 1 .. m /\ i # m /\ i \in 0 .. m - 1 /\ i - 1 \in 0 .. m - 1
    BY <1>1
  <2>2. w[i] = u[i] /\ w[i - 1] = u[i - 1] /\ u[i] \in S /\ h[u[i]].next = u[i - 1]
    BY <1>3, <2>1 DEF Linked
  <2>3. u[i] # u[m]
    BY <1>1, <2>1 DEF Linked
  <2>4. QED
    BY <1>1, <2>2, <2>3
<1>6. ASSUME NEW a \in S \ {head} PROVE \E i \in 1 .. m - 1 : w[i] = a
  <2>1. PICK i \in 1 .. m : u[i] = a
    BY DEF Linked
  <2>2. i # m
    BY <1>1, <2>1
  <2>3. i \in 1 .. m - 1 /\ w[i] = a
    BY <1>1, <1>3, <2>1, <2>2
  <2>4. QED
    BY <2>3
<1>7. \A i, j \in 1 .. m - 1 : w[i] = w[j] => i = j
  <2>1. \A i \in 1 .. m - 1 : i \in 1 .. m /\ w[i] = u[i]
    BY <1>1, <1>3
  <2>2. QED
    BY <2>1 DEF Linked
<1>8. w[1] = u[1]
  BY <1>1
<1> HIDE DEF w
<1>9. Linked(h, h[head].next, T, m - 1, w)
  BY <1>1, <1>2, <1>4, <1>5, <1>6, <1>7 DEF Linked
<1>10. QED
  BY <1>2, <1>8, <1>9

\* The neighbours of b are linked with each other.
Closed(h, g, S, b) ==
    \A a \in S : a # b =>
       /\ g[a].next = IF a = h[b].prev THEN h[b].next ELSE h[a].next
       /\ g[a].prev = IF a = h[b].next THEN h[b].prev ELSE h[a].prev

\* A bucket is taken out of a list with backward links, wherever it is.
LEMMA LinkedCut ==
    ASSUME NEW h, NEW g, NEW head, NEW S \in SUBSET Addrs, NEW m, NEW u,
           Linked(h, head, S, m, u), Mirrored(h, m, u), NEW b \in S, Closed(h, g, S, b),
           NEW front, front = IF b = head THEN h[b].next ELSE head, NEW T, T = S \ {b}
    PROVE  DoublyLinked(g, front, T) /\ h[b].prev \in S \cup {NULL}
<1>1. m \in Nat /\ u \in [0 .. m -> Nat] /\ u[0] = NULL /\ u[m] = head /\ NULL \notin S
  BY AddrFacts DEF Linked
<1>2. PICK k \in 1 .. m : u[k] = b
  BY DEF Linked
<1> DEFINE at(i) == IF i < k THEN i ELSE i + 1
           w == [i \in 0 .. m - 1 |-> u[at(i)]]
<1>3. \A i \in 1 .. m : u[i] \in S /\ u[i] # NULL /\ h[u[i]].next = u[i - 1]
                        /\ h[u[i]].prev = IF i = m THEN NULL ELSE u[i + 1]
  BY <1>1 DEF Linked, Mirrored
<1>4. \A i, j \in 1 .. m : u[i] = u[j] => i = j
  BY DEF Linked
<1>5. k \in Nat /\ k >= 1 /\ k =< m /\ m - 1 \in Nat
  BY <1>1, <1>2
<1>6. h[b].next = u[k - 1] /\ h[b].prev = IF k = m THEN NULL ELSE u[k + 1]
  BY <1>2, <1>3
<1>7. \A i \in 0 .. m - 1 : w[i] = u[at(i)] /\ at(i) \in 0 .. m
  BY <1>1, <1>5
<1>8. w \in [0 .. m - 1 -> Nat]
  BY <1>1, <1>7
<1>9. w[0] = NULL
  BY <1>1, <1>5, <1>7
<1>10. w[m - 1] = IF b = head THEN h[b].next ELSE head
  <2>1. CASE k = m
    <3>1. b = head /\ h[b].next = u[m - 1] /\ at(m - 1) = m - 1
      BY <1>1, <1>2, <1>5, <1>6, <2>1
    <3>2. QED
      BY <1>5, <1>7, <3>1
  <2>2. CASE k # m
    <3>1. b # head
      BY <1>1, <1>2, <1>4, <1>5, <2>2
    <3>2. at(m - 1) = m
      BY <1>1, <1>5, <2>2
    <3>3. QED
      BY <1>1, <1>5, <1>7, <3>1, <3>2
  <2>3. QED
    BY <2>1, <2>2
<1>11. \A i \in 1 .. m - 1 : at(i) \in 1 .. m /\ at(i) # k
  BY <1>1, <1>5
<1>12. ASSUME NEW i \in 1 .. m - 1 PROVE w[i] \in S \ {b} /\ g[w[i]].next = w[i - 1]
  <2> DEFINE x == at(i)
  <2>1. i \in 0 .. m - 1 /\ i - 1 \in 0 .. m - 1 /\ x \in 1 .. m /\ x # k
    BY <1>1, <1>11
  <2>2. w[i] = u[x] /\ w[i - 1] = u[at(i - 1)] /\ u[x] \in S
    BY <1>3, <1>7, <2>1
  <2>3. u[x] # b
    BY <1>2, <1>4, <2>1
  <2>4. g[u[x]].next = IF u[x] = h[b].prev THEN h[b].next ELSE h[u[x]].next
    BY <2>2, <2>3 DEF Closed
  <2>5. CASE i = k
    <3>1. x = k + 1 /\ at(i - 1) = k - 1 /\ k # m
      BY <1>1, <1>5, <2>1, <2>5
    <3>2. u[x] = h[b].prev
      BY <1>6, <3>1
    <3>3. QED
      BY <1>6, <2>2, <2>3, <2>4, <3>1, <3>2
  <2>6. CASE i # k
    <3>1. at(i - 1) = x - 1 /\ (k # m => x # k + 1 /\ k + 1 \in 1 .. m)
      BY <1>1, <1>5, <2>1, <2>6
    <3>2. u[x] # h[b].prev
      BY <1>3, <1>4, <1>6, <2>1, <3>1
    <3>3. h[u[x]].next = u[x - 1]
      BY <1>3, <2>1
    <3>4. QED
      BY <2>2, <2>3, <2>4, <3>1, <3>2, <3>3
  <2>7. QED
    BY <2>5, <2>6
<1>13. ASSUME NEW a \in S \ {b} PROVE \E i \in 1 .. m - 1 : w[i] = a
  <2>1. PICK j \in 1 .. m : u[j] = a
    BY DEF Linked
  <2>2. j # k
    BY <1>2, <2>1
  <2> DEFINE i == IF j < k THEN j ELSE j - 1
  <2>3. i \in 1 .. m - 1 /\ at(i) = j /\ i \in 0 .. m - 1
    BY <1>1, <1>5, <2>1, <2>2
  <2>4. w[i] = a
    BY <1>7, <2>1, <2>3
  <2>5. QED
    BY <2>3, <2>4
<1>14. ASSUME NEW i \in 1 .. m - 1, NEW j \in 1 .. m - 1, w[i] = w[j] PROVE i = j
  <2>1. i \in 0 .. m - 1 /\ j \in 0 .. m - 1
    BY <1>1
  <2>2. at(i) = at(j)
    BY <1>4, <1>7, <1>11, <1>14, <2>1
  <2>3. QED
    BY <1>5, <2>1, <2>2
<1>15. ASSUME NEW i \in 1 .. m - 1 PROVE g[w[i]].prev = IF i = m - 1 THEN NULL ELSE w[i + 1]
  <2> DEFINE x == at(i)
  <2>1. i \in 0 .. m - 1 /\ x \in 1 .. m /\ x # k /\ (i # m - 1 => i + 1 \in 0 .. m - 1)
    BY <1>1, <1>11
  <2>2. w[i] = u[x] /\ u[x] \in S /\ (i # m - 1 => w[i + 1] = u[at(i + 1)])
    BY <1>3, <1>7, <2>1
  <2>3. u[x] # b
    BY <1>2, <1>4, <2>1
  <2>4. g[u[x]].prev = IF u[x] = h[b].next THEN h[b].prev ELSE h[u[x]].prev
    BY <2>2, <2>3 DEF Closed
  <2>5. CASE i = k - 1
    <3>1. x = k - 1 /\ u[x] = h[b].next
      BY <1>5, <1>6, <2>5
    <3>2. (k = m) <=> (i = m - 1)
      BY <1>1, <1>5, <2>5
    <3>3. i # m - 1 => at(i + 1) = k + 1
      BY <1>5, <2>5
    <3>4. QED
      BY <1>6, <2>2, <2>4, <3>1, <3>2, <3>3
  <2>6. CASE i # k - 1
    <3>1. (i = m - 1 <=> x = m) /\ (i # m - 1 => at(i + 1) = x + 1) /\ (k # 1 => k - 1 \in 1 .. m)
          /\ x # k - 1
      BY <1>1, <1>5, <2>1, <2>6
    <3>2. u[x] # h[b].next
      BY <1>1, <1>3, <1>4, <1>6, <2>1, <3>1, SMTT(30)
    <3>3. h[u[x]].prev = IF x = m THEN NULL ELSE u[x + 1]
      BY <1>3, <2>1
    <3>4. QED
      BY <2>2, <2>4, <3>1, <3>2, <3>3
  <2>7. QED
    BY <2>5, <2>6
<1> HIDE DEF w
<1>16. Linked(g, front, T, m - 1, w)
  BY <1>5, <1>8, <1>9, <1>10, <1>12, <1>13, <1>14 DEF Linked
<1>17. Mirrored(g, m - 1, w)
  BY <1>15 DEF Mirrored
<1>18. h[b].prev \in S \cup {NULL}
  <2>1. k # m => k + 1 \in 1 .. m
    BY <1>1, <1>5
  <2>2. QED
    BY <1>3, <1>6, <2>1
<1>19. QED
  BY <1>16, <1>17, <1>18 DEF DoublyLinked

\* A list has no more buckets than there are addresses.
LEMMA ListShort ==
    ASSUME NEW h, NEW head, NEW S \in SUBSET Addrs, NEW m, NEW u, Linked(h, head, S, m, u)
    PROVE  Cardinality(Addrs) \in Nat /\ m =< Cardinality(Addrs)
<1>1. IsFiniteSet(Addrs)
  <2>1. PageAddr(0) \in Int /\ PageAddr(NPages) - 1 \in Int
    BY HeapNumbers DEF PageAddr
  <2>2. QED
    BY <2>1, FS_Interval DEF Addrs
<1>2. Cardinality(Addrs) \in Nat
  BY <1>1, FS_CardinalityType
<1>3. m \in Nat
  BY DEF Linked
<1>4. ASSUME ~(m =< Cardinality(Addrs)) PROVE FALSE
  <2> DEFINE f == [i \in 1 .. m |-> u[i]]
  <2>1. f \in [1 .. m -> Addrs]
    BY DEF Linked
  <2>2. IsFiniteSet(1 .. m) /\ Cardinality(1 .. m) = m
    BY <1>3, FS_Interval
  <2>3. Cardinality(Addrs) < Cardinality(1 .. m)
    BY <1>2, <1>3, <1>4, <2>2
  <2>4. \A i \in 1 .. m : f[i] = u[i]
    OBVIOUS
  <2> HIDE DEF f
  <2>5. \E x, y \in 1 .. m : x # y /\ f[x] = f[y]
    BY <1>1, <2>1, <2>2, <2>3, FS_PigeonHole
  <2>6. QED
    BY <2>4, <2>5 DEF Linked
<1>5. QED
  BY <1>2, <1>4

\* Following the links from the head visits the buckets of a list and then NULL.
LEMMA ListChain ==
    ASSUME NEW head, NEW S \in SUBSET Addrs, NEW m, NEW u, Linked(hdr, head, S, m, u)
    PROVE  NULL \in Chain(head) /\ Members(head) = S
<1> DEFINE N == Cardinality(Addrs)
           Step(g) == [i \in 0 .. N |-> IF i = 0 THEN head
                                        ELSE IF g[i - 1] = NULL THEN NULL ELSE hdr[g[i - 1]].next]
           node == CHOOSE g : g = Step(g)
           v == [i \in 0 .. N |-> IF i =< m THEN u[m - i] ELSE NULL]
<1>1. Chain(head) = {node[i] : i \in DOMAIN node}
  BY DEF Chain
<1>2. N \in Nat /\ m \in Nat /\ m =< N /\ u[0] = NULL /\ u[m] = head
  <2>1. N \in Nat /\ m =< N
    BY ListShort
  <2>2. QED
    BY <2>1 DEF Linked
<1>3. NULL \notin S
  BY AddrFacts
<1> HIDE DEF N
<1>4. ASSUME NEW i \in 0 .. N
      PROVE  v[i] = IF i = 0 THEN head ELSE IF v[i - 1] = NULL THEN NULL ELSE hdr[v[i - 1]].next
  <2>1. CASE i = 0
    BY <1>2, <2>1
  <2>2. CASE i # 0
    <3>1. i \in Nat \ {0} /\ i - 1 \in 0 .. N
      BY <1>2, <2>2
    <3>2. CASE i - 1 < m
      <4>1. m - (i - 1) \in 1 .. m /\ i =< m /\ i - 1 =< m /\ m - (i - 1) - 1 = m - i
        BY <1>2, <3>1, <3>2
      <4>2. v[i - 1] = u[m - (i - 1)] /\ v[i] = u[m - i]
        BY <3>1, <4>1
      <4>3. v[i - 1] # NULL /\ hdr[v[i - 1]].next = u[m - i]
        <5> DEFINE j == m - (i - 1)
        <5>1. j \in 1 .. m /\ j - 1 = m - i /\ v[i - 1] = u[j]
          BY <4>1, <4>2
        <5> HIDE DEF j, v
        <5>2. u[j] \in S /\ hdr[u[j]].next = u[j - 1]
          BY <5>1 DEF Linked
        <5>3. QED
          BY <1>3, <5>1, <5>2
      <4>4. QED
        BY <2>2, <4>2, <4>3
    <3>3. CASE ~(i - 1 < m)
      <4>1. ~(i =< m) /\ (i - 1 =< m => m - (i - 1) = 0)
        BY <1>2, <3>1, <3>3
      <4>2. v[i] = NULL /\ v[i - 1] = NULL
        BY <1>2, <3>1, <4>1
      <4>3. QED
        BY <2>2, <4>2
    <3>4. QED
      BY <3>2, <3>3
  <2>3. QED
    BY <2>1, <2>2
<1>5. v = Step(v)
  <2>1. v = [i \in 0 .. N |-> v[i]]
    OBVIOUS
  <2> HIDE DEF v
  <2>2. QED
    BY <1>4, <2>1
<1>6. \E g : g = Step(g)
  BY <1>5
<1>7. node = Step(node)
  BY <1>6
<1> HIDE DEF node, v
<1>8. \A n \in 0 .. N : node[n] = v[n]
  <2> DEFINE T == {n \in Nat : n =< N => node[n] = v[n]}
  <2>1. 0 \in T
    BY <1>2, <1>4, <1>7
  <2>2. ASSUME NEW n \in Nat, n \in T PROVE n + 1 \in T
    <3> SUFFICES ASSUME n + 1 =< N PROVE node[n + 1] = v[n + 1]
      OBVIOUS
    <3>1. n + 1 \in 0 .. N /\ n + 1 # 0 /\ n + 1 - 1 = n /\ node[n] = v[n]
      BY <1>2, <2>2
    <3>2. node[n + 1] = IF node[n] = NULL THEN NULL ELSE hdr[node[n]].next
      <4> DEFINE k == n + 1
      <4>1. k \in 0 .. N /\ k # 0 /\ k - 1 = n
        BY <3>1
      <4> HIDE DEF k
      <4>2. node[k] = IF node[k - 1] = NULL THEN NULL ELSE hdr[node[k - 1]].next
        BY <1>7, <4>1
      <4>3. QED
        BY <4>1, <4>2 DEF k
    <3>3. v[n + 1] = IF v[n] = NULL THEN NULL ELSE hdr[v[n]].next
      BY <1>4, <3>1
    <3>4. QED
      BY <3>1, <3>2, <3>3
  <2> HIDE DEF T
  <2>3. Nat \subseteq T
    BY <2>1, <2>2, SetInduction
  <2>4. \A n \in 0 .. N : n \in T /\ n =< N
    BY <1>2, <2>3
  <2>5. QED
    BY <2>4 DEF T
<1>9. DOMAIN node = 0 .. N
  BY <1>7
<1>10. Chain(head) = {v[i] : i \in 0 .. N}
  BY <1>1, <1>8, <1>9
<1> USE DEF v
<1>11. m \in 0 .. N /\ v[m] = NULL
  BY <1>2
<1>12. \A i \in 0 .. N : v[i] = NULL \/ v[i] \in S
  <2>1. ASSUME NEW i \in 0 .. N, i < m PROVE v[i] \in S
    <3>1. m - i \in 1 .. m /\ v[i] = u[m - i]
      BY <1>2, <2>1
    <3>2. QED
      BY <3>1 DEF Linked
  <2>2. ASSUME NEW i \in 0 .. N, ~(i < m) PROVE v[i] = NULL
    <3>1. i =< m => m - i = 0
      BY <1>2, <2>2
    <3>2. QED
      BY <1>2, <3>1
  <2>3. QED
    BY <2>1, <2>2
<1>13. ASSUME NEW a \in S PROVE \E i \in 0 .. N : v[i] = a
  <2>1. PICK j \in 1 .. m : u[j] = a
    BY DEF Linked
  <2>2. m - j \in 0 .. N /\ m - j =< m /\ m - (m - j) = j
    BY <1>2
  <2>3. v[m - j] = a
    BY <2>1, <2>2
  <2>4. QED
    BY <2>2, <2>3
<1> HIDE DEF v
<1>14. QED
  BY <1>3, <1>10, <1>11, <1>12, <1>13 DEF Members

-----------------------------------------------------------------------------
(* The invariant.  base gives the first page of the chunk of each class, or *)
(* 0: there is at most one, because its free list never runs empty.  len    *)
(* gives the number of pages handed out in one piece from each page, or 0.  *)

Types ==
    /\ hdr \in [Addrs -> HdrSet] /\ free \in [Classes -> Nat] /\ used \in Nat
    /\ live \in [Addrs -> Nat]

Runs(len) ==
    /\ len \in [Pages -> Nat]
    /\ \A p \in Pages : Run(p, len[p]) \subseteq Pages \ {0}
    /\ \A p, q \in Pages : p # q => Run(p, len[p]) \cap Run(q, len[q]) = {}
    /\ taken \subseteq Pages
    /\ \A q \in Pages : q \in taken <=> q = 0 \/ \E p \in Pages : q \in Run(p, len[p])

Chunked(base, len) ==
    /\ base \in [Classes -> Pages]
    /\ chunks = {base[c] : c \in {d \in Classes : base[d] # 0}}
    /\ \A c \in Classes : base[c] # 0 => len[base[c]] = ChunkPages
    /\ \A c, d \in Classes : base[c] = base[d] /\ base[c] # 0 => c = d

\* The headers of a chunk, and the free list: the buckets that are not in use, the
\* phantom last.
Formed(c, p) ==
    /\ \A k \in 0 .. Formatted(c) - 1 : hdr[Slot(c, p, k)].size = c
    /\ hdr[Phantom(c, p)].size = 0 /\ Phantom(c, p) \notin Live

FreeList(c, p) ==
    \E n, s : Linked(hdr, free[c], SlotsOf(c, p) \ Live, n, s) /\ s[1] = Phantom(c, p)

FreeOK(base) ==
    \A c \in Classes : IF base[c] = 0 THEN free[c] = NULL
                       ELSE Formed(c, base[c]) /\ FreeList(c, base[c])

UsedOK == DoublyLinked(hdr, used, Live)

\* A bucket in use is a formatted bucket of a chunk, or starts pages of its own.
Small(base, a) ==
    \E c \in Classes : \E k \in 0 .. Formatted(c) - 1 :
       base[c] # 0 /\ a = Slot(c, base[c], k) /\ live[a] =< c

Large(len, a) ==
    /\ a = PageAddr(PageOf(a)) /\ IsLarge(hdr[a].size) /\ live[a] =< hdr[a].size
    /\ len[PageOf(a)] = PagesFor(hdr[a].size) /\ PageOf(a) \notin chunks

LiveOK(base, len) == \A a \in Live : Small(base, a) \/ Large(len, a)

\* Every run of pages has its owner.
Kept(len) ==
    \A p \in Pages : len[p] # 0 =>
       p \in chunks \/ (PageAddr(p) \in Live /\ IsLarge(hdr[PageAddr(p)].size))

HeapOK(base, len) ==
    /\ Types /\ Runs(len) /\ Chunked(base, len) /\ FreeOK(base) /\ UsedOK
    /\ LiveOK(base, len) /\ Kept(len)

\* The old buckets of the realloc calls under way are in use, and different.
Moves ==
    /\ moving \in [Harts -> [old : Nat, new : Nat]]
    /\ \A h \in Harts : moving[h] # Idle =>
          /\ moving[h].old \in Live
          /\ \A g \in Harts : g # h /\ moving[g] # Idle => moving[g].old # moving[h].old

HeapInv == (\E base, len : HeapOK(base, len)) /\ Moves

-----------------------------------------------------------------------------
(* Runs of pages.                                                           *)

\* The pages of a large bucket hold it with its header.
LEMMA PagesForFacts ==
    ASSUME NEW size \in Nat
    PROVE  PagesFor(size) \in Nat \ {0} /\ size + Hdr =< PagesFor(size) * PageLen
<1> DEFINE x == size + Hdr + PageLen - 1
           q == x \div PageLen
<1>1. PageLen \in Nat \ {0} /\ Hdr \in Nat \ {0} /\ x \in Nat /\ x >= PageLen
  BY HeapNumbers
<1>2. PagesFor(size) = q
  BY DEF PagesFor
<1>3. size + Hdr = x - PageLen + 1
  BY <1>1
<1> HIDE DEF x
<1>4. q \in Nat /\ q * PageLen =< x /\ x < q * PageLen + PageLen
  BY <1>1
<1> HIDE DEF q
<1>5. q # 0
  BY <1>1, <1>4
<1>6. q * PageLen \in Nat
  BY <1>1, <1>4
<1>7. x - PageLen + 1 =< q * PageLen
  BY <1>1, <1>4, <1>6
<1>8. QED
  BY <1>2, <1>3, <1>4, <1>5, <1>7

\* The pages alloc_pages finds are free pages of the heap, and not page 0.
LEMMA FittingFacts ==
    ASSUME NEW n \in Nat \ {0}, Fitting(n) # {}, 0 \in taken, NEW p, p = Least(Fitting(n))
    PROVE  p \in Pages \ {0} /\ Run(p, n) \subseteq Pages \ {0} /\ Run(p, n) \cap taken = {}
<1>1. Fitting(n) \in SUBSET Nat /\ NPages \in Nat
  BY HeapNumbers DEF Fitting
<1>2. \E x \in Fitting(n) : \A y \in Fitting(n) : x =< y
  BY <1>1, LeastNumber
<1>3. p \in Fitting(n)
  BY <1>2 DEF Least
<1>4. p \in 0 .. NPages - n - 1 /\ Run(p, n) \cap taken = {}
  BY <1>3 DEF Fitting
<1>5. p \in Run(p, n)
  BY <1>4 DEF Run
<1>6. Run(p, n) \subseteq Pages
  BY <1>1, <1>4 DEF Run, Pages
<1>7. QED
  BY <1>4, <1>5, <1>6

\* What is known of handed out pages.
LEMMA RunsFacts ==
    ASSUME NEW len, Runs(len)
    PROVE  /\ 0 \in taken /\ taken \subseteq Pages
           /\ \A p \in Pages : len[p] \in Nat /\ (len[p] # 0 => p # 0 /\ p \in Run(p, len[p]))
                               /\ Run(p, len[p]) \subseteq taken \ {0}
<1>1. 0 \in Pages /\ Pages \subseteq Nat
  BY HeapNumbers DEF Pages
<1>2. ASSUME NEW p \in Pages PROVE len[p] \in Nat /\ Run(p, len[p]) \subseteq taken \ {0}
  BY DEF Runs
<1>3. ASSUME NEW p \in Pages, len[p] # 0 PROVE p # 0 /\ p \in Run(p, len[p])
  <2>1. p \in Nat /\ len[p] \in Nat
    BY <1>1, <1>2
  <2>2. p \in Run(p, len[p])
    BY <1>3, <2>1 DEF Run
  <2>3. QED
    BY <1>2, <2>2
<1>4. 0 \in taken /\ taken \subseteq Pages
  BY <1>1 DEF Runs
<1>5. QED
  BY <1>2, <1>3, <1>4

\* Another run.
LEMMA RunsAdd ==
    ASSUME NEW len, Runs(len), NEW n \in Nat \ {0}, NEW p \in Pages,
           Run(p, n) \subseteq Pages \ {0}, Run(p, n) \cap taken = {},
           taken' = taken \cup Run(p, n), NEW l, l = [len EXCEPT ![p] = n]
    PROVE  Runs(l)' /\ len[p] = 0 /\ p \notin taken
<1>1. p \in Run(p, n) /\ p \in Nat
  BY HeapNumbers DEF Run, Pages
<1>2. p \notin taken /\ len[p] = 0
  BY <1>1, RunsFacts
<1>3. len \in [Pages -> Nat] /\ l \in [Pages -> Nat] /\ l[p] = n
      /\ \A q \in Pages : q # p => l[q] = len[q]
  BY DEF Runs
<1>4. Run(p, len[p]) = {}
  BY <1>1, <1>2 DEF Run
<1>5. \A q \in Pages : Run(q, len[q]) \subseteq taken
  BY RunsFacts
<1>6. \A q \in Pages : Run(q, l[q]) \subseteq Pages \ {0}
  BY <1>3 DEF Runs
<1>7. \A q, r \in Pages : q # r => Run(q, l[q]) \cap Run(r, l[r]) = {}
  BY <1>3, <1>5 DEF Runs
<1>8. taken' \subseteq Pages
  BY RunsFacts
<1>9. ASSUME NEW x \in Pages
      PROVE  x \in taken' <=> x = 0 \/ \E q \in Pages : x \in Run(q, l[q])
  <2>1. (\E q \in Pages : x \in Run(q, l[q])) <=>
           (x \in Run(p, n) \/ \E q \in Pages : x \in Run(q, len[q]))
    BY <1>3, <1>4
  <2>2. QED
    BY <2>1 DEF Runs
<1>10. QED
  BY <1>2, <1>3, <1>6, <1>7, <1>8, <1>9 DEF Runs

\* A run is given back.
LEMMA RunsDrop ==
    ASSUME NEW len, Runs(len), NEW p \in Pages, taken' = taken \ Run(p, len[p]),
           NEW l, l = [len EXCEPT ![p] = 0]
    PROVE  Runs(l)'
<1>1. len \in [Pages -> Nat] /\ l \in [Pages -> Nat] /\ l[p] = 0 /\ p \in Nat
      /\ \A q \in Pages : q # p => l[q] = len[q]
  BY HeapNumbers DEF Runs, Pages
<1>2. Run(p, l[p]) = {}
  BY <1>1 DEF Run
<1>3. \A q \in Pages : Run(q, l[q]) \subseteq Pages \ {0}
  BY <1>1, <1>2 DEF Runs
<1>4. \A q, r \in Pages : q # r => Run(q, l[q]) \cap Run(r, l[r]) = {}
  BY <1>1, <1>2 DEF Runs
<1>5. \A q \in Pages : q # p => Run(q, len[q]) \cap Run(p, len[p]) = {}
  BY DEF Runs
<1>6. 0 \notin Run(p, len[p])
  BY DEF Runs
<1>7. taken' \subseteq Pages
  BY RunsFacts
<1>8. ASSUME NEW x \in Pages
      PROVE  x \in taken' <=> x = 0 \/ \E q \in Pages : x \in Run(q, l[q])
  <2>1. (\E q \in Pages : x \in Run(q, l[q])) <=>
           (x \notin Run(p, len[p]) /\ \E q \in Pages : x \in Run(q, len[q]))
    BY <1>1, <1>2, <1>5
  <2>2. QED
    BY <1>6, <2>1 DEF Runs
<1>9. QED
  BY <1>1, <1>3, <1>4, <1>7, <1>8 DEF Runs

-----------------------------------------------------------------------------
(* Where the buckets are.                                                   *)

\* The class for a size is the least that holds it.
LEMMA ClassFacts ==
    ASSUME NEW size \in Nat, ~IsLarge(size)
    PROVE  /\ ClassOf(size) \in Classes /\ size =< ClassOf(size)
           /\ size \in Classes => ClassOf(size) = size
<1> DEFINE T == {c \in Classes : size =< c}
<1>1. T \in SUBSET Nat /\ \A c \in T : c \in Classes /\ size =< c
  BY HeapNumbers
<1>2. T # {}
  <2>1. PICK c \in Classes : ~(size > c)
    BY DEF IsLarge
  <2>2. c \in T
    BY <2>1, HeapNumbers
  <2>3. QED
    BY <2>2
<1>3. ClassOf(size) = Least(T)
  BY DEF ClassOf
<1>4. size \in Classes => size \in T
  OBVIOUS
<1> HIDE DEF T
<1>5. \E x \in T : \A y \in T : x =< y
  BY <1>1, <1>2, LeastNumber
<1>6. Least(T) \in T /\ \A y \in T : Least(T) =< y
  BY <1>5 DEF Least
<1>7. PICK x : x = ClassOf(size)
  OBVIOUS
<1>8. x \in T /\ x \in Nat /\ \A y \in T : x =< y
  BY <1>1, <1>3, <1>6, <1>7
<1>9. QED
  BY <1>1, <1>4, <1>7, <1>8

\* The buckets of a chunk lie in pages handed out.
LEMMA SlotPlace ==
    ASSUME NEW base, NEW len, Runs(len), Chunked(base, len), NEW c \in Classes, base[c] # 0,
           NEW k \in 0 .. Formatted(c), NEW a, a = Slot(c, base[c], k)
    PROVE  /\ base[c] \in Pages /\ base[c] \in Nat /\ base[c] \in chunks
           /\ Run(base[c], ChunkPages) \subseteq Pages /\ Run(base[c], ChunkPages) \subseteq taken
           /\ a \in Words(base[c], ChunkPages) /\ a \in Addrs /\ a \in Nat
           /\ PageOf(a) \in Run(base[c], ChunkPages) /\ PageOf(a) \in taken
<1>1. base[c] \in Pages /\ len[base[c]] = ChunkPages /\ base[c] \in chunks
  BY DEF Chunked
<1>2. base[c] \in Nat /\ ChunkPages \in Nat
  BY <1>1, HeapNumbers DEF Pages
<1>3. Run(base[c], ChunkPages) \subseteq Pages /\ Run(base[c], ChunkPages) \subseteq taken
  BY <1>1, RunsFacts
<1>4. a \in Words(base[c], ChunkPages)
  BY <1>2, SlotFacts
<1>5. a \in Addrs /\ PageOf(a) \in Run(base[c], ChunkPages)
  BY <1>2, <1>3, <1>4, WordsInHeap
<1>6. QED
  BY <1>1, <1>2, <1>3, <1>4, <1>5, AddrFacts

\* A large bucket starts its pages and is not in a chunk.
LEMMA LargePlace ==
    ASSUME NEW base, NEW len, Types, Runs(len), Chunked(base, len), NEW a \in Addrs, Large(len, a)
    PROVE  /\ PageOf(a) \in Pages /\ hdr[a].size \in Nat
           /\ PageOf(a) \in Run(PageOf(a), len[PageOf(a)]) /\ PageOf(a) \in taken
           /\ Run(PageOf(a), len[PageOf(a)]) \subseteq taken \ {0}
           /\ \A c \in Classes : base[c] # 0 =>
                 Run(PageOf(a), len[PageOf(a)]) \cap Run(base[c], ChunkPages) = {}
<1>1. PageOf(a) \in Pages
  BY AddrFacts
<1>2. hdr[a].size \in Nat
  BY DEF Types, HdrSet
<1>3. len[PageOf(a)] = PagesFor(hdr[a].size) /\ PageOf(a) \notin chunks
  BY DEF Large
<1>4. len[PageOf(a)] # 0
  BY <1>2, <1>3, PagesForFacts
<1>5. /\ PageOf(a) \in Run(PageOf(a), len[PageOf(a)])
      /\ Run(PageOf(a), len[PageOf(a)]) \subseteq taken \ {0}
  BY <1>1, <1>4, RunsFacts
<1>6. ASSUME NEW c \in Classes, base[c] # 0
      PROVE  Run(PageOf(a), len[PageOf(a)]) \cap Run(base[c], ChunkPages) = {}
  <2>1. base[c] \in Pages /\ base[c] \in chunks /\ len[base[c]] = ChunkPages
    BY <1>6 DEF Chunked
  <2>2. base[c] # PageOf(a)
    BY <1>3, <2>1
  <2>3. QED
    BY <1>1, <2>1, <2>2 DEF Runs
<1>7. QED
  BY <1>1, <1>2, <1>5, <1>6

\* No bucket is in two chunks, and no large bucket in one.
LEMMA ChunksApart ==
    ASSUME NEW base, NEW len, Types, Runs(len), Chunked(base, len), NEW c \in Classes, base[c] # 0,
           NEW a \in SlotsOf(c, base[c])
    PROVE  /\ \A d \in Classes : base[d] # 0 /\ d # c => a \notin SlotsOf(d, base[d])
           /\ a \in Addrs /\ PageOf(a) \in taken /\ ~Large(len, a)
<1>1. PICK k \in 0 .. Formatted(c) : a = Slot(c, base[c], k)
  BY DEF SlotsOf
<1>2. a \in Addrs /\ PageOf(a) \in taken /\ PageOf(a) \in Run(base[c], ChunkPages)
  BY <1>1, SlotPlace
<1>3. ~Large(len, a)
  BY <1>2, LargePlace
<1>4. ASSUME NEW d \in Classes, base[d] # 0, d # c, a \in SlotsOf(d, base[d]) PROVE FALSE
  <2>1. PICK j \in 0 .. Formatted(d) : a = Slot(d, base[d], j)
    BY <1>4 DEF SlotsOf
  <2>2. PageOf(a) \in Run(base[d], ChunkPages)
    BY <1>4, <2>1, SlotPlace
  <2>3. base[c] \in Pages /\ base[d] \in Pages /\ base[c] # base[d]
        /\ len[base[c]] = ChunkPages /\ len[base[d]] = ChunkPages
    BY <1>4 DEF Chunked
  <2>4. QED
    BY <1>2, <2>2, <2>3 DEF Runs
<1>5. QED
  BY <1>2, <1>3, <1>4

\* A bucket of a chunk that is in use is formatted.
LEMMA LiveInChunk ==
    ASSUME NEW base, NEW len, HeapOK(base, len), NEW c \in Classes, base[c] # 0,
           NEW a \in Live, a \in SlotsOf(c, base[c])
    PROVE  \E k \in 0 .. Formatted(c) - 1 : /\ a = Slot(c, base[c], k) /\ live[a] =< c
                                            /\ hdr[a].size = c
<1> USE DEF HeapOK
<1>1. ~Large(len, a) /\ \A d \in Classes : base[d] # 0 /\ d # c => a \notin SlotsOf(d, base[d])
  BY ChunksApart
<1>2. PICK d \in Classes : \E k \in 0 .. Formatted(d) - 1 :
            base[d] # 0 /\ a = Slot(d, base[d], k) /\ live[a] =< d
  BY <1>1 DEF LiveOK, Small
<1>3. PICK k \in 0 .. Formatted(d) - 1 : base[d] # 0 /\ a = Slot(d, base[d], k) /\ live[a] =< d
  BY <1>2
<1>4. k \in 0 .. Formatted(d) /\ a \in SlotsOf(d, base[d])
  BY <1>3, ChunkNumbers DEF SlotsOf
<1>5. d = c
  BY <1>1, <1>3, <1>4
<1>6. hdr[a].size = c
  BY <1>3, <1>5 DEF FreeOK, Formed
<1>7. QED
  BY <1>3, <1>5, <1>6

\* Buckets in use lie in pages handed out, and are of the size of their class or
\* large.
LEMMA LivePlace ==
    ASSUME NEW base, NEW len, HeapOK(base, len), NEW a \in Live
    PROVE  /\ a \in Addrs /\ a \in Nat /\ PageOf(a) \in taken
           /\ \/ /\ Large(len, a) /\ \A c \in Classes : base[c] # 0 => a \notin SlotsOf(c, base[c])
              \/ \E c \in Classes : \E k \in 0 .. Formatted(c) - 1 :
                    /\ base[c] # 0 /\ a = Slot(c, base[c], k) /\ live[a] =< c
                    /\ hdr[a].size = c /\ ~IsLarge(c) /\ a \in SlotsOf(c, base[c])
<1> USE DEF HeapOK
<1>1. a \in Addrs /\ a \in Nat
  BY AddrFacts DEF Live
<1>2. CASE Large(len, a)
  <2>1. PageOf(a) \in taken
    BY <1>1, <1>2, LargePlace
  <2>2. \A c \in Classes : base[c] # 0 => a \notin SlotsOf(c, base[c])
    BY <1>2, ChunksApart
  <2>3. QED
    BY <1>1, <1>2, <2>1, <2>2
<1>3. CASE Small(base, a)
  <2>1. PICK c \in Classes : \E k \in 0 .. Formatted(c) - 1 :
              base[c] # 0 /\ a = Slot(c, base[c], k) /\ live[a] =< c
    BY <1>3 DEF Small
  <2>2. PICK k \in 0 .. Formatted(c) - 1 : base[c] # 0 /\ a = Slot(c, base[c], k) /\ live[a] =< c
    BY <2>1
  <2>3. k \in 0 .. Formatted(c) /\ a \in SlotsOf(c, base[c])
    BY <2>2, ChunkNumbers DEF SlotsOf
  <2>4. PageOf(a) \in taken
    BY <2>2, <2>3, ChunksApart
  <2>5. hdr[a].size = c
    BY <2>2 DEF FreeOK, Formed
  <2>6. ~IsLarge(c)
    BY HeapNumbers DEF IsLarge
  <2>7. QED
    BY <1>1, <2>2, <2>3, <2>4, <2>5, <2>6
<1>4. QED
  BY <1>2, <1>3 DEF LiveOK

-----------------------------------------------------------------------------
(* Parts of the steps.                                                      *)

\* One bucket more in use.
LEMMA LiveMore ==
    ASSUME live \in [Addrs -> Nat], NEW b \in Addrs, NEW size \in Nat \ {0},
           live' = [live EXCEPT ![b] = size]
    PROVE  /\ live' \in [Addrs -> Nat] /\ Live' = Live \cup {b} /\ live'[b] = size
           /\ \A a \in Addrs : a # b => live'[a] = live[a]
<1>1. live' \in [Addrs -> Nat] /\ live'[b] = size /\ \A a \in Addrs : a # b => live'[a] = live[a]
  OBVIOUS
<1>2. size # 0
  OBVIOUS
<1>3. QED
  BY <1>1, <1>2 DEF Live

\* One bucket less in use.
LEMMA LiveLess ==
    ASSUME live \in [Addrs -> Nat], NEW b \in Addrs, live' = [live EXCEPT ![b] = 0]
    PROVE  /\ live' \in [Addrs -> Nat] /\ Live' = Live \ {b}
           /\ \A a \in Addrs : a # b => live'[a] = live[a]
<1>1. live' \in [Addrs -> Nat] /\ live'[b] = 0 /\ \A a \in Addrs : a # b => live'[a] = live[a]
  OBVIOUS
<1>2. QED
  BY <1>1 DEF Live

\* The new bucket is put in front of the list of buckets in use.
LEMMA UsedPush ==
    ASSUME UsedOK, used \in Nat, NEW b \in Addrs, b \notin Live, NEW mem \in [Addrs -> HdrSet],
           \A a \in Live : mem[a].next = hdr[a].next /\ mem[a].prev = hdr[a].prev,
           hdr' = Link(mem, b), used' = b, Live' = Live \cup {b}
    PROVE  UsedOK'
<1>1. PICK m, u : Linked(hdr, used, Live, m, u) /\ Mirrored(hdr, m, u)
  BY DEF UsedOK, DoublyLinked
<1>2. PICK w : w = [i \in 0 .. m + 1 |-> IF i = m + 1 THEN b ELSE u[i]]
  OBVIOUS
<1>3. Live \in SUBSET Addrs
  BY DEF Live
<1>4. /\ hdr'[b].next = used /\ hdr'[b].prev = NULL
      /\ \A a \in Addrs : a # b => /\ hdr'[a].next = mem[a].next
                                   /\ hdr'[a].prev = IF a = used THEN b ELSE mem[a].prev
  BY LinkFacts
<1>5. \A a \in Live : a \in Addrs /\ a # b
  BY <1>3
<1>6. \A a \in Live : hdr'[a].next = hdr[a].next
  BY <1>4, <1>5
<1>7. /\ \A a \in Live : a = used => hdr'[a].prev = b
      /\ \A a \in Live : a # used => hdr'[a].prev = hdr[a].prev
  BY <1>4, <1>5
<1>8. Linked(hdr', b, Live \cup {b}, m + 1, w)
  BY <1>1, <1>2, <1>3, <1>4, <1>6, LinkedPush
<1>9. Mirrored(hdr', m + 1, w)
  <2>1. m \in Nat /\ u[m] = used
    BY <1>1 DEF Linked
  <2>2. w[m + 1] = b /\ \A i \in 0 .. m : w[i] = u[i]
    BY <1>2, <2>1
  <2>3. ASSUME NEW i \in 1 .. m + 1 PROVE hdr'[w[i]].prev = IF i = m + 1 THEN NULL ELSE w[i + 1]
    <3>1. CASE i = m + 1
      BY <1>4, <2>2, <3>1
    <3>2. CASE i # m + 1
      <4>1. i \in 1 .. m /\ i \in 0 .. m /\ m \in 1 .. m
        BY <2>1, <3>2
      <4>2. w[i] = u[i] /\ u[i] \in Live /\ (u[i] = used <=> i = m)
        BY <1>1, <2>1, <2>2, <4>1 DEF Linked
      <4>3. hdr[u[i]].prev = IF i = m THEN NULL ELSE u[i + 1]
        BY <1>1, <4>1 DEF Mirrored
      <4>4. CASE i = m
        BY <1>7, <2>2, <3>2, <4>2, <4>4
      <4>5. CASE i # m
        <5>1. i + 1 \in 0 .. m
          BY <2>1, <4>1, <4>5
        <5>2. w[i + 1] = u[i + 1]
          BY <2>2, <5>1
        <5>3. QED
          BY <1>7, <3>2, <4>2, <4>3, <4>5, <5>2
      <4>6. QED
        BY <4>4, <4>5
    <3>3. QED
      BY <3>1, <3>2
  <2>4. QED
    BY <2>3 DEF Mirrored
<1>10. QED
  BY <1>8, <1>9 DEF UsedOK, DoublyLinked

\* The chunk and the free list of a class that a step does not touch.
LEMMA ChunkSame ==
    ASSUME NEW c \in Classes, NEW p, Formed(c, p), FreeList(c, p), free'[c] = free[c],
           Phantom(c, p) \in SlotsOf(c, p),
           \A k \in 0 .. Formatted(c) - 1 : Slot(c, p, k) \in SlotsOf(c, p),
           \A a \in SlotsOf(c, p) : /\ hdr'[a].size = hdr[a].size /\ (a \in Live' <=> a \in Live)
                                    /\ a \notin Live => hdr'[a].next = hdr[a].next
    PROVE  Formed(c, p)' /\ FreeList(c, p)'
<1>1. PICK n, s : Linked(hdr, free[c], SlotsOf(c, p) \ Live, n, s) /\ s[1] = Phantom(c, p)
  BY DEF FreeList
<1>2. SlotsOf(c, p) \ Live' = SlotsOf(c, p) \ Live
  OBVIOUS
<1>3. \A a \in SlotsOf(c, p) \ Live : hdr'[a].next = hdr[a].next
  OBVIOUS
<1>4. Linked(hdr', free'[c], SlotsOf(c, p) \ Live', n, s)
  BY <1>1, <1>2, <1>3, LinkedSame
<1>5. FreeList(c, p)'
  BY <1>1, <1>4 DEF FreeList
<1>6. Formed(c, p)'
  BY DEF Formed
<1>7. QED
  BY <1>5, <1>6

\* The phantom and the formatted buckets are buckets of the chunk.
LEMMA SlotsIn ==
    ASSUME NEW c \in Classes, NEW p
    PROVE  /\ Phantom(c, p) \in SlotsOf(c, p)
           /\ \A k \in 0 .. Formatted(c) - 1 : Slot(c, p, k) \in SlotsOf(c, p)
  BY ChunkNumbers DEF Phantom, SlotsOf

\* The buckets in use can be counted.
LEMMA InUseFinite ==
    ASSUME NEW c
    PROVE  IsFiniteSet(InUse(c)) /\ Cardinality(InUse(c)) \in Nat
<1>1. PageAddr(0) \in Int /\ PageAddr(NPages) - 1 \in Int
  BY HeapNumbers DEF PageAddr
<1>2. IsFiniteSet(Addrs)
  BY <1>1, FS_Interval DEF Addrs
<1>3. InUse(c) \in SUBSET Addrs
  BY DEF InUse
<1>4. IsFiniteSet(InUse(c))
  BY <1>2, <1>3, FS_Subset
<1>5. QED
  BY <1>4, FS_CardinalityType

\* As long as fewer than MaxLive buckets are in use, a formatted one is free.
LEMMA FormattedLeft ==
    ASSUME Roomy, NEW c \in Classes, NEW p \in Nat, Formed(c, p),
           \A k \in 0 .. Formatted(c) : Slot(c, p, k) \in Addrs, Cardinality(InUse(c)) < MaxLive
    PROVE  \E k \in 0 .. Formatted(c) - 1 : Slot(c, p, k) \notin Live
<1> SUFFICES ASSUME \A k \in 0 .. Formatted(c) - 1 : Slot(c, p, k) \in Live PROVE FALSE
  OBVIOUS
<1> DEFINE n == Formatted(c)
           f == [k \in 0 .. n - 1 |-> Slot(c, p, k)]
<1>1. n \in Nat /\ MaxLive \in Nat /\ MaxLive =< n
  BY ChunkNumbers, HeapNumbers, RoomyFacts
<1>2. IsFiniteSet(InUse(c)) /\ Cardinality(InUse(c)) \in Nat
  BY InUseFinite
<1>3. \A k \in 0 .. n - 1 : k \in 0 .. n
  BY <1>1
<1>4. ASSUME NEW k \in 0 .. n - 1 PROVE Slot(c, p, k) \in InUse(c)
  <2>1. Slot(c, p, k) \in Live /\ Slot(c, p, k) \in Addrs /\ hdr[Slot(c, p, k)].size = c
    BY <1>3 DEF Formed
  <2>2. QED
    BY <2>1 DEF InUse, Live
<1>5. f \in [0 .. n - 1 -> InUse(c)]
  BY <1>4
<1>6. \A k \in 0 .. n - 1 : f[k] = Slot(c, p, k)
  OBVIOUS
<1> HIDE DEF f
<1>7. \A x, y \in 0 .. n - 1 : f[x] = f[y] => x = y
  BY <1>3, <1>6, SlotsDiffer
<1> HIDE DEF n
<1>8. IsFiniteSet(0 .. n - 1) /\ Cardinality(0 .. n - 1) = n
  <2>1. n - 1 \in Int /\ 0 \in Int
    BY <1>1
  <2>2. IsFiniteSet(0 .. n - 1) /\ Cardinality(0 .. n - 1) = IF 0 > n - 1 THEN 0 ELSE n - 1 - 0 + 1
    BY <2>1, FS_Interval
  <2>3. QED
    BY <1>1, <2>2
<1>9. Cardinality(InUse(c)) < Cardinality(0 .. n - 1)
  BY <1>1, <1>2, <1>8
<1>10. \E x, y \in 0 .. n - 1 : x # y /\ f[x] = f[y]
  BY <1>2, <1>5, <1>8, <1>9, FS_PigeonHole
<1>11. QED
  BY <1>7, <1>10

\* The list of a fresh chunk holds all its buckets, the phantom last.
LEMMA FreshList ==
    ASSUME NEW c \in Classes, NEW p \in Nat, NEW h,
           \A k \in 0 .. Formatted(c) - 1 : h[Slot(c, p, k)].next = Slot(c, p, k + 1),
           h[Phantom(c, p)].next = NULL
    PROVE  \E s : /\ Linked(h, PageAddr(p), SlotsOf(c, p), Formatted(c) + 1, s)
                  /\ s[1] = Phantom(c, p)
<1> DEFINE f == Formatted(c)
           s == [i \in 0 .. f + 1 |-> IF i = 0 THEN NULL ELSE Slot(c, p, f + 1 - i)]
<1>1. f \in Nat /\ f + 1 \in Nat /\ Room(c) \in Nat /\ PageAddr(p) \in Nat
  BY ChunkNumbers
<1>2. \A k \in 0 .. f : Slot(c, p, k) \in Nat
  <2>1. \A k \in 0 .. f : Slot(c, p, k) \in Words(p, ChunkPages)
    BY SlotFacts
  <2>2. QED
    BY <1>1, <2>1 DEF Words
<1>3. Slot(c, p, 0) = PageAddr(p) /\ Slot(c, p, f) = Phantom(c, p)
  BY <1>1 DEF Slot, Phantom
<1>4. \A k, j \in 0 .. f : Slot(c, p, k) = Slot(c, p, j) => k = j
  BY SlotsDiffer
<1>5. SlotsOf(c, p) = {Slot(c, p, k) : k \in 0 .. f}
  BY DEF SlotsOf
<1>6. \A k \in 0 .. f - 1 : h[Slot(c, p, k)].next = Slot(c, p, k + 1)
  OBVIOUS
<1> HIDE DEF f
<1>7. \A i \in 1 .. f + 1 : f + 1 - i \in 0 .. f /\ s[i] = Slot(c, p, f + 1 - i)
  BY <1>1
<1>8. s[0] = NULL /\ NULL \in Nat
  BY <1>1, AddrFacts
<1>9. s \in [0 .. f + 1 -> Nat]
  <2>1. \A i \in 0 .. f + 1 : i = 0 \/ i \in 1 .. f + 1
    BY <1>1
  <2>2. \A i \in 0 .. f + 1 : s[i] \in Nat
    BY <1>2, <1>7, <1>8, <2>1
  <2>3. QED
    BY <2>2
<1>10. s[1] = Phantom(c, p) /\ s[f + 1] = PageAddr(p)
  <2>1. 1 \in 1 .. f + 1 /\ f + 1 \in 1 .. f + 1 /\ f + 1 - 1 = f /\ f + 1 - (f + 1) = 0
    BY <1>1
  <2>2. QED
    BY <1>3, <1>7, <2>1
<1>11. ASSUME NEW i \in 1 .. f + 1 PROVE s[i] \in SlotsOf(c, p) /\ h[s[i]].next = s[i - 1]
  <2>1. s[i] \in SlotsOf(c, p)
    BY <1>5, <1>7
  <2>2. CASE i = 1
    <3>1. i - 1 = 0
      BY <2>2
    <3>2. QED
      BY <1>8, <1>10, <2>1, <2>2, <3>1
  <2>3. CASE i # 1
    <3> DEFINE k == f + 1 - i
    <3>1. k \in 0 .. f - 1 /\ i - 1 \in 1 .. f + 1 /\ f + 1 - (i - 1) = k + 1
      BY <1>1, <2>3
    <3>2. s[i] = Slot(c, p, k) /\ s[i - 1] = Slot(c, p, k + 1)
      BY <1>7, <3>1
    <3>3. QED
      BY <1>6, <2>1, <3>1, <3>2
  <2>4. QED
    BY <2>2, <2>3
<1>12. ASSUME NEW a \in SlotsOf(c, p) PROVE \E i \in 1 .. f + 1 : s[i] = a
  <2>1. PICK k \in 0 .. f : a = Slot(c, p, k)
    BY <1>5
  <2>2. f + 1 - k \in 1 .. f + 1 /\ f + 1 - (f + 1 - k) = k
    BY <1>1
  <2>3. s[f + 1 - k] = a
    BY <1>7, <2>1, <2>2
  <2>4. QED
    BY <2>2, <2>3
<1>13. ASSUME NEW i \in 1 .. f + 1, NEW j \in 1 .. f + 1, s[i] = s[j] PROVE i = j
  <2>1. f + 1 - i = f + 1 - j
    BY <1>4, <1>7, <1>13
  <2>2. QED
    BY <1>1, <2>1
<1> HIDE DEF s
<1>14. Linked(h, PageAddr(p), SlotsOf(c, p), f + 1, s)
  BY <1>1, <1>8, <1>9, <1>10, <1>11, <1>12, <1>13 DEF Linked
<1>15. QED
  BY <1>10, <1>14 DEF f

\* A step that leaves bucket a and its pages alone.
Untouched(base, len, base2, len2, a) ==
    /\ hdr'[a].size = hdr[a].size /\ live'[a] = live[a]
    /\ \A c \in Classes : base[c] # 0 => base2[c] = base[c]
    /\ len2[PageOf(a)] = len[PageOf(a)] /\ (PageOf(a) \notin chunks => PageOf(a) \notin chunks')

\* It stays a bucket of its chunk or of its pages.
LEMMA LiveStays ==
    ASSUME NEW base, NEW len, LiveOK(base, len), NEW a \in Live, NEW base2, NEW len2,
           Untouched(base, len, base2, len2, a)
    PROVE  Small(base2, a)' \/ Large(len2, a)'
<1>1. CASE Small(base, a)
  BY <1>1 DEF Small, Untouched
<1>2. CASE Large(len, a)
  BY <1>2 DEF Large, IsLarge, PagesFor, Untouched
<1>3. QED
  BY <1>1, <1>2 DEF LiveOK

\* A run of pages keeps its owner.
LEMMA KeptStays ==
    ASSUME NEW len, Kept(len), NEW p \in Pages, len[p] # 0, chunks \subseteq chunks',
           PageAddr(p) \in Live => /\ PageAddr(p) \in Live'
                                   /\ hdr'[PageAddr(p)].size = hdr[PageAddr(p)].size
    PROVE  p \in chunks' \/ (PageAddr(p) \in Live' /\ IsLarge(hdr'[PageAddr(p)].size))
  BY DEF Kept

-----------------------------------------------------------------------------
(* malloc.                                                                  *)

\* The front of a free list is not the phantom.
LEMMA HeadFormatted ==
    ASSUME Roomy, NEW base, NEW len, HeapOK(base, len), NEW c \in Classes, base[c] # 0,
           Cardinality(InUse(c)) < MaxLive,
           NEW n, NEW s, Linked(hdr, free[c], SlotsOf(c, base[c]) \ Live, n, s),
           s[1] = Phantom(c, base[c])
    PROVE  /\ n \in Nat /\ n - 1 >= 1
           /\ \E k \in 0 .. Formatted(c) - 1 : free[c] = Slot(c, base[c], k)
<1> USE DEF HeapOK
<1> DEFINE p == base[c]
           f == Formatted(c)
<1>1. f \in Nat /\ Formed(c, p) /\ n \in Nat /\ s[n] = free[c]
  BY ChunkNumbers DEF FreeOK, Linked
<1>2. \A k \in 0 .. f : Slot(c, p, k) \in Addrs /\ p \in Nat
  BY SlotPlace
<1>3. p \in Nat
  BY <1>1, <1>2
<1>4. PICK k \in 0 .. f - 1 : Slot(c, p, k) \notin Live
  BY <1>1, <1>2, <1>3, FormattedLeft
<1>5. k \in 0 .. f /\ f \in 0 .. f /\ k # f
  BY <1>1
<1>6. Slot(c, p, k) \in SlotsOf(c, p) \ Live /\ Slot(c, p, k) # Phantom(c, p)
  BY <1>3, <1>4, <1>5, SlotsDiffer DEF SlotsOf, Phantom
<1>7. PICK i \in 1 .. n : s[i] = Slot(c, p, k)
  BY <1>6 DEF Linked
<1>8. i # 1
  BY <1>6, <1>7
<1>9. n - 1 >= 1 /\ n \in 1 .. n /\ 1 \in 1 .. n /\ n # 1
  BY <1>1, <1>7, <1>8
<1>10. free[c] \in SlotsOf(c, p) /\ free[c] # Phantom(c, p)
  BY <1>1, <1>9 DEF Linked
<1>11. PICK j \in 0 .. f : free[c] = Slot(c, p, j)
  BY <1>10 DEF SlotsOf
<1>12. j \in 0 .. f - 1
  BY <1>1, <1>10, <1>11 DEF Phantom
<1>13. QED
  BY <1>1, <1>9, <1>11, <1>12

\* A bucket from the free list.
LEMMA PopKeeps ==
    ASSUME Roomy, NEW base, NEW len, HeapOK(base, len), NEW c \in Classes,
           NEW size \in Nat \ {0}, size =< c, Cardinality(InUse(c)) < MaxLive,
           NEW b \in Addrs, free[c] # NULL, b = free[c], hdr' = Link(hdr, b), used' = b,
           free' = [free EXCEPT ![c] = hdr[b].next], taken' = taken, chunks' = chunks,
           live' = [live EXCEPT ![b] = size]
    PROVE  HeapOK(base, len)' /\ b \notin Live
<1> USE DEF HeapOK
<1> DEFINE p == base[c]
           S == SlotsOf(c, p) \ Live
<1>1. hdr \in [Addrs -> HdrSet] /\ free \in [Classes -> Nat] /\ used \in Nat /\ live \in [Addrs -> Nat]
  BY DEF Types
<1>2. p # 0 /\ Formed(c, p) /\ FreeList(c, p)
  BY DEF FreeOK
<1>3. PICK n, s : Linked(hdr, free[c], S, n, s) /\ s[1] = Phantom(c, p)
  BY <1>2 DEF FreeList
<1>4. n \in Nat /\ n - 1 >= 1 /\ \E k \in 0 .. Formatted(c) - 1 : b = Slot(c, p, k)
  BY <1>2, <1>3, HeadFormatted
<1>5. PICK k \in 0 .. Formatted(c) - 1 : b = Slot(c, p, k)
  BY <1>4
<1> HIDE DEF p
<1> DEFINE T == S \ {b}
<1>6. T = S \ {b}
  OBVIOUS
<1> HIDE DEF S, T
<1>7. PICK w : b \in S /\ Linked(hdr, hdr[b].next, T, n - 1, w) /\ w[1] = s[1]
  <2>1. Linked(hdr, b, S, n, s)
    BY <1>3
  <2>2. QED
    BY <1>4, <1>6, <2>1, LinkedPop
<1>8. b \notin Live /\ b \in SlotsOf(c, p)
  BY <1>7 DEF S
<1>9. /\ live' \in [Addrs -> Nat] /\ Live' = Live \cup {b} /\ live'[b] = size
      /\ \A a \in Addrs : a # b => live'[a] = live[a]
  BY <1>1, LiveMore
<1>10. /\ hdr' \in [Addrs -> HdrSet] /\ \A a \in Addrs : hdr'[a].size = hdr[a].size
       /\ \A a \in Addrs : a # b => hdr'[a].next = hdr[a].next
  BY <1>1, LinkFacts, SMTT(30)
<1>11. free'[c] = hdr[b].next /\ free' \in [Classes -> Nat] /\ \A d \in Classes : d # c => free'[d] = free[d]
  <2>1. hdr[b].next \in Nat
    BY <1>1 DEF HdrSet
  <2>2. QED
    BY <1>1, <1>7, <2>1
<1>12. Types'
  BY <1>9, <1>10, <1>11, AddrFacts DEF Types
<1>13. Runs(len)' /\ Chunked(base, len)'
  BY DEF Runs, Chunked
<1>14. UsedOK'
  BY <1>1, <1>8, <1>9, UsedPush
<1>15. \A d \in Classes : \A a \in SlotsOf(d, base[d]) : base[d] # 0 => a \in Addrs
  BY ChunksApart
<1>16. Formed(c, p)' /\ FreeList(c, p)'
  <2>1. T = SlotsOf(c, p) \ Live'
    BY <1>9 DEF S, T
  <2>2. \A a \in T : hdr'[a].next = hdr[a].next
    BY <1>2, <1>10, <1>15 DEF p, S, T
  <2>3. Linked(hdr', free'[c], SlotsOf(c, p) \ Live', n - 1, w)
    <3>1. Linked(hdr, free'[c], T, n - 1, w)
      BY <1>7, <1>11
    <3>2. Linked(hdr', free'[c], T, n - 1, w)
      BY <2>2, <3>1, LinkedSame
    <3>3. QED
      BY <2>1, <3>2
  <2>4. w[1] = Phantom(c, p)
    BY <1>3, <1>7
  <2>5. FreeList(c, p)'
    BY <2>3, <2>4 DEF FreeList
  <2>6. Phantom(c, p) \in Addrs /\ Phantom(c, p) # b
        /\ \A j \in 0 .. Formatted(c) - 1 : Slot(c, p, j) \in Addrs
    <3>1. Phantom(c, p) \in SlotsOf(c, p) /\ \A j \in 0 .. Formatted(c) - 1 : Slot(c, p, j) \in SlotsOf(c, p)
      BY SlotsIn
    <3>2. Formatted(c) \in Nat
      BY ChunkNumbers
    <3>3. k \in 0 .. Formatted(c) /\ Formatted(c) \in 0 .. Formatted(c) /\ k # Formatted(c)
      BY <3>2
    <3>4. p \in Nat
      BY <1>2, <3>3, SlotPlace DEF p
    <3>5. Phantom(c, p) # b
      BY <1>5, <3>3, <3>4, SlotsDiffer DEF Phantom
    <3>6. QED
      BY <1>2, <1>15, <3>1, <3>5 DEF p
  <2>7. Formed(c, p)'
    BY <1>2, <1>9, <1>10, <2>6 DEF Formed
  <2>8. QED
    BY <2>5, <2>7
<1>17. FreeOK(base)'
  <2>1. ASSUME NEW d \in Classes, d # c
        PROVE  IF base[d] = 0 THEN free'[d] = NULL ELSE Formed(d, base[d])' /\ FreeList(d, base[d])'
    <3>1. CASE base[d] = 0
      BY <1>11, <2>1, <3>1 DEF FreeOK
    <3>2. CASE base[d] # 0
      <4>1. b \notin SlotsOf(d, base[d])
        BY <1>2, <1>8, <2>1, <3>2, ChunksApart DEF p
      <4>2. Formed(d, base[d]) /\ FreeList(d, base[d]) /\ free'[d] = free[d]
        BY <1>11, <2>1, <3>2 DEF FreeOK
      <4>3. \A a \in SlotsOf(d, base[d]) : /\ hdr'[a].size = hdr[a].size /\ (a \in Live' <=> a \in Live)
                                           /\ a \notin Live => hdr'[a].next = hdr[a].next
        BY <1>9, <1>10, <1>15, <3>2, <4>1
      <4>4. QED
        BY <3>2, <4>2, <4>3, SlotsIn, ChunkSame
    <3>3. QED
      BY <3>1, <3>2
  <2>2. QED
    BY <1>2, <1>16, <2>1 DEF FreeOK, p
<1>18. LiveOK(base, len)'
  <2>1. ASSUME NEW a \in Live PROVE Small(base, a)' \/ Large(len, a)'
    <3>1. a \in Addrs /\ a # b
      BY <1>8 DEF Live
    <3>2. Untouched(base, len, base, len, a)
      BY <1>9, <1>10, <3>1 DEF Untouched
    <3>3. QED
      BY <3>2, LiveStays
  <2>2. Small(base, b)'
    BY <1>2, <1>5, <1>9 DEF Small, p
  <2>3. QED
    BY <1>9, <2>1, <2>2 DEF LiveOK
<1>19. Kept(len)'
  <2>1. ASSUME NEW q \in Pages, len[q] # 0
        PROVE  q \in chunks' \/ (PageAddr(q) \in Live' /\ IsLarge(hdr'[PageAddr(q)].size))
    <3>1. PageAddr(q) \in Live => PageAddr(q) \in Live' /\ hdr'[PageAddr(q)].size = hdr[PageAddr(q)].size
      BY <1>9, <1>10 DEF Live
    <3>2. QED
      BY <2>1, <3>1, KeptStays
  <2>2. QED
    BY <2>1 DEF Kept, IsLarge
<1>20. QED
  BY <1>8, <1>12, <1>13, <1>14, <1>17, <1>18, <1>19

\* Free pages, a memory that differs from the current one only there, and the common
\* part of all allocations.
Fresh(p, n) ==
    /\ p \in Pages \ {0} /\ n \in Nat \ {0}
    /\ Run(p, n) \subseteq Pages \ {0} /\ Run(p, n) \cap taken = {}
Filled(mem, p, n) ==
    /\ mem \in [Addrs -> HdrSet]
    /\ \A a \in Addrs : PageOf(a) \notin Run(p, n) => mem[a] = hdr[a]
NewBucket(mem, b, size) ==
    /\ hdr' = Link(mem, b) /\ used' = b /\ live' = [live EXCEPT ![b] = size]

\* A step that puts the new bucket b at the start of fresh pages, filled in by mem:
\* headers outside the fresh pages are the old ones but for the list of buckets in use.
FreshStep(p, b, mem, size) ==
    /\ b \notin Live /\ PageOf(b) = p /\ UsedOK' /\ p \notin chunks /\ p \in Nat
    /\ hdr' \in [Addrs -> HdrSet] /\ \A a \in Addrs : hdr'[a].size = mem[a].size
    /\ \A a \in Addrs : a # b => hdr'[a].next = mem[a].next
    /\ \A a \in Addrs : PageOf(a) \in taken =>
          a # b /\ hdr'[a].size = hdr[a].size /\ hdr'[a].next = hdr[a].next
    /\ live' \in [Addrs -> Nat] /\ Live' = Live \cup {b} /\ live'[b] = size
    /\ \A a \in Addrs : a # b => live'[a] = live[a]

\* That is what Link does to a bucket in fresh pages.
LEMMA FreshHeaders ==
    ASSUME NEW base, NEW len, HeapOK(base, len), NEW p, NEW n, Fresh(p, n), NEW mem,
           Filled(mem, p, n), NEW b \in Addrs, b = PageAddr(p), NEW size \in Nat \ {0},
           NewBucket(mem, b, size)
    PROVE  FreshStep(p, b, mem, size)
<1> USE DEF HeapOK, Fresh, Filled, NewBucket
<1>1. hdr \in [Addrs -> HdrSet] /\ used \in Nat /\ live \in [Addrs -> Nat]
  BY DEF Types
<1>2. p \in Nat /\ n \in Nat
  BY HeapNumbers DEF Pages
<1>3. PageOf(b) = p
  BY <1>2, PageOfAddr
<1>4. p \in Run(p, n)
  BY <1>2 DEF Run
<1>5. p \notin taken
  BY <1>4
<1>6. b \notin Live
  BY <1>3, <1>5, LivePlace
<1>7. p \notin chunks
  <2>1. ASSUME NEW c \in Classes, base[c] # 0 PROVE base[c] \in taken
    <3>1. base[c] \in Pages /\ len[base[c]] = ChunkPages
      BY <2>1 DEF Chunked
    <3>2. len[base[c]] # 0
      BY <3>1, HeapNumbers
    <3>3. QED
      BY <3>1, <3>2, RunsFacts
  <2>2. QED
    BY <1>5, <2>1 DEF Chunked
<1>8. /\ live' \in [Addrs -> Nat] /\ Live' = Live \cup {b} /\ live'[b] = size
      /\ \A a \in Addrs : a # b => live'[a] = live[a]
  BY <1>1, LiveMore
<1>9. /\ hdr' \in [Addrs -> HdrSet] /\ \A a \in Addrs : hdr'[a].size = mem[a].size
      /\ \A a \in Addrs : a # b => hdr'[a].next = mem[a].next
  BY <1>1, LinkFacts
<1>10. \A a \in Addrs : PageOf(a) \in taken => a # b /\ mem[a] = hdr[a]
  BY <1>3, <1>5
<1>11. \A a \in Live : mem[a].next = hdr[a].next /\ mem[a].prev = hdr[a].prev
  BY <1>10, LivePlace
<1>12. UsedOK'
  BY <1>1, <1>6, <1>8, <1>11, UsedPush
<1>13. QED
  BY <1>2, <1>3, <1>6, <1>7, <1>8, <1>9, <1>10, <1>12 DEF FreshStep

\* Chunks are not touched by what happens in fresh pages.
LEMMA ChunkOld ==
    ASSUME NEW base, NEW len, HeapOK(base, len), NEW d \in Classes, base[d] # 0,
           NEW p, NEW b, NEW mem, NEW size, FreshStep(p, b, mem, size), free'[d] = free[d]
    PROVE  Formed(d, base[d])' /\ FreeList(d, base[d])'
<1> USE DEF HeapOK
<1>1. Formed(d, base[d]) /\ FreeList(d, base[d])
  BY DEF FreeOK
<1>2. \A a \in SlotsOf(d, base[d]) : a \in Addrs /\ PageOf(a) \in taken
  BY ChunksApart
<1>3. \A a \in SlotsOf(d, base[d]) : /\ hdr'[a].size = hdr[a].size /\ (a \in Live' <=> a \in Live)
                                     /\ a \notin Live => hdr'[a].next = hdr[a].next
  BY <1>2 DEF FreshStep
<1>4. QED
  BY <1>1, <1>3, SlotsIn, ChunkSame

\* A class without a chunk gets one.
LEMMA RefillKeeps ==
    ASSUME Roomy, NEW base, NEW len, HeapOK(base, len), NEW c \in Classes,
           NEW size \in Nat \ {0}, size =< c, Cardinality(InUse(c)) < MaxLive,
           NEW b \in Addrs, NEW p, free[c] = NULL, Fitting(ChunkPages) # {},
           p = Least(Fitting(ChunkPages)), b = PageAddr(p),
           NEW mem, mem = format_unused(Zeroed(p, ChunkPages), PageAddr(p), c),
           NewBucket(mem, b, size), free' = [free EXCEPT ![c] = mem[b].next],
           taken' = taken \cup Run(p, ChunkPages), chunks' = chunks \cup {PageOf(b)},
           NEW base2, base2 = [base EXCEPT ![c] = p],
           NEW len2, len2 = [len EXCEPT ![p] = ChunkPages]
    PROVE  HeapOK(base2, len2)' /\ b \notin Live
<1> DEFINE f == Formatted(c)
<1>0. Types /\ Runs(len) /\ Chunked(base, len) /\ FreeOK(base) /\ LiveOK(base, len) /\ Kept(len)
  BY DEF HeapOK
<1>1. hdr \in [Addrs -> HdrSet] /\ free \in [Classes -> Nat] /\ used \in Nat /\ live \in [Addrs -> Nat]
  BY <1>0 DEF Types
<1>2. ChunkPages \in Nat \ {0}
  BY HeapNumbers
<1>3. p \in Pages \ {0} /\ Run(p, ChunkPages) \subseteq Pages \ {0} /\ Run(p, ChunkPages) \cap taken = {}
  BY <1>0, <1>2, RunsFacts, FittingFacts
<1>4. p \in Nat
  BY <1>3, HeapNumbers DEF Pages
<1>5. /\ mem \in [Addrs -> HdrSet]
      /\ \A a \in Addrs : PageOf(a) \notin Run(p, ChunkPages) => mem[a] = hdr[a]
      /\ \A k \in 0 .. f - 1 : mem[Slot(c, p, k)].next = Slot(c, p, k + 1) /\ mem[Slot(c, p, k)].size = c
      /\ mem[Phantom(c, p)].next = NULL /\ mem[Phantom(c, p)].size = 0
  BY <1>1, <1>3, <1>4, FormatFacts
<1>6. FreshStep(p, b, mem, size)
  <2>1. Fresh(p, ChunkPages)
    BY <1>2, <1>3 DEF Fresh
  <2>2. Filled(mem, p, ChunkPages)
    BY <1>5 DEF Filled
  <2>3. QED
    BY <2>1, <2>2, FreshHeaders
<1> USE DEF FreshStep
<1>7. base \in [Classes -> Pages] /\ base2 \in [Classes -> Pages] /\ base2[c] = p
      /\ \A d \in Classes : d # c => base2[d] = base[d]
  BY <1>0, <1>3 DEF Chunked
<1>8. len \in [Pages -> Nat] /\ len2[p] = ChunkPages /\ \A q \in Pages : q # p => len2[q] = len[q]
  BY <1>0, <1>3 DEF Runs
<1>9. Runs(len2)' /\ len[p] = 0 /\ p \notin taken
  BY <1>0, <1>2, <1>3, RunsAdd
<1>10. base[c] = 0
  <2> SUFFICES ASSUME base[c] # 0 PROVE FALSE
    OBVIOUS
  <2>1. Formed(c, base[c]) /\ FreeList(c, base[c])
    BY <1>0 DEF FreeOK
  <2>2. PICK n, s : Linked(hdr, free[c], SlotsOf(c, base[c]) \ Live, n, s)
    BY <2>1 DEF FreeList
  <2>3. Phantom(c, base[c]) \in SlotsOf(c, base[c]) \ Live
    BY <2>1, SlotsIn DEF Formed
  <2>4. \E i \in 1 .. n : s[i] = Phantom(c, base[c])
    BY <2>2, <2>3 DEF Linked
  <2>5. n \in 1 .. n /\ s[n] = free[c]
    BY <2>2, <2>4 DEF Linked
  <2>6. free[c] \in SlotsOf(c, base[c])
    BY <2>2, <2>5 DEF Linked
  <2>7. QED
    BY <1>0, <2>6, ChunksApart, AddrFacts
<1>11. \A d \in Classes : base[d] # 0 => base[d] \in chunks /\ base[d] # p /\ d # c
  BY <1>0, <1>6, <1>10 DEF Chunked
<1>12. Chunked(base2, len2)'
  <2>1. chunks' = {base2[d] : d \in {e \in Classes : base2[e] # 0}}
    <3>1. \A x : x \in chunks' <=> \E d \in Classes : base2[d] # 0 /\ x = base2[d]
      <4>1. \A x : x \in chunks <=> \E d \in Classes : base[d] # 0 /\ x = base[d]
        BY <1>0 DEF Chunked
      <4>2. \A x : x \in chunks' <=> x \in chunks \/ x = p
        BY <1>6
      <4>3. QED
        BY <1>3, <1>7, <1>10, <4>1, <4>2
    <3>2. QED
      BY <3>1
  <2>2. ASSUME NEW d \in Classes, base2[d] # 0 PROVE len2[base2[d]] = ChunkPages
    <3>1. CASE d = c
      BY <1>7, <1>8, <3>1
    <3>2. CASE d # c
      <4>1. base2[d] = base[d] /\ base[d] # 0 /\ base[d] # p /\ base[d] \in Pages
        BY <1>7, <1>11, <2>2, <3>2
      <4>2. QED
        BY <1>0, <1>8, <4>1 DEF Chunked
    <3>3. QED
      BY <3>1, <3>2
  <2>3. ASSUME NEW d \in Classes, NEW e \in Classes, base2[d] = base2[e], base2[d] # 0 PROVE d = e
    BY <1>0, <1>7, <1>11, <2>3 DEF Chunked
  <2>4. QED
    BY <1>7, <2>1, <2>2, <2>3 DEF Chunked
<1>13. free' \in [Classes -> Nat] /\ free'[c] = mem[b].next
       /\ \A d \in Classes : d # c => free'[d] = free[d]
  <2>1. mem[b].next \in Nat
    BY <1>5 DEF HdrSet
  <2>2. QED
    BY <1>1, <2>1
<1>14. Types'
  <2>1. hdr' \in [Addrs -> HdrSet] /\ live' \in [Addrs -> Nat]
    BY <1>6
  <2>2. used' \in Nat
    BY AddrFacts DEF NewBucket
  <2>3. QED
    BY <1>13, <2>1, <2>2 DEF Types
<1>15. f \in Nat /\ f >= 1
  <2>1. Cardinality(InUse(c)) \in Nat
    BY InUseFinite
  <2>2. f \in Nat /\ MaxLive \in Nat /\ MaxLive =< f
    BY ChunkNumbers, HeapNumbers, RoomyFacts
  <2>3. QED
    BY <2>1, <2>2
<1>16. \A a \in SlotsOf(c, p) : a \in Addrs /\ a \notin Live
  <2>1. ASSUME NEW k \in 0 .. f PROVE Slot(c, p, k) \in Addrs /\ PageOf(Slot(c, p, k)) \in Run(p, ChunkPages)
    <3>1. Slot(c, p, k) \in Words(p, ChunkPages)
      BY <1>4, SlotFacts
    <3>2. QED
      BY <1>2, <1>3, <1>4, <3>1, WordsInHeap
  <2>2. QED
    BY <1>3, <2>1, LivePlace DEF SlotsOf
<1>17. Phantom(c, p) # b /\ Slot(c, p, 0) = b
  <2>1. 0 \in 0 .. f /\ f \in 0 .. f /\ 0 # f
    BY <1>15
  <2>2. Slot(c, p, 0) = b
    BY <1>4, ChunkNumbers DEF Slot
  <2>3. QED
    BY <1>4, <2>1, <2>2, SlotsDiffer DEF Phantom
<1>18. Formed(c, p)'
  <2>1. \A k \in 0 .. f - 1 : hdr'[Slot(c, p, k)].size = c
    BY <1>5, <1>6, <1>16, SlotsIn
  <2>2. hdr'[Phantom(c, p)].size = 0 /\ Phantom(c, p) \notin Live'
    BY <1>5, <1>6, <1>16, <1>17, SlotsIn
  <2>3. QED
    BY <2>1, <2>2 DEF Formed
<1>19. FreeList(c, p)'
  <2> DEFINE S == SlotsOf(c, p)
             T == S \ {b}
             m == f + 1
  <2>1. T = S \ {b} /\ m - 1 >= 1
    BY <1>15
  <2>2. PICK s : Linked(mem, b, S, m, s) /\ s[1] = Phantom(c, p)
    BY <1>4, <1>5, FreshList
  <2>3. T = SlotsOf(c, p) \ Live'
    BY <1>6, <1>16
  <2>4. \A a \in T : hdr'[a].next = mem[a].next
    BY <1>6, <1>16
  <2> HIDE DEF S, T, m
  <2>5. PICK w : Linked(mem, mem[b].next, T, m - 1, w) /\ w[1] = s[1]
    BY <2>1, <2>2, LinkedPop
  <2>6. Linked(hdr', mem[b].next, T, m - 1, w)
    BY <2>4, <2>5, LinkedSame
  <2>7. Linked(hdr', free'[c], SlotsOf(c, p) \ Live', m - 1, w)
    BY <1>13, <2>3, <2>6
  <2>8. w[1] = Phantom(c, p)
    BY <2>2, <2>5
  <2>9. QED
    BY <2>7, <2>8 DEF FreeList
<1>20. FreeOK(base2)'
  <2>1. ASSUME NEW d \in Classes, d # c
        PROVE  IF base2[d] = 0 THEN free'[d] = NULL ELSE Formed(d, base2[d])' /\ FreeList(d, base2[d])'
    <3>1. CASE base[d] = 0
      BY <1>0, <1>7, <1>13, <2>1, <3>1 DEF FreeOK
    <3>2. CASE base[d] # 0
      <4>1. free'[d] = free[d]
        BY <1>13, <2>1
      <4>2. Formed(d, base[d])' /\ FreeList(d, base[d])'
        <5> HIDE DEF FreshStep
        <5>1. QED
          BY <1>6, <3>2, <4>1, ChunkOld
      <4>3. QED
        BY <1>7, <2>1, <3>2, <4>2
    <3>3. QED
      BY <3>1, <3>2
  <2>2. QED
    BY <1>3, <1>7, <1>18, <1>19, <2>1 DEF FreeOK
<1>21. LiveOK(base2, len2)'
  <2>1. ASSUME NEW a \in Live PROVE Small(base2, a)' \/ Large(len2, a)'
    <3>1. a \in Addrs /\ PageOf(a) \in taken /\ PageOf(a) \in Pages
      BY LivePlace, AddrFacts
    <3>2. a # b /\ PageOf(a) # p /\ hdr'[a].size = hdr[a].size /\ live'[a] = live[a]
      BY <1>6, <1>9, <3>1
    <3>3. len2[PageOf(a)] = len[PageOf(a)] /\ (PageOf(a) \notin chunks => PageOf(a) \notin chunks')
      BY <1>6, <1>8, <3>1, <3>2
    <3>4. \A d \in Classes : base[d] # 0 => base2[d] = base[d]
      BY <1>7, <1>11
    <3>5. Untouched(base, len, base2, len2, a)
      BY <3>2, <3>3, <3>4 DEF Untouched
    <3>6. QED
      BY <1>0, <3>5, LiveStays
  <2>2. Small(base2, b)'
    <3>1. 0 \in 0 .. f - 1
      BY <1>15
    <3>2. QED
      BY <1>3, <1>6, <1>7, <1>17, <3>1 DEF Small
  <2>3. QED
    BY <1>6, <2>1, <2>2 DEF LiveOK
<1>22. Kept(len2)'
  <2>1. ASSUME NEW q \in Pages, len2[q] # 0
        PROVE  q \in chunks' \/ (PageAddr(q) \in Live' /\ IsLarge(hdr'[PageAddr(q)].size))
    <3>1. CASE q = p
      BY <1>6, <3>1
    <3>2. CASE q # p
      <4>1. len[q] # 0
        BY <1>8, <2>1, <3>2
      <4>2. PageAddr(q) \in Live => PageAddr(q) \in Live' /\ hdr'[PageAddr(q)].size = hdr[PageAddr(q)].size
        BY <1>6, LivePlace
      <4>3. QED
        BY <1>0, <4>1, <4>2, KeptStays
    <3>3. QED
      BY <3>1, <3>2
  <2>2. QED
    BY <2>1 DEF Kept, IsLarge
<1>23. QED
  BY <1>6, <1>9, <1>12, <1>14, <1>20, <1>21, <1>22 DEF HeapOK

\* A large bucket gets pages of its own.
LEMMA LargeKeeps ==
    ASSUME NEW base, NEW len, HeapOK(base, len), NEW size \in Nat \ {0}, IsLarge(size),
           NEW b \in Addrs, NEW p, NEW n, n = PagesFor(size), Fitting(n) # {},
           p = Least(Fitting(n)), b = PageAddr(p),
           NEW mem, mem = [Zeroed(p, n) EXCEPT ![PageAddr(p)].size = size],
           NewBucket(mem, b, size), free' = free, chunks' = chunks,
           taken' = taken \cup Run(p, n), NEW len2, len2 = [len EXCEPT ![p] = n]
    PROVE  HeapOK(base, len2)' /\ b \notin Live
<1>0. Types /\ Runs(len) /\ Chunked(base, len) /\ FreeOK(base) /\ LiveOK(base, len) /\ Kept(len)
  BY DEF HeapOK
<1>1. hdr \in [Addrs -> HdrSet] /\ free \in [Classes -> Nat] /\ used \in Nat /\ live \in [Addrs -> Nat]
  BY <1>0 DEF Types
<1>2. n \in Nat \ {0}
  BY PagesForFacts
<1>3. p \in Pages \ {0} /\ Run(p, n) \subseteq Pages \ {0} /\ Run(p, n) \cap taken = {}
  BY <1>0, <1>2, RunsFacts, FittingFacts
<1>4. p \in Nat /\ PageOf(b) = p /\ p \in Run(p, n)
  <2>1. p \in Nat
    BY <1>3, HeapNumbers DEF Pages
  <2>2. QED
    BY <1>2, <2>1, PageOfAddr DEF Run
<1>5. Filled(mem, p, n) /\ mem[b].size = size
  <2> DEFINE z == Zeroed(p, n)
  <2>1. z = [a \in Addrs |-> IF PageOf(a) \in Run(p, n) THEN ZeroHdr ELSE hdr[a]]
    BY DEF Zeroed
  <2>2. ZeroHdr \in HdrSet
    BY AddrFacts DEF ZeroHdr, HdrSet
  <2>3. z \in [Addrs -> HdrSet]
    BY <1>1, <2>1, <2>2
  <2> DEFINE r == [z[b] EXCEPT !.size = size]
  <2>4. mem = [z EXCEPT ![b] = r]
    OBVIOUS
  <2> HIDE DEF z
  <2>5. r \in HdrSet /\ r.size = size
    BY <2>3 DEF HdrSet
  <2> HIDE DEF r
  <2>6. mem \in [Addrs -> HdrSet] /\ mem[b].size = size /\ \A a \in Addrs : a # b => mem[a] = z[a]
    <3>1. mem[b] = r /\ \A a \in Addrs : a # b => mem[a] = z[a]
      BY <2>3, <2>4, Zenon
    <3>2. mem \in [Addrs -> HdrSet]
      BY <2>3, <2>4, <2>5, Zenon
    <3>3. QED
      BY <2>5, <3>1, <3>2
  <2>7. \A a \in Addrs : PageOf(a) \notin Run(p, n) => mem[a] = hdr[a]
    BY <1>4, <2>1, <2>6
  <2>8. QED
    BY <2>6, <2>7 DEF Filled
<1>6. FreshStep(p, b, mem, size)
  <2>1. Fresh(p, n)
    BY <1>2, <1>3 DEF Fresh
  <2>2. QED
    BY <1>5, <2>1, FreshHeaders
<1>7. len \in [Pages -> Nat] /\ len2[p] = n /\ \A q \in Pages : q # p => len2[q] = len[q]
  BY <1>0, <1>3 DEF Runs
<1>8. Runs(len2)' /\ len[p] = 0 /\ p \notin taken
  BY <1>0, <1>2, <1>3, RunsAdd
<1>9. Chunked(base, len2)'
  <2>1. ASSUME NEW d \in Classes, base[d] # 0 PROVE len2[base[d]] = ChunkPages
    <3>1. base[d] \in Pages /\ base[d] \in chunks /\ len[base[d]] = ChunkPages
      BY <1>0, <2>1 DEF Chunked
    <3>2. base[d] # p
      BY <1>6, <3>1 DEF FreshStep
    <3>3. QED
      BY <1>7, <3>1, <3>2
  <2>2. QED
    BY <1>0, <2>1 DEF Chunked
<1>10. Types'
  <2>1. hdr' \in [Addrs -> HdrSet] /\ live' \in [Addrs -> Nat]
    BY <1>6 DEF FreshStep
  <2>2. used' \in Nat
    BY AddrFacts DEF NewBucket
  <2>3. QED
    BY <1>1, <2>1, <2>2 DEF Types
<1>11. FreeOK(base)'
  <2>1. ASSUME NEW d \in Classes
        PROVE  IF base[d] = 0 THEN free'[d] = NULL ELSE Formed(d, base[d])' /\ FreeList(d, base[d])'
    <3>1. CASE base[d] = 0
      BY <1>0, <3>1 DEF FreeOK
    <3>2. CASE base[d] # 0
      <4>1. free'[d] = free[d]
        OBVIOUS
      <4>2. Formed(d, base[d])' /\ FreeList(d, base[d])'
        BY <1>6, <3>2, <4>1, ChunkOld
      <4>3. QED
        BY <3>2, <4>2
    <3>3. QED
      BY <3>1, <3>2
  <2>2. QED
    BY <2>1 DEF FreeOK
<1>12. LiveOK(base, len2)'
  <2>1. ASSUME NEW a \in Live PROVE Small(base, a)' \/ Large(len2, a)'
    <3>1. a \in Addrs /\ PageOf(a) \in taken /\ PageOf(a) \in Pages
      BY LivePlace, AddrFacts
    <3>2. a # b /\ PageOf(a) # p /\ hdr'[a].size = hdr[a].size /\ live'[a] = live[a]
      BY <1>6, <1>8, <3>1 DEF FreshStep
    <3>3. Untouched(base, len, base, len2, a)
      BY <1>7, <3>1, <3>2 DEF Untouched
    <3>4. QED
      BY <1>0, <3>3, LiveStays
  <2>2. Large(len2, b)'
    <3>1. b = PageAddr(PageOf(b)) /\ len2[PageOf(b)] = PagesFor(size) /\ PageOf(b) \notin chunks'
      BY <1>4, <1>6, <1>7 DEF FreshStep
    <3>2. hdr'[b].size = size /\ live'[b] = size
      BY <1>5, <1>6 DEF FreshStep
    <3>3. IsLarge(hdr'[b].size) /\ live'[b] =< hdr'[b].size /\ len2[PageOf(b)] = PagesFor(hdr'[b].size)
      BY <3>1, <3>2
    <3>4. QED
      BY <3>1, <3>3 DEF Large
  <2>3. Live' = Live \cup {b}
    BY <1>6 DEF FreshStep
  <2>4. QED
    BY <2>1, <2>2, <2>3 DEF LiveOK
<1>13. Kept(len2)'
  <2>1. ASSUME NEW q \in Pages, len2[q] # 0
        PROVE  q \in chunks' \/ (PageAddr(q) \in Live' /\ IsLarge(hdr'[PageAddr(q)].size))
    <3>1. CASE q = p
      <4>1. b \in Live' /\ hdr'[b].size = size
        BY <1>5, <1>6 DEF FreshStep
      <4>2. QED
        BY <3>1, <4>1
    <3>2. CASE q # p
      <4>1. len[q] # 0
        BY <1>7, <2>1, <3>2
      <4>2. PageAddr(q) \in Live => PageAddr(q) \in Live' /\ hdr'[PageAddr(q)].size = hdr[PageAddr(q)].size
        BY <1>6, LivePlace DEF FreshStep
      <4>3. QED
        BY <1>0, <4>1, <4>2, KeptStays
    <3>3. QED
      BY <3>1, <3>2
  <2>2. QED
    BY <2>1 DEF Kept, IsLarge
<1>14. UsedOK' /\ b \notin Live
  BY <1>6 DEF FreshStep
<1>15. QED
  BY <1>8, <1>9, <1>10, <1>11, <1>12, <1>13, <1>14 DEF HeapOK

\* malloc: whatever the size.
LEMMA AllocKeeps ==
    ASSUME Roomy, NEW base, NEW len, HeapOK(base, len), NEW size \in Nat \ {0}, NEW b \in Addrs,
           free_buckets_alloc(size, b), live' = [live EXCEPT ![b] = size]
    PROVE  (\E base2, len2 : HeapOK(base2, len2)') /\ b \notin Live /\ Live' = Live \cup {b}
<1>1. Live' = Live \cup {b}
  <2>1. live \in [Addrs -> Nat]
    BY DEF HeapOK, Types
  <2>2. QED
    BY <2>1, LiveMore
<1>2. used' = b
  BY DEF free_buckets_alloc
<1>3. CASE IsLarge(size)
  <2>1. TakePages(size, b)
    BY <1>3 DEF free_buckets_alloc
  <2>2. PICK n : n = PagesFor(size)
    OBVIOUS
  <2>3. PICK p : p = Least(Fitting(n))
    OBVIOUS
  <2>4. PICK mem : mem = [Zeroed(p, n) EXCEPT ![PageAddr(p)].size = size]
    OBVIOUS
  <2>5. PICK len2 : len2 = [len EXCEPT ![p] = n]
    OBVIOUS
  <2>6. /\ Fitting(n) # {} /\ b = PageAddr(p) /\ taken' = taken \cup Run(p, n)
        /\ hdr' = Link(mem, b) /\ free' = free /\ chunks' = chunks
    BY <2>1, <2>2, <2>3, <2>4 DEF TakePages
  <2>7. NewBucket(mem, b, size)
    BY <1>2, <2>6 DEF NewBucket
  <2>8. HeapOK(base, len2)' /\ b \notin Live
    BY <1>3, <2>2, <2>3, <2>4, <2>5, <2>6, <2>7, LargeKeeps
  <2>9. QED
    BY <1>1, <2>8
<1>4. CASE ~IsLarge(size)
  <2>1. PICK c : c = ClassOf(size)
    OBVIOUS
  <2>2. c \in Classes /\ size =< c
    BY <1>4, <2>1, ClassFacts
  <2>3. Cardinality(InUse(c)) < MaxLive /\ TakeBucket(c, size, b)
    BY <1>4, <2>1 DEF free_buckets_alloc
  <2>4. CASE free[c] # NULL
    <3>1. /\ b = free[c] /\ hdr' = Link(hdr, b) /\ free' = [free EXCEPT ![c] = hdr[b].next]
          /\ taken' = taken /\ chunks' = chunks
      BY <2>3, <2>4 DEF TakeBucket
    <3>2. HeapOK(base, len)' /\ b \notin Live
      BY <1>2, <2>2, <2>3, <2>4, <3>1, PopKeeps
    <3>3. QED
      BY <1>1, <3>2
  <2>5. CASE free[c] = NULL
    <3>1. PICK p : p = Least(Fitting(ChunkPages))
      OBVIOUS
    <3>2. PICK mem : mem = format_unused(Zeroed(p, ChunkPages), PageAddr(p), c)
      OBVIOUS
    <3>3. PICK base2 : base2 = [base EXCEPT ![c] = p]
      OBVIOUS
    <3>4. PICK len2 : len2 = [len EXCEPT ![p] = ChunkPages]
      OBVIOUS
    <3>5. /\ Fitting(ChunkPages) # {} /\ b = PageAddr(p) /\ hdr' = Link(mem, b)
          /\ taken' = taken \cup Run(p, ChunkPages) /\ chunks' = chunks \cup {PageOf(b)}
          /\ free' = [free EXCEPT ![c] = mem[b].next]
      BY <2>3, <2>5, <3>1, <3>2 DEF TakeBucket
    <3>6. NewBucket(mem, b, size)
      BY <1>2, <3>5 DEF NewBucket
    <3>7. HeapOK(base2, len2)' /\ b \notin Live
      BY <2>2, <2>3, <2>5, <3>1, <3>2, <3>3, <3>4, <3>5, <3>6, RefillKeeps
    <3>8. QED
      BY <1>1, <3>7
  <2>6. QED
    BY <2>4, <2>5
<1>5. QED
  BY <1>3, <1>4

-----------------------------------------------------------------------------
(* free.                                                                    *)

\* What free does to every bucket: out of the list of buckets in use.
CutStep(b, f) ==
    /\ Unlinked(hdr', b, f) /\ used' = (IF b = used THEN hdr[b].next ELSE used)
    /\ live' = [live EXCEPT ![b] = 0] /\ chunks' = chunks

\* The list of buckets in use stays one, and buckets not in use keep their links.
LEMMA CutKeeps ==
    ASSUME NEW base, NEW len, HeapOK(base, len), NEW b \in Live, NEW f, f \notin Live, CutStep(b, f)
    PROVE  /\ UsedOK' /\ used' \in Nat /\ Live' = Live \ {b} /\ live' \in [Addrs -> Nat]
           /\ hdr' \in [Addrs -> HdrSet] /\ b \in Addrs
           /\ \A a \in Addrs : hdr'[a].size = hdr[a].size
           /\ \A a \in Addrs : a \notin Live => hdr'[a].next = hdr[a].next
           /\ \A a \in Addrs : a # b => live'[a] = live[a]
<1>1. hdr \in [Addrs -> HdrSet] /\ used \in Nat /\ live \in [Addrs -> Nat] /\ UsedOK
  BY DEF HeapOK, Types
<1>2. b \in Addrs /\ Live \in SUBSET Addrs /\ NULL \notin Addrs
  BY AddrFacts DEF Live
<1>3. /\ live' \in [Addrs -> Nat] /\ Live' = Live \ {b}
      /\ \A a \in Addrs : a # b => live'[a] = live[a]
  BY <1>1, <1>2, LiveLess DEF CutStep
<1>4. PICK m, u : Linked(hdr, used, Live, m, u) /\ Mirrored(hdr, m, u)
  BY <1>1 DEF UsedOK, DoublyLinked
<1>5. Closed(hdr, hdr', Live, b)
  BY <1>2 DEF Closed, CutStep, Unlinked
<1>6. PICK front : front = IF b = used THEN hdr[b].next ELSE used
  OBVIOUS
<1>7. PICK T : T = Live \ {b}
  OBVIOUS
<1>8. DoublyLinked(hdr', front, T)
  BY <1>2, <1>4, <1>5, <1>6, <1>7, LinkedCut
<1>9. hdr[b].prev \in Live \cup {NULL}
  BY <1>2, <1>4, <1>5, <1>6, <1>7, LinkedCut
<1>10. UsedOK'
  <2>1. front = used' /\ T = Live'
    BY <1>3, <1>6, <1>7 DEF CutStep
  <2>2. QED
    BY <1>8, <2>1 DEF UsedOK
<1>11. used' \in Nat
  <2>1. hdr[b].next \in Nat
    BY <1>1, <1>2 DEF HdrSet
  <2>2. QED
    BY <1>1, <2>1 DEF CutStep
<1>12. hdr' \in [Addrs -> HdrSet] /\ \A a \in Addrs : hdr'[a].size = hdr[a].size
  BY DEF CutStep, Unlinked
<1>13. \A a \in Addrs : a \notin Live => hdr'[a].next = hdr[a].next
  <2>1. ASSUME NEW a \in Addrs, a \notin Live PROVE hdr'[a].next = hdr[a].next
    <3>1. a # b /\ a # hdr[b].prev
      BY <1>2, <1>9, <2>1
    <3>2. QED
      BY <3>1 DEF CutStep, Unlinked
  <2>2. QED
    BY <2>1
<1>14. QED
  BY <1>2, <1>3, <1>10, <1>11, <1>12, <1>13

\* A bucket goes back to the free list of its class.
LEMMA PushKeeps ==
    ASSUME NEW base, NEW len, HeapOK(base, len), NEW b \in Live, NEW c \in Classes, base[c] # 0,
           NEW k \in 0 .. Formatted(c) - 1, b = Slot(c, base[c], k), hdr[b].size = c, ~IsLarge(c),
           CutStep(b, free[c]), free' = [free EXCEPT ![c] = b], taken' = taken
    PROVE  HeapOK(base, len)'
<1> DEFINE p == base[c]
           S == SlotsOf(c, p) \ Live
           T == S \cup {b}
<1>0. Types /\ Runs(len) /\ Chunked(base, len) /\ FreeOK(base) /\ LiveOK(base, len) /\ Kept(len)
  BY DEF HeapOK
<1>1. Formed(c, p) /\ FreeList(c, p)
  BY <1>0 DEF FreeOK
<1>2. PICK n, s : Linked(hdr, free[c], S, n, s) /\ s[1] = Phantom(c, p)
  BY <1>1 DEF FreeList
<1>3. n \in Nat /\ n >= 1 /\ free[c] \in S
  <2>1. Phantom(c, p) \in S
    BY <1>1, SlotsIn DEF Formed
  <2>2. \E i \in 1 .. n : s[i] = Phantom(c, p)
    BY <1>2, <2>1 DEF Linked
  <2>3. n \in 1 .. n /\ s[n] = free[c] /\ n \in Nat
    BY <1>2, <2>2 DEF Linked
  <2>4. QED
    BY <1>2, <2>3 DEF Linked
<1>4. /\ UsedOK' /\ used' \in Nat /\ Live' = Live \ {b} /\ live' \in [Addrs -> Nat]
      /\ hdr' \in [Addrs -> HdrSet] /\ b \in Addrs
      /\ \A a \in Addrs : hdr'[a].size = hdr[a].size
      /\ \A a \in Addrs : a \notin Live => hdr'[a].next = hdr[a].next
      /\ \A a \in Addrs : a # b => live'[a] = live[a]
  <2>1. PICK f : f = free[c]
    OBVIOUS
  <2>2. CutStep(b, f) /\ f \notin Live
    BY <1>3, <2>1
  <2>3. QED
    BY <2>2, CutKeeps
<1>5. \A d \in Classes : \A a \in SlotsOf(d, base[d]) : base[d] # 0 => a \in Addrs
  BY <1>0, ChunksApart
<1>6. b \in SlotsOf(c, p)
  BY SlotsIn
<1>7. T = SlotsOf(c, p) \ Live' /\ S \in SUBSET Addrs /\ b \notin S
  BY <1>4, <1>5, <1>6
<1>8. \A a \in S : hdr'[a].next = hdr[a].next
  BY <1>4, <1>7
<1>9. hdr'[b].next = free[c]
  BY DEF CutStep, Unlinked
<1> HIDE DEF S, T
<1>10. FreeList(c, p)'
  <2>1. PICK w : w = [i \in 0 .. n + 1 |-> IF i = n + 1 THEN b ELSE s[i]]
    OBVIOUS
  <2>2. Linked(hdr', b, S \cup {b}, n + 1, w)
    BY <1>2, <1>4, <1>7, <1>8, <1>9, <2>1, LinkedPush
  <2>3. w[1] = Phantom(c, p)
    BY <1>2, <1>3, <2>1
  <2>4. free'[c] = b
    BY <1>0 DEF Types
  <2>5. Linked(hdr', free'[c], SlotsOf(c, p) \ Live', n + 1, w)
    BY <1>7, <2>2, <2>4 DEF T
  <2>6. QED
    BY <2>3, <2>5 DEF FreeList
<1>11. Formed(c, p)'
  BY <1>1, <1>4, <1>5, SlotsIn DEF Formed
<1>12. FreeOK(base)'
  <2>1. ASSUME NEW d \in Classes, d # c
        PROVE  IF base[d] = 0 THEN free'[d] = NULL ELSE Formed(d, base[d])' /\ FreeList(d, base[d])'
    <3>1. free'[d] = free[d]
      BY <1>0, <2>1 DEF Types
    <3>2. CASE base[d] = 0
      BY <1>0, <3>1, <3>2 DEF FreeOK
    <3>3. CASE base[d] # 0
      <4>1. b \notin SlotsOf(d, base[d])
        BY <1>0, <1>6, <2>1, <3>3, ChunksApart
      <4>2. Formed(d, base[d]) /\ FreeList(d, base[d])
        BY <1>0, <3>3 DEF FreeOK
      <4>3. \A a \in SlotsOf(d, base[d]) : /\ hdr'[a].size = hdr[a].size /\ (a \in Live' <=> a \in Live)
                                           /\ a \notin Live => hdr'[a].next = hdr[a].next
        BY <1>4, <1>5, <3>3, <4>1
      <4>4. QED
        BY <3>1, <3>3, <4>2, <4>3, SlotsIn, ChunkSame
    <3>4. QED
      BY <3>2, <3>3
  <2>2. QED
    BY <1>10, <1>11, <2>1 DEF FreeOK
<1>13. Types'
  <2>1. free' \in [Classes -> Nat]
    BY <1>0, <1>4, AddrFacts DEF Types
  <2>2. QED
    BY <1>4, <2>1 DEF Types
<1>14. chunks' = chunks
  BY DEF CutStep
<1>15. Runs(len)' /\ Chunked(base, len)'
  BY <1>0, <1>14 DEF Runs, Chunked
<1>16. LiveOK(base, len)'
  <2>1. ASSUME NEW a \in Live, a # b PROVE Small(base, a)' \/ Large(len, a)'
    <3>1. Untouched(base, len, base, len, a)
      BY <1>4, <1>14, <2>1 DEF Untouched, Live
    <3>2. QED
      BY <1>0, <3>1, LiveStays
  <2>2. QED
    BY <1>4, <2>1 DEF LiveOK
<1>17. Kept(len)'
  <2>1. ASSUME NEW q \in Pages, len[q] # 0
        PROVE  q \in chunks' \/ (PageAddr(q) \in Live' /\ IsLarge(hdr'[PageAddr(q)].size))
    <3>1. q \in chunks \/ (PageAddr(q) \in Live /\ IsLarge(hdr[PageAddr(q)].size))
      BY <1>0, <2>1 DEF Kept
    <3>2. ASSUME PageAddr(q) \in Live, IsLarge(hdr[PageAddr(q)].size)
          PROVE  PageAddr(q) \in Live' /\ hdr'[PageAddr(q)].size = hdr[PageAddr(q)].size
      <4>1. PageAddr(q) # b /\ PageAddr(q) \in Addrs
        BY <3>2 DEF Live
      <4>2. QED
        BY <1>4, <3>2, <4>1
    <3>3. QED
      BY <1>14, <3>1, <3>2
  <2>2. QED
    BY <2>1 DEF Kept, IsLarge
<1>18. QED
  BY <1>4, <1>12, <1>13, <1>15, <1>16, <1>17 DEF HeapOK

\* A large bucket gives its pages back.
LEMMA ReturnKeeps ==
    ASSUME NEW base, NEW len, HeapOK(base, len), NEW b \in Live, Large(len, b), CutStep(b, NULL),
           free' = free, NEW q, q = PageOf(b), taken' = taken \ Run(q, len[q]),
           NEW len2, len2 = [len EXCEPT ![q] = 0]
    PROVE  HeapOK(base, len2)'
<1>0. Types /\ Runs(len) /\ Chunked(base, len) /\ FreeOK(base) /\ LiveOK(base, len) /\ Kept(len)
  BY DEF HeapOK
<1>1. /\ UsedOK' /\ used' \in Nat /\ Live' = Live \ {b} /\ live' \in [Addrs -> Nat]
      /\ hdr' \in [Addrs -> HdrSet] /\ b \in Addrs
      /\ \A a \in Addrs : hdr'[a].size = hdr[a].size
      /\ \A a \in Addrs : a \notin Live => hdr'[a].next = hdr[a].next
      /\ \A a \in Addrs : a # b => live'[a] = live[a]
  <2>1. NULL \notin Live
    BY AddrFacts DEF Live
  <2>2. QED
    BY <2>1, CutKeeps
<1>2. chunks' = chunks
  BY DEF CutStep
<1>3. /\ q \in Pages /\ q \in Run(q, len[q]) /\ b = PageAddr(q) /\ q \notin chunks
      /\ \A c \in Classes : base[c] # 0 => Run(q, len[q]) \cap Run(base[c], ChunkPages) = {}
  BY <1>0, <1>1, LargePlace DEF Large
<1>4. len \in [Pages -> Nat] /\ len2[q] = 0 /\ \A r \in Pages : r # q => len2[r] = len[r]
  BY <1>0, <1>3 DEF Runs
<1>5. Runs(len2)'
  BY <1>0, <1>3, RunsDrop
<1>6. Chunked(base, len2)'
  <2>1. ASSUME NEW d \in Classes, base[d] # 0 PROVE len2[base[d]] = ChunkPages
    <3>1. base[d] \in Pages /\ base[d] \in chunks /\ len[base[d]] = ChunkPages
      BY <1>0, <2>1 DEF Chunked
    <3>2. QED
      BY <1>3, <1>4, <3>1
  <2>2. QED
    BY <1>0, <1>2, <2>1 DEF Chunked
<1>7. Types'
  BY <1>0, <1>1 DEF Types
<1>8. FreeOK(base)'
  <2>1. ASSUME NEW d \in Classes
        PROVE  IF base[d] = 0 THEN free'[d] = NULL ELSE Formed(d, base[d])' /\ FreeList(d, base[d])'
    <3>1. CASE base[d] = 0
      BY <1>0, <3>1 DEF FreeOK
    <3>2. CASE base[d] # 0
      <4>1. \A a \in SlotsOf(d, base[d]) : a \in Addrs /\ a # b
        BY <1>0, <3>2, ChunksApart
      <4>2. Formed(d, base[d]) /\ FreeList(d, base[d]) /\ free'[d] = free[d]
        BY <1>0, <3>2 DEF FreeOK
      <4>3. \A a \in SlotsOf(d, base[d]) : /\ hdr'[a].size = hdr[a].size /\ (a \in Live' <=> a \in Live)
                                           /\ a \notin Live => hdr'[a].next = hdr[a].next
        BY <1>1, <4>1
      <4>4. QED
        BY <3>2, <4>2, <4>3, SlotsIn, ChunkSame
    <3>3. QED
      BY <3>1, <3>2
  <2>2. QED
    BY <2>1 DEF FreeOK
<1>9. LiveOK(base, len2)'
  <2>1. ASSUME NEW a \in Live, a # b PROVE Small(base, a)' \/ Large(len2, a)'
    <3>1. a \in Addrs /\ PageOf(a) \in Pages
      BY AddrFacts DEF Live
    <3>2. PageOf(a) # q
      <4>1. CASE Large(len, a)
        BY <1>3, <2>1, <4>1 DEF Large
      <4>2. CASE ~Large(len, a)
        <5>1. PICK c \in Classes : \E k \in 0 .. Formatted(c) - 1 : base[c] # 0 /\ a = Slot(c, base[c], k)
          BY <4>2, LivePlace
        <5>2. PICK k \in 0 .. Formatted(c) - 1 : base[c] # 0 /\ a = Slot(c, base[c], k)
          BY <5>1
        <5>3. k \in 0 .. Formatted(c)
          BY ChunkNumbers
        <5>4. PageOf(a) \in Run(base[c], ChunkPages)
          BY <1>0, <5>2, <5>3, SlotPlace
        <5>5. QED
          BY <1>3, <5>2, <5>4
      <4>3. QED
        BY <4>1, <4>2
    <3>3. Untouched(base, len, base, len2, a)
      BY <1>1, <1>2, <1>4, <2>1, <3>1, <3>2 DEF Untouched
    <3>4. QED
      BY <1>0, <3>3, LiveStays
  <2>2. QED
    BY <1>1, <2>1 DEF LiveOK
<1>10. Kept(len2)'
  <2>1. ASSUME NEW r \in Pages, len2[r] # 0
        PROVE  r \in chunks' \/ (PageAddr(r) \in Live' /\ IsLarge(hdr'[PageAddr(r)].size))
    <3>1. r # q /\ len[r] # 0
      BY <1>4, <2>1
    <3>2. PageAddr(r) # b
      <4>1. r \in Nat
        BY HeapNumbers DEF Pages
      <4>2. QED
        BY <3>1, <4>1, PageOfAddr
    <3>3. PageAddr(r) \in Live => PageAddr(r) \in Live' /\ hdr'[PageAddr(r)].size = hdr[PageAddr(r)].size
      BY <1>1, <3>2 DEF Live
    <3>4. QED
      BY <1>0, <1>2, <3>1, <3>3, KeptStays
  <2>2. QED
    BY <2>1 DEF Kept, IsLarge
<1>11. QED
  BY <1>1, <1>5, <1>6, <1>7, <1>8, <1>9, <1>10 DEF HeapOK

\* free: whatever the bucket.
LEMMA FreeKeeps ==
    ASSUME NEW base, NEW len, HeapOK(base, len), NEW b \in Live, Free(b)
    PROVE  (\E len2 : HeapOK(base, len2)') /\ Live' = Live \ {b}
<1>1. hdr \in [Addrs -> HdrSet] /\ free \in [Classes -> Nat] /\ live \in [Addrs -> Nat] /\ b \in Addrs
  BY DEF HeapOK, Types, Live
<1>2. Live' = Live \ {b}
  BY <1>1, LiveLess DEF Free
<1>3. /\ used' = (IF b = used THEN hdr[b].next ELSE used) /\ live' = [live EXCEPT ![b] = 0]
      /\ chunks' = chunks
  BY DEF Free
<1>4. CASE Large(len, b)
  <2>1. IsLarge(hdr[b].size) /\ len[PageOf(b)] = PagesFor(hdr[b].size)
    BY <1>4 DEF Large
  <2>2. PICK q : q = PageOf(b)
    OBVIOUS
  <2>3. PICK len2 : len2 = [len EXCEPT ![q] = 0]
    OBVIOUS
  <2>4. hdr' = Unlink(b) /\ taken' = taken \ Run(q, len[q]) /\ free' = free
    BY <2>1, <2>2 DEF Free
  <2>5. CutStep(b, NULL)
    BY <1>1, <1>3, <2>4, UnlinkFacts DEF CutStep
  <2>6. HeapOK(base, len2)'
    BY <1>4, <2>2, <2>3, <2>4, <2>5, ReturnKeeps
  <2>7. QED
    BY <1>2, <2>6
<1>5. CASE ~Large(len, b)
  <2>1. PICK c \in Classes : \E k \in 0 .. Formatted(c) - 1 :
              /\ base[c] # 0 /\ b = Slot(c, base[c], k) /\ hdr[b].size = c /\ ~IsLarge(c)
    BY <1>5, LivePlace
  <2>2. PICK k \in 0 .. Formatted(c) - 1 :
              /\ base[c] # 0 /\ b = Slot(c, base[c], k) /\ hdr[b].size = c /\ ~IsLarge(c)
    BY <2>1
  <2>3. ClassOf(hdr[b].size) = c /\ ~IsLarge(hdr[b].size)
    BY <2>2, ClassFacts, HeapNumbers
  <2>4. hdr' = Push(Unlink(b), b, c) /\ free' = [free EXCEPT ![c] = b] /\ taken' = taken
    BY <2>3 DEF Free
  <2>5. CutStep(b, free[c])
    BY <1>1, <1>3, <2>4, PushFacts DEF CutStep
  <2>6. HeapOK(base, len)'
    BY <2>2, <2>4, <2>5, PushKeeps
  <2>7. QED
    BY <1>2, <2>6
<1>6. QED
  BY <1>4, <1>5

-----------------------------------------------------------------------------
(* The invariant holds in every reachable state.                            *)

\* In the initial state there are no chunks and no buckets.
LEMMA HeapInit ==
    ASSUME Init
    PROVE  HeapInv
<1> DEFINE base == [c \in Classes |-> 0]
           len == [p \in Pages |-> 0]
<1>1. 0 \in Pages /\ Pages \subseteq Nat /\ NULL = 0
  BY HeapNumbers DEF Pages, NULL
<1>2. Types
  <2>1. ZeroHdr \in HdrSet
    BY <1>1 DEF ZeroHdr, HdrSet
  <2>2. QED
    BY <1>1, <2>1 DEF Init, Types
<1>3. Live = {}
  BY DEF Live, Init
<1>4. Runs(len)
  <2>1. \A p \in Pages : Run(p, len[p]) = {}
    BY <1>1 DEF Run
  <2>2. len \in [Pages -> Nat]
    OBVIOUS
  <2> HIDE DEF len
  <2>3. QED
    BY <1>1, <2>1, <2>2 DEF Init, Runs
<1>5. Chunked(base, len)
  BY <1>1 DEF Init, Chunked
<1>6. FreeOK(base)
  BY DEF Init, FreeOK
<1>7. UsedOK
  <2> DEFINE u == [i \in 0 .. 0 |-> NULL]
  <2>1. Linked(hdr, used, Live, 0, u)
    BY <1>1, <1>3 DEF Init, Linked
  <2>2. Mirrored(hdr, 0, u)
    BY DEF Mirrored
  <2>3. QED
    BY <2>1, <2>2 DEF UsedOK, DoublyLinked
<1>8. LiveOK(base, len) /\ Kept(len)
  BY <1>3 DEF LiveOK, Kept
<1>9. Moves
  BY <1>1 DEF Moves, Init, Idle
<1> HIDE DEF base, len
<1>10. QED
  BY <1>2, <1>4, <1>5, <1>6, <1>7, <1>8, <1>9 DEF HeapInv, HeapOK

\* realloc of a bucket that is large enough.
LEMMA ResizeKeeps ==
    ASSUME NEW base, NEW len, HeapOK(base, len), NEW b \in Live, NEW size \in Nat \ {0},
           hdr[b].size >= size, live' = [live EXCEPT ![b] = size],
           UNCHANGED <<hdr, free, used, taken, chunks>>
    PROVE  HeapOK(base, len)' /\ Live' = Live
<1>0. Types /\ Runs(len) /\ Chunked(base, len) /\ FreeOK(base) /\ LiveOK(base, len) /\ Kept(len) /\ UsedOK
  BY DEF HeapOK
<1>1. live \in [Addrs -> Nat] /\ b \in Addrs
  BY <1>0 DEF Types, Live
<1>2. /\ live' \in [Addrs -> Nat] /\ Live' = Live /\ live'[b] = size
      /\ \A a \in Addrs : a # b => live'[a] = live[a]
  <2>1. /\ live' \in [Addrs -> Nat] /\ Live' = Live \cup {b} /\ live'[b] = size
        /\ \A a \in Addrs : a # b => live'[a] = live[a]
    BY <1>1, LiveMore
  <2>2. Live \cup {b} = Live
    OBVIOUS
  <2>3. QED
    BY <2>1, <2>2
<1>3. Types' /\ Runs(len)' /\ Chunked(base, len)' /\ Kept(len)'
  BY <1>0, <1>2 DEF Types, Runs, Chunked, Kept
<1>4. FreeOK(base)' /\ UsedOK'
  BY <1>0, <1>2 DEF FreeOK, Formed, FreeList, UsedOK
<1>5. ASSUME NEW a \in Live, a # b PROVE Small(base, a)' \/ Large(len, a)'
  <2>1. Untouched(base, len, base, len, a)
    BY <1>2, <1>5 DEF Untouched, Live
  <2>2. QED
    BY <1>0, <2>1, LiveStays
<1>6. Small(base, b)' \/ Large(len, b)'
  <2>1. CASE Large(len, b)
    <3>1. hdr[b].size \in Nat
      BY <1>0, <1>1 DEF Types, HdrSet
    <3>2. Large(len, b)'
      BY <1>2, <2>1, <3>1 DEF Large
    <3>3. QED
      BY <3>2
  <2>2. CASE ~Large(len, b)
    <3>1. PICK c \in Classes : \E k \in 0 .. Formatted(c) - 1 :
                base[c] # 0 /\ b = Slot(c, base[c], k) /\ hdr[b].size = c
      BY <2>2, LivePlace
    <3>2. c \in Nat
      BY HeapNumbers
    <3>3. Small(base, b)'
      BY <1>2, <3>1, <3>2 DEF Small
    <3>4. QED
      BY <3>3
  <2>3. QED
    BY <2>1, <2>2
<1>7. LiveOK(base, len)'
  BY <1>2, <1>5, <1>6 DEF LiveOK
<1>8. QED
  BY <1>2, <1>3, <1>4, <1>7 DEF HeapOK

\* A step that leaves the heap alone.
LEMMA SameKeeps ==
    ASSUME HeapInv, UNCHANGED <<hdr, free, used, taken, live, moving, chunks>>
    PROVE  HeapInv'
<1>1. PICK base, len : HeapOK(base, len)
  BY DEF HeapInv
<1>2. Live' = Live
  BY DEF Live
<1>3. HeapOK(base, len)'
  BY <1>1, <1>2 DEF HeapOK, Types, Runs, Chunked, FreeOK, Formed, FreeList, UsedOK, LiveOK, Small,
                    Large, Kept
<1>4. Moves'
  BY <1>2 DEF HeapInv, Moves
<1>5. QED
  BY <1>3, <1>4 DEF HeapInv

\* Callers pass buckets that are in use and that no realloc is about to free.
LEMMA OwnedFacts ==
    ASSUME NEW b \in Owned
    PROVE  b \in Live /\ b \in Addrs /\ \A h \in Harts : b # moving[h].old
  BY DEF Owned, Live

\* Every step keeps the invariant.
LEMMA HeapNext ==
    ASSUME Roomy, HeapInv, [Next]_vars
    PROVE  HeapInv'
<1>1. PICK base, len : HeapOK(base, len)
  BY DEF HeapInv
<1>2. Moves
  BY DEF HeapInv
<1>3. CASE UNCHANGED vars
  BY <1>3, SameKeeps DEF vars
<1>4. ASSUME NEW size \in Sizes, malloc(size) PROVE HeapInv'
  <2>1. size \in Nat \ {0}
    BY HeapNumbers
  <2>2. CASE AllocFails(size)
    BY <2>2, SameKeeps DEF AllocFails
  <2>3. ASSUME NEW b \in Addrs, free_buckets_alloc(size, b), live' = [live EXCEPT ![b] = size],
               moving' = moving
        PROVE  HeapInv'
    <3>1. (\E base2, len2 : HeapOK(base2, len2)') /\ Live' = Live \cup {b}
      BY <1>1, <2>1, <2>3, AllocKeeps
    <3>2. Moves'
      BY <1>2, <2>3, <3>1 DEF Moves
    <3>3. QED
      BY <3>1, <3>2 DEF HeapInv
  <2>4. QED
    BY <1>4, <2>2, <2>3 DEF malloc
<1>5. ASSUME NEW b \in Addrs, FreeCall(b) PROVE HeapInv'
  <2>1. b \in Owned /\ Free(b) /\ moving' = moving
    BY <1>5 DEF FreeCall
  <2>2. b \in Live /\ \A h \in Harts : b # moving[h].old
    BY <2>1, OwnedFacts
  <2>3. (\E len2 : HeapOK(base, len2)') /\ Live' = Live \ {b}
    BY <1>1, <2>1, <2>2, FreeKeeps
  <2>4. Moves'
    BY <1>2, <2>1, <2>2, <2>3 DEF Moves
  <2>5. QED
    BY <2>3, <2>4 DEF HeapInv
<1>6. ASSUME NEW h \in Harts, NEW b \in Addrs, NEW size \in Sizes, realloc(h, b, size)
      PROVE  HeapInv'
  <2>1. size \in Nat \ {0}
    BY HeapNumbers
  <2>2. b \in Owned
    BY <1>6 DEF realloc
  <2>3. b \in Live /\ b \in Addrs /\ \A g \in Harts : b # moving[g].old
    BY <2>2, OwnedFacts
  <2>4. CASE AllocFails(size)
    BY <2>4, SameKeeps DEF AllocFails
  <2>5. ASSUME hdr[b].size >= size, live' = [live EXCEPT ![b] = size],
               UNCHANGED <<hdr, free, used, taken, moving, chunks, faulted>>
        PROVE  HeapInv'
    <3>1. HeapOK(base, len)' /\ Live' = Live
      BY <1>1, <2>1, <2>3, <2>5, ResizeKeeps
    <3>2. Moves'
      BY <1>2, <2>5, <3>1 DEF Moves
    <3>3. QED
      BY <3>1, <3>2 DEF HeapInv
  <2>6. ASSUME NEW new \in Addrs, free_buckets_alloc(size, new), live' = [live EXCEPT ![new] = size],
               moving' = [moving EXCEPT ![h] = [old |-> b, new |-> new]]
        PROVE  HeapInv'
    <3>1. (\E base2, len2 : HeapOK(base2, len2)') /\ Live' = Live \cup {new}
      BY <1>1, <2>1, <2>6, AllocKeeps
    <3>2. b \in Nat /\ new \in Nat
      BY <2>3, AddrFacts
    <3>3. PICK r : r = [old |-> b, new |-> new]
      OBVIOUS
    <3>4. r \in [old : Nat, new : Nat] /\ r.old = b
      BY <3>2, <3>3
    <3>5. moving' \in [Harts -> [old : Nat, new : Nat]] /\ moving'[h] = r
          /\ \A g \in Harts : g # h => moving'[g] = moving[g]
      BY <1>2, <2>6, <3>3, <3>4 DEF Moves
    <3>6. Moves'
      BY <1>2, <2>3, <3>1, <3>4, <3>5 DEF Moves
    <3>7. QED
      BY <3>1, <3>6 DEF HeapInv
  <2>7. QED
    BY <1>6, <2>4, <2>5, <2>6 DEF realloc
<1>7. ASSUME NEW h \in Harts, ReallocFree(h) PROVE HeapInv'
  <2>1. PICK b : b = moving[h].old
    OBVIOUS
  <2>2. moving[h] # Idle /\ Free(b) /\ moving' = [moving EXCEPT ![h] = Idle]
    BY <1>7, <2>1 DEF ReallocFree
  <2>3. b \in Live /\ \A g \in Harts : g # h /\ moving[g] # Idle => moving[g].old # b
    BY <1>2, <2>1, <2>2 DEF Moves
  <2>4. (\E len2 : HeapOK(base, len2)') /\ Live' = Live \ {b}
    BY <1>1, <2>2, <2>3, FreeKeeps
  <2>5. Idle \in [old : Nat, new : Nat]
    BY AddrFacts DEF Idle
  <2>6. moving' \in [Harts -> [old : Nat, new : Nat]] /\ moving'[h] = Idle
        /\ \A g \in Harts : g # h => moving'[g] = moving[g]
    BY <1>2, <2>2, <2>5 DEF Moves
  <2>7. Moves'
    BY <1>2, <2>3, <2>4, <2>6 DEF Moves
  <2>8. QED
    BY <2>4, <2>7 DEF HeapInv
<1>8. QED
  BY <1>3, <1>4, <1>5, <1>6, <1>7 DEF Next

\* The invariant of the heap.
THEOREM HeapStaysSound == Roomy => (Spec => []HeapInv)
<1> SUFFICES ASSUME Roomy PROVE Spec => []HeapInv
  OBVIOUS
<1>1. Init => HeapInv
  BY HeapInit
<1>2. HeapInv /\ [Next]_vars => HeapInv'
  BY HeapNext
<1>3. QED
  BY <1>1, <1>2, PTL DEF Spec

-----------------------------------------------------------------------------
(* What the invariant means for the callers.                                *)

\* The list of buckets in use.
LEMMA UsedListFollows ==
    ASSUME HeapInv
    PROVE  UsedListExact
<1>1. PICK base, len : HeapOK(base, len)
  BY DEF HeapInv
<1>2. PICK m, u : Linked(hdr, used, Live, m, u) /\ Mirrored(hdr, m, u)
  BY <1>1 DEF HeapOK, UsedOK, DoublyLinked
<1>3. Live \in SUBSET Addrs /\ NULL \notin Live
  BY AddrFacts DEF Live
<1>4. NULL \in Chain(used) /\ Members(used) = Live
  BY <1>2, <1>3, ListChain
<1>5. m \in Nat /\ u[0] = NULL /\ u[m] = used
  BY <1>2 DEF Linked
<1>6. ASSUME used # NULL PROVE hdr[used].prev = NULL
  <2>1. m \in 1 .. m
    BY <1>5, <1>6
  <2>2. QED
    BY <1>2, <1>5, <2>1 DEF Mirrored
<1>7. ASSUME NEW a \in Live, hdr[a].next # NULL PROVE hdr[hdr[a].next].prev = a
  <2>1. PICK i \in 1 .. m : u[i] = a
    BY <1>2 DEF Linked
  <2>2. hdr[a].next = u[i - 1]
    BY <1>2, <2>1 DEF Linked
  <2>3. i - 1 \in 1 .. m /\ i - 1 # m /\ i - 1 + 1 = i
    BY <1>5, <1>7, <2>2
  <2>4. hdr[u[i - 1]].prev = u[i - 1 + 1]
    BY <1>2, <2>3 DEF Mirrored
  <2>5. QED
    BY <2>1, <2>2, <2>3, <2>4
<1>8. QED
  BY <1>4, <1>6, <1>7 DEF UsedListExact

\* The members of a free list are the buckets of the chunk that are not in use.
LEMMA FreeMembers ==
    ASSUME NEW base, NEW len, HeapOK(base, len), NEW c \in Classes
    PROVE  /\ NULL \in Chain(free[c])
           /\ Members(free[c]) = IF base[c] = 0 THEN {} ELSE SlotsOf(c, base[c]) \ Live
<1>0. Types /\ Runs(len) /\ Chunked(base, len) /\ FreeOK(base)
  BY DEF HeapOK
<1>1. CASE base[c] = 0
  <2> DEFINE u == [i \in 0 .. 0 |-> NULL]
  <2>1. free[c] = NULL /\ NULL \in Nat
    BY <1>0, <1>1, AddrFacts DEF FreeOK
  <2>2. u \in [0 .. 0 -> Nat] /\ u[0] = NULL
    BY <2>1
  <2> HIDE DEF u
  <2>3. Linked(hdr, free[c], {}, 0, u)
    BY <2>1, <2>2 DEF Linked
  <2>4. {} \in SUBSET Addrs
    OBVIOUS
  <2>5. NULL \in Chain(free[c]) /\ Members(free[c]) = {}
    BY <2>3, <2>4, ListChain
  <2>6. QED
    BY <1>1, <2>5
<1>2. CASE base[c] # 0
  <2> DEFINE S == SlotsOf(c, base[c]) \ Live
  <2>1. PICK n, s : Linked(hdr, free[c], S, n, s)
    BY <1>0, <1>2 DEF FreeOK, FreeList
  <2>2. S \in SUBSET Addrs
    BY <1>0, <1>2, ChunksApart
  <2> HIDE DEF S
  <2>3. NULL \in Chain(free[c]) /\ Members(free[c]) = S
    BY <2>1, <2>2, ListChain
  <2>4. QED
    BY <1>2, <2>3 DEF S
<1>3. QED
  BY <1>1, <1>2

\* The free lists.
LEMMA FreeListsFollow ==
    ASSUME HeapInv
    PROVE  FreeListsSound
<1>1. PICK base, len : HeapOK(base, len)
  BY DEF HeapInv
<1>0. Types /\ Runs(len) /\ Chunked(base, len) /\ FreeOK(base)
  BY <1>1 DEF HeapOK
<1>2. \A c \in Classes : /\ NULL \in Chain(free[c])
                         /\ Members(free[c]) = IF base[c] = 0 THEN {} ELSE SlotsOf(c, base[c]) \ Live
  BY <1>1, FreeMembers
<1>3. ASSUME NEW c \in Classes PROVE Members(free[c]) \cap Live = {}
  BY <1>2
<1>4. ASSUME NEW c \in Classes, NEW d \in Classes \ {c}
      PROVE  Members(free[c]) \cap Members(free[d]) = {}
  <2>1. ASSUME NEW a \in Members(free[c]), a \in Members(free[d]) PROVE FALSE
    <3>1. base[c] # 0 /\ base[d] # 0 /\ a \in SlotsOf(c, base[c]) /\ a \in SlotsOf(d, base[d])
      BY <1>2, <2>1
    <3>2. QED
      BY <1>0, <3>1, ChunksApart
  <2>2. QED
    BY <2>1
<1>5. ASSUME NEW c \in Classes, NEW a \in Members(free[c]), hdr[a].next # NULL
      PROVE  hdr[a].size = c /\ \E p \in chunks : a .. a + Hdr + c - 1 \subseteq ChunkWords(p)
  <2> DEFINE q == base[c]
  <2>1. q # 0 /\ a \in SlotsOf(c, q)
    BY <1>2
  <2>2. Formed(c, q) /\ FreeList(c, q)
    BY <1>0, <2>1 DEF FreeOK
  <2>3. PICK k \in 0 .. Formatted(c) : a = Slot(c, q, k)
    BY <2>1 DEF SlotsOf
  <2>4. a # Phantom(c, q)
    <3>1. PICK n, s : Linked(hdr, free[c], SlotsOf(c, q) \ Live, n, s) /\ s[1] = Phantom(c, q)
      BY <2>2 DEF FreeList
    <3>2. a \in SlotsOf(c, q) \ Live
      BY <1>2, <2>1
    <3>3. hdr[s[1]].next = NULL
      <4>1. n \in Nat /\ s[0] = NULL /\ \A i \in 1 .. n : hdr[s[i]].next = s[i - 1]
        BY <3>1 DEF Linked
      <4>2. PICK i \in 1 .. n : s[i] = a
        BY <3>1, <3>2 DEF Linked
      <4>3. 1 \in 1 .. n
        BY <4>1, <4>2
      <4>4. QED
        BY <4>1, <4>3
    <3>4. QED
      BY <1>5, <3>1, <3>3
  <2>5. k \in 0 .. Formatted(c) - 1 /\ k < Formatted(c)
    BY <2>3, <2>4, ChunkNumbers DEF Phantom
  <2>6. hdr[a].size = c
    BY <2>2, <2>3, <2>5 DEF Formed
  <2>7. q \in Nat /\ q \in chunks /\ a \in Nat /\ a \in Words(q, ChunkPages)
    BY <1>0, <2>1, <2>3, SlotPlace
  <2>8. a + Room(c) < PageAddr(q + ChunkPages) /\ PageAddr(q) =< a
    BY <2>3, <2>5, <2>7, SlotFacts DEF Words
  <2>9. PageAddr(q) \in Nat /\ PageAddr(q + ChunkPages) \in Nat /\ c \in Nat /\ Hdr \in Nat
    <3>1. PageAddr(q + ChunkPages) = PageAddr(q) + Total /\ PageAddr(q) \in Nat /\ Total \in Nat
      BY <2>7, ChunkNumbers
    <3>2. QED
      BY <3>1, HeapNumbers
  <2> HIDE DEF q
  <2>10. a .. a + Hdr + c - 1 \subseteq ChunkWords(q)
    BY <2>7, <2>8, <2>9 DEF ChunkWords, Room
  <2>11. QED
    BY <2>6, <2>7, <2>10
<1>6. QED
  BY <1>2, <1>3, <1>4, <1>5 DEF FreeListsSound

\* The run of pages that bucket a belongs to: its own, or a chunk.
Home(base, len, a, q) ==
    /\ len[q] # 0 /\ Extent(a) \subseteq Words(q, len[q])
    /\ \/ Large(len, a) /\ q = PageOf(a)
       \/ \E c \in Classes : \E k \in 0 .. Formatted(c) - 1 :
             /\ q = base[c] /\ q # 0 /\ a = Slot(c, q, k) /\ live[a] =< c
             /\ ~Large(len, a)

\* A bucket in use with its header lies in one run of pages.
LEMMA Homes ==
    ASSUME NEW base, NEW len, HeapOK(base, len), NEW a \in Live
    PROVE  \E q \in Pages : Home(base, len, a, q)
<1>0. Types /\ Runs(len) /\ Chunked(base, len)
  BY DEF HeapOK
<1>1. a \in Addrs /\ a \in Nat /\ live[a] \in Nat /\ Hdr \in Nat \ {0} /\ PageLen \in Nat \ {0}
  BY <1>0, LivePlace, HeapNumbers DEF Types
<1>2. CASE Large(len, a)
  <2> DEFINE q == PageOf(a)
             n == len[q]
  <2>1. q \in Pages /\ hdr[a].size \in Nat /\ q \in Run(q, n)
    BY <1>0, <1>1, <1>2, LargePlace
  <2>2. a = PageAddr(q) /\ n = PagesFor(hdr[a].size) /\ live[a] =< hdr[a].size
    BY <1>2 DEF Large
  <2>3. n \in Nat \ {0} /\ hdr[a].size + Hdr =< n * PageLen
    BY <2>1, <2>2, PagesForFacts
  <2>4. q \in Nat
    BY <2>1, HeapNumbers DEF Pages
  <2> HIDE DEF q, n
  <2>5. PageAddr(q + n) = PageAddr(q) + n * PageLen /\ n * PageLen \in Nat
    BY <1>1, <2>3, <2>4 DEF PageAddr
  <2>6. Extent(a) \subseteq Words(q, n)
    BY <1>1, <2>1, <2>2, <2>3, <2>5 DEF Extent, Words
  <2>7. QED
    BY <1>2, <2>1, <2>3, <2>6 DEF q, n, Home
<1>3. CASE ~Large(len, a)
  <2>1. PICK c \in Classes : \E k \in 0 .. Formatted(c) - 1 :
              base[c] # 0 /\ a = Slot(c, base[c], k) /\ live[a] =< c
    BY <1>3, LivePlace
  <2>2. PICK k \in 0 .. Formatted(c) - 1 : base[c] # 0 /\ a = Slot(c, base[c], k) /\ live[a] =< c
    BY <2>1
  <2> DEFINE q == base[c]
  <2>3. Formatted(c) \in Nat /\ Room(c) \in Nat /\ k \in 0 .. Formatted(c) /\ k < Formatted(c) /\ c \in Nat
    BY ChunkNumbers, HeapNumbers
  <2>4. q \in Pages /\ q \in Nat /\ q \in chunks /\ a \in Words(q, ChunkPages)
    BY <1>0, <2>2, <2>3, SlotPlace
  <2>5. len[q] = ChunkPages /\ ChunkPages # 0 /\ PageAddr(q + ChunkPages) \in Nat
    <3>1. PageAddr(q + ChunkPages) = PageAddr(q) + Total /\ PageAddr(q) \in Nat /\ Total \in Nat
      BY <2>4, ChunkNumbers
    <3>2. QED
      BY <1>0, <2>2, <3>1, HeapNumbers DEF Chunked
  <2>6. a + Room(c) < PageAddr(q + ChunkPages) /\ PageAddr(q) =< a
    BY <2>2, <2>3, <2>4, SlotFacts DEF Words
  <2> HIDE DEF q
  <2>7. Extent(a) \subseteq Words(q, ChunkPages)
    <3>1. PageAddr(q) \in Nat
      BY <2>4, PageOfAddr
    <3>2. Room(c) = Hdr + c
      BY DEF Room
    <3>3. QED
      BY <1>1, <2>2, <2>3, <2>5, <2>6, <3>1, <3>2 DEF Extent, Words
  <2>8. Home(base, len, a, q)
    BY <1>3, <2>2, <2>5, <2>7 DEF Home, q
  <2>9. QED
    BY <2>4, <2>8
<1>4. QED
  BY <1>2, <1>3

\* Buckets in use do not overlap.
LEMMA LiveDisjointFollows ==
    ASSUME HeapInv
    PROVE  LiveDisjoint
<1>1. PICK base, len : HeapOK(base, len)
  BY DEF HeapInv
<1>0. Types /\ Runs(len) /\ Chunked(base, len)
  BY <1>1 DEF HeapOK
<1>2. \A a \in Live : \E q \in Pages : Home(base, len, a, q)
  BY <1>1, Homes
<1>3. ASSUME NEW q \in Pages, NEW x \in Words(q, len[q])
      PROVE  x \in Addrs /\ PageOf(x) \in Run(q, len[q]) /\ PageOf(x) \in taken
  <2>1. q \in Nat /\ len[q] \in Nat
    BY <1>0, RunsFacts, HeapNumbers DEF Pages
  <2>2. Run(q, len[q]) \subseteq Pages /\ Run(q, len[q]) \subseteq taken
    BY <1>0, RunsFacts
  <2>3. QED
    BY <2>1, <2>2, WordsInHeap
<1>4. ASSUME NEW a \in Live
      PROVE  Extent(a) \subseteq Addrs /\ \A x \in Extent(a) : PageOf(x) \in taken
  BY <1>2, <1>3 DEF Home
<1>5. ASSUME NEW a \in Live, NEW b \in Live, a # b, NEW x \in Extent(a), x \in Extent(b) PROVE FALSE
  <2>1. PICK q \in Pages : Home(base, len, a, q)
    BY <1>2
  <2>2. PICK r \in Pages : Home(base, len, b, r)
    BY <1>2
  <2>3. PageOf(x) \in Run(q, len[q]) /\ PageOf(x) \in Run(r, len[r])
    BY <1>3, <1>5, <2>1, <2>2 DEF Home
  <2>4. q = r
    BY <1>0, <2>3 DEF Runs
  <2>5. ~Large(len, a) /\ ~Large(len, b)
    <3>1. \A c \in Classes : base[c] # 0 => base[c] \in chunks
      BY <1>0 DEF Chunked
    <3>2. QED
      BY <1>5, <2>1, <2>2, <2>4, <3>1 DEF Home, Large
  <2>6. PICK c \in Classes : \E k \in 0 .. Formatted(c) - 1 :
              q = base[c] /\ q # 0 /\ a = Slot(c, q, k) /\ live[a] =< c
    BY <2>1, <2>5 DEF Home
  <2>7. PICK k \in 0 .. Formatted(c) - 1 : q = base[c] /\ q # 0 /\ a = Slot(c, q, k) /\ live[a] =< c
    BY <2>6
  <2>8. PICK d \in Classes : \E i \in 0 .. Formatted(d) - 1 :
              q = base[d] /\ q # 0 /\ b = Slot(d, q, i) /\ live[b] =< d
    BY <2>2, <2>4, <2>5 DEF Home
  <2>9. c = d
    BY <1>0, <2>7, <2>8 DEF Chunked
  <2>10. PICK i \in 0 .. Formatted(c) - 1 : b = Slot(c, q, i) /\ live[b] =< c
    BY <2>8, <2>9
  <2>11. /\ Formatted(c) \in Nat /\ k \in 0 .. Formatted(c) /\ i \in 0 .. Formatted(c) /\ c \in Nat
         /\ Room(c) = Hdr + c /\ Hdr \in Nat /\ q \in Nat
    BY ChunkNumbers, HeapNumbers DEF Room, Pages
  <2>12. a \in Nat /\ b \in Nat /\ live[a] \in Nat /\ live[b] \in Nat
    BY <1>0, AddrFacts DEF Live, Types
  <2>13. x \in Int /\ a =< x /\ x < a + Room(c) /\ b =< x /\ x < b + Room(c)
    BY <1>5, <2>7, <2>10, <2>11, <2>12 DEF Extent
  <2>14. CASE k < i
    <3>1. a + Room(c) =< b
      BY <2>7, <2>10, <2>11, <2>14, SlotFacts
    <3>2. QED
      BY <2>11, <2>12, <2>13, <3>1
  <2>15. CASE i < k
    <3>1. b + Room(c) =< a
      BY <2>7, <2>10, <2>11, <2>15, SlotFacts
    <3>2. QED
      BY <2>11, <2>12, <2>13, <3>1
  <2>16. QED
    BY <1>5, <2>7, <2>10, <2>14, <2>15
<1>6. QED
  BY <1>4, <1>5 DEF LiveDisjoint

\* Every page taken has an owner.
LEMMA PagesBalancedFollows ==
    ASSUME HeapInv
    PROVE  PagesBalanced
<1>1. PICK base, len : HeapOK(base, len)
  BY DEF HeapInv
<1>0. Types /\ Runs(len) /\ Chunked(base, len) /\ LiveOK(base, len) /\ Kept(len)
  BY <1>1 DEF HeapOK
<1> DEFINE B == {b \in Live : IsLarge(hdr[b].size)}
           C == UNION {Run(p, ChunkPages) : p \in chunks}
           L == UNION {Run(PageOf(a), PagesFor(hdr[a].size)) : a \in B}
<1>2. PagesBalanced <=> (taken = {0} \cup C \cup L)
  BY DEF PagesBalanced
<1>3. \A p \in chunks : p \in Pages /\ len[p] = ChunkPages
  BY <1>0 DEF Chunked
<1>4. ASSUME NEW a \in B
      PROVE  PageOf(a) \in Pages /\ len[PageOf(a)] = PagesFor(hdr[a].size)
  <2>1. a \in Live /\ IsLarge(hdr[a].size)
    OBVIOUS
  <2>2. Large(len, a)
    <3>1. \A c \in Classes : hdr[a].size = c => ~IsLarge(c)
      BY <2>1, HeapNumbers DEF IsLarge
    <3>2. QED
      BY <1>1, <2>1, <3>1, LivePlace
  <2>3. QED
    BY <2>1, <2>2, AddrFacts DEF Large, Live
<1>5. ASSUME NEW x \in taken PROVE x \in {0} \cup C \cup L
  <2>1. CASE x = 0
    BY <2>1
  <2>2. CASE x # 0
    <3>1. PICK p \in Pages : x \in Run(p, len[p])
      BY <1>0, <2>2 DEF Runs
    <3>2. len[p] # 0
      <4>1. p \in Nat
        BY HeapNumbers DEF Pages
      <4>2. QED
        BY <3>1, <4>1 DEF Run
    <3>3. CASE p \in chunks
      <4>1. x \in Run(p, ChunkPages)
        BY <1>3, <3>1, <3>3
      <4>2. QED
        BY <3>3, <4>1
    <3>4. CASE p \notin chunks
      <4> DEFINE a == PageAddr(p)
      <4>1. a \in B
        BY <1>0, <3>2, <3>4 DEF Kept
      <4>2. PageOf(a) = p
        BY HeapNumbers, PageOfAddr DEF Pages
      <4>3. x \in Run(PageOf(a), PagesFor(hdr[a].size))
        BY <1>4, <3>1, <4>1, <4>2
      <4> HIDE DEF a, B
      <4>4. QED
        BY <4>1, <4>3
    <3>5. QED
      BY <3>3, <3>4
  <2>3. QED
    BY <2>1, <2>2
<1>6. ASSUME NEW x \in {0} \cup C \cup L PROVE x \in taken
  <2>1. CASE x = 0
    BY <1>0, <2>1, RunsFacts
  <2>2. CASE x \in C
    <3>1. PICK p \in chunks : x \in Run(p, ChunkPages)
      BY <2>2
    <3>2. p \in Pages /\ x \in Run(p, len[p])
      BY <1>3, <3>1
    <3>3. QED
      BY <1>0, <3>2, RunsFacts
  <2>3. CASE x \in L
    <3> HIDE DEF B
    <3>1. PICK a \in B : x \in Run(PageOf(a), PagesFor(hdr[a].size))
      BY <2>3
    <3>2. PageOf(a) \in Pages /\ x \in Run(PageOf(a), len[PageOf(a)])
      BY <1>4, <3>1
    <3>3. QED
      BY <1>0, <3>2, RunsFacts
  <2>4. QED
    BY <2>1, <2>2, <2>3
<1> HIDE DEF B, C, L
<1>7. taken = {0} \cup C \cup L
  BY <1>5, <1>6
<1>8. QED
  BY <1>2, <1>7

\* No caller is given a bucket that reaches out of its chunk: the defect that the
\* missing end of a fresh chunk's list causes needs more buckets in use.
LEMMA InsideChunkFollows ==
    ASSUME HeapInv
    PROVE  InsideChunk
<1>1. PICK base, len : HeapOK(base, len)
  BY DEF HeapInv
<1>0. Types /\ Chunked(base, len)
  BY <1>1 DEF HeapOK
<1>2. ASSUME NEW a \in Live, ~IsLarge(hdr[a].size)
      PROVE  \E p \in chunks : Extent(a) \subseteq ChunkWords(p)
  <2>1. PICK q \in Pages : Home(base, len, a, q)
    BY <1>1, Homes
  <2>2. q \in chunks /\ len[q] = ChunkPages
    BY <1>0, <1>2, <2>1 DEF Home, Large, Chunked
  <2>3. ChunkWords(q) = Words(q, len[q])
    BY <2>2 DEF ChunkWords, Words
  <2>4. QED
    BY <2>1, <2>2, <2>3 DEF Home
<1>3. QED
  BY <1>2 DEF InsideChunk

\* The list of buckets in use holds exactly the buckets in use, and free can unlink
\* any of them, whatever the order of malloc, free and realloc on all harts.
THEOREM UsedListStaysExact == Roomy => (Spec => []UsedListExact)
  BY HeapStaysSound, UsedListFollows, PTL

\* The free lists end, and share no bucket with each other or with the callers.
THEOREM FreeListsStaySound == Roomy => (Spec => []FreeListsSound)
  BY HeapStaysSound, FreeListsFollow, PTL

\* Buckets in use lie in pages of the heap and do not overlap, headers included.
THEOREM LiveStayDisjoint == Roomy => (Spec => []LiveDisjoint)
  BY HeapStaysSound, LiveDisjointFollows, PTL

\* No page is lost or given back twice.
THEOREM PagesStayBalanced == Roomy => (Spec => []PagesBalanced)
  BY HeapStaysSound, PagesBalancedFollows, PTL

\* While Roomy holds, the phantom is not handed out, so that a bucket never reaches
\* out of its chunk.
THEOREM BucketsStayInside == Roomy => (Spec => []InsideChunk)
  BY HeapStaysSound, InsideChunkFollows, PTL
=============================================================================
