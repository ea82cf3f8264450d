---------------------------- MODULE LoaderProofs ----------------------------
(***************************************************************************)
(* Theorems about spawn_task_from_elf, for every file, list of arguments,  *)
(* number of tasks and amount of memory: tasks share no page, the kernel   *)
(* is neither overwritten nor handed out, the scheduler counts exactly the *)
(* tasks there are, stacks lie apart from the programs, and every task     *)
(* finds its arguments.  The argument follows the work record m through    *)
(* every loop: Works(lo, base) is what each round of each of them keeps.   *)
(***************************************************************************)
EXTENDS Loader, Loops

Flags == SUBSET {"R", "W", "X", "U"}
Maps == [Virt -> [page : Nat, flags : Flags]]
Value == {"zero", "file", "char", "ptr"} \X Int \X Int
Mems == [Frames -> [Words -> Value]]
Zeros == [w \in Words |-> Zero]

\* The work on an address space whose own pages were taken from lo on: the kernel
\* is where it was, and so is what was mapped before, in base; pages others have hold
\* what they held, and a fault is not undone.
Works(lo, base) ==
    {m \in [map : Maps, mem : Mems, fresh : 1 .. NPages + 1, max : Int, fault : BOOLEAN] :
       /\ lo =< m.fresh
       /\ \A v \in KernelPages : m.map[v] = Blank[v] /\ m.mem[KernelFrame(v)] = Zeros
       /\ \A v \in Virt \ KernelPages :
             m.map[v].page = NULL \/ m.map[v].page \in lo .. m.fresh - 1
       /\ \A v \in Virt : base.map[v] # Unmapped => m.map[v] = base.map[v]
       /\ \A f \in 1 .. lo - 1 : m.mem[f] = base.mem[f]
       /\ base.fault => m.fault}

\* A page of this work, or none.
Own(lo) == {NULL} \cup lo .. NPages

\* The same while the arguments are written.
Fillings(lo, base) ==
    [m : Works(lo, base), page : Own(lo), virt : Int, offset : Int, last : Int,
     strings : Seq(Int)]

SegmentSet == [load : BOOLEAN, va : Nat, fs : Nat, ms : Nat, flags : SUBSET {"R", "W", "X"}]

-----------------------------------------------------------------------------
(* The operations on the work.                                              *)

\* The kernel's pages are mapped, not for the user, and to no page of the allocator.
LEMMA KernelEntries ==
    \A v \in KernelPages : /\ v \in Virt /\ Blank[v] # Unmapped
                           /\ "U" \notin Blank[v].flags
                           /\ KernelFrame(v) \in Frames /\ KernelFrame(v) \notin 0 .. NPages
                           /\ Blank[v].page = KernelFrame(v)
<1>1. \A v \in KernelPages : v \in Virt /\ v \in Nat
  BY LoaderAssumption DEF Virt
<1>2. \A v \in KernelPages : Blank[v] = [page |-> KernelFrame(v), flags |-> {"R", "W", "X"}]
  BY <1>1 DEF Blank
<1>3. \A v \in KernelPages : KernelFrame(v) \in Frames
  BY DEF Frames
<1>4. \A v \in KernelPages : KernelFrame(v) \notin 0 .. NPages
  BY <1>1, LoaderAssumption DEF KernelFrame
<1>5. \A v \in KernelPages : Blank[v].flags = {"R", "W", "X"} /\ Blank[v].page = KernelFrame(v)
  <2>1. \A b, p, f : b = [page |-> p, flags |-> f] => b.flags = f /\ b.page = p
    OBVIOUS
  <2>2. QED
    BY <1>2, <2>1
<1>6. Unmapped.flags = {} /\ "R" \in {"R", "W", "X"} /\ "U" \notin {"R", "W", "X"}
  BY DEF Unmapped
<1>7. QED
  BY <1>1, <1>3, <1>4, <1>5, <1>6

\* mmu_alloc hands out a page that nothing of the work uses, or none.
LEMMA AllocKeeps ==
    ASSUME NEW lo \in Nat \ {0}, NEW base, NEW m \in Works(lo, base), NEW v, NEW flags \in Flags
    PROVE  /\ MmuAlloc(m, v, flags).m \in Works(lo, base)
           /\ MmuAlloc(m, v, flags).page \in Own(lo)
<1> DEFINE page == IF m.fresh =< NPages THEN m.fresh ELSE NULL
           n == [m EXCEPT !.map[v] = [page |-> page, flags |-> flags],
                          !.fresh = IF page = NULL THEN @ ELSE @ + 1]
<1>0. /\ m \in [map : Maps, mem : Mems, fresh : 1 .. NPages + 1, max : Int, fault : BOOLEAN]
      /\ lo =< m.fresh /\ NPages \in Nat
      /\ \A u \in KernelPages : m.map[u] = Blank[u] /\ m.mem[KernelFrame(u)] = Zeros
      /\ \A u \in Virt \ KernelPages : m.map[u].page = NULL \/ m.map[u].page \in lo .. m.fresh - 1
      /\ \A u \in Virt : base.map[u] # Unmapped => m.map[u] = base.map[u]
      /\ \A f \in 1 .. lo - 1 : m.mem[f] = base.mem[f]
      /\ base.fault => m.fault
  BY LoaderAssumption DEF Works
<1>1. CASE m.map[v] # Unmapped
  BY <1>1, LoaderAssumption DEF MmuAlloc, NULL, Own
<1>2. CASE m.map[v] = Unmapped
  <2>1. MmuAlloc(m, v, flags) = [m |-> n, page |-> page]
    BY <1>2 DEF MmuAlloc
  <2>2. page \in Own(lo) /\ page \in Nat /\ (page # NULL => page = m.fresh)
    BY <1>0 DEF NULL, Own
  <2>3. /\ n.map = [m.map EXCEPT ![v] = [page |-> page, flags |-> flags]]
        /\ n.mem = m.mem /\ n.max = m.max /\ n.fault = m.fault
        /\ n.fresh = IF page = NULL THEN m.fresh ELSE m.fresh + 1
    BY <1>0
  <2>4. n.fresh \in 1 .. NPages + 1 /\ lo =< n.fresh /\ m.fresh =< n.fresh
        /\ (page # NULL => page \in lo .. n.fresh - 1)
    BY <1>0, <2>2, <2>3 DEF NULL
  <2>5. n.map \in Maps
    BY <1>0, <2>2, <2>3 DEF Maps
  <2>10. n \in [map : Maps, mem : Mems, fresh : 1 .. NPages + 1, max : Int, fault : BOOLEAN]
    BY <1>0, <2>3, <2>4, <2>5
  <2> HIDE DEF n, page
  <2>6. \A u \in KernelPages : n.map[u] = Blank[u]
    BY <1>0, <1>2, <2>3, KernelEntries DEF Maps
  <2>7. ASSUME NEW u \in Virt \ KernelPages
        PROVE  n.map[u].page = NULL \/ n.map[u].page \in lo .. n.fresh - 1
    <3>1. CASE u = v
      BY <1>0, <2>3, <2>4, <3>1 DEF Maps
    <3>2. CASE u # v
      BY <1>0, <2>3, <2>4, <3>2 DEF Maps
    <3>3. QED
      BY <3>1, <3>2
  <2>11. \A u \in Virt : base.map[u] # Unmapped => n.map[u] = base.map[u]
    BY <1>0, <1>2, <2>3 DEF Maps
  <2>8. n \in Works(lo, base)
    BY <1>0, <2>3, <2>4, <2>6, <2>7, <2>10, <2>11 DEF Works
  <2>9. QED
    BY <2>1, <2>2, <2>8
<1>3. QED
  BY <1>1, <1>2

\* The permissions of a segment are among those of a user page.
LEMMA SegFlagsType ==
    ASSUME NEW raw \in SUBSET {"R", "W", "X"}
    PROVE  SegFlags(raw) \in Flags
  BY DEF SegFlags, Flags

\* Writing to a page of the allocator leaves everything else alone.
LEMMA WriteKeeps ==
    ASSUME NEW lo \in Nat \ {0}, NEW base, NEW m \in Works(lo, base), NEW page \in lo .. NPages,
           NEW words \in [Words -> Value]
    PROVE  [m EXCEPT !.mem[page] = words] \in Works(lo, base)
<1> DEFINE n == [m EXCEPT !.mem[page] = words]
<1>0. m \in [map : Maps, mem : Mems, fresh : 1 .. NPages + 1, max : Int, fault : BOOLEAN]
  BY DEF Works
<1>1. /\ n.map = m.map /\ n.fresh = m.fresh /\ n.fault = m.fault
      /\ n.mem = [m.mem EXCEPT ![page] = words]
      /\ n \in [map : Maps, mem : Mems, fresh : 1 .. NPages + 1, max : Int, fault : BOOLEAN]
  BY <1>0, LoaderAssumption DEF Mems, Frames
<1>2. \A v \in KernelPages : n.mem[KernelFrame(v)] = m.mem[KernelFrame(v)]
  BY <1>0, <1>1, KernelEntries, LoaderAssumption DEF Mems
<1>5. \A f \in 1 .. lo - 1 : n.mem[f] = m.mem[f]
  BY <1>0, <1>1 DEF Mems
<1> HIDE DEF n
<1>3. n \in Works(lo, base)
  BY <1>1, <1>2, <1>5 DEF Works
<1>4. QED
  BY <1>3 DEF n

\* The copies of a segment change the page they are for, or fault.
LEMMA CopyKeeps ==
    ASSUME NEW lo \in Nat \ {0}, NEW base, NEW m \in Works(lo, base), NEW page \in Own(lo),
           NEW seg \in SegmentSet, NEW s \in Int, NEW i \in Nat
    PROVE  Copy(m, page, seg, s, i) \in Works(lo, base)
<1>1. [m EXCEPT !.fault = TRUE] \in Works(lo, base)
  BY DEF Works
<1>2. ASSUME NEW to \in Int, NEW from \in Int, NEW n \in Int
      PROVE  Memcpy(m, page, to, s, from, n) \in Works(lo, base)
  <2>1. CASE n > 0 /\ page = NULL
    BY <1>1, <2>1 DEF Memcpy
  <2>2. CASE n =< 0
    BY <2>2 DEF Memcpy
  <2>3. CASE n > 0 /\ page # NULL
    <3>1. DEFINE words == [w \in Words |->
                             IF w \in to .. to + n - 1 THEN File(s, from + w - to) ELSE m.mem[page][w]]
    <3>0. page \in lo .. NPages /\ page \in 1 .. NPages
      BY <2>3 DEF Own
    <3>2. m.mem[page] \in [Words -> Value]
      BY <3>0 DEF Works, Mems, Frames
    <3>3. \A w \in Words : from + w - to \in Int
      BY LoaderAssumption DEF Words
    <3>4. \A x \in Int : File(s, x) \in Value
      BY DEF File, Value
    <3>5. words \in [Words -> Value]
      BY <3>2, <3>3, <3>4
    <3>6. Memcpy(m, page, to, s, from, n) = [m EXCEPT !.mem[page] = words]
      BY <2>3 DEF Memcpy
    <3> HIDE DEF words
    <3>7. QED
      BY <3>0, <3>5, <3>6, WriteKeeps
  <2>4. QED
    BY <2>1, <2>2, <2>3
<1>3. /\ PageSize \in Nat \ {0} /\ seg.va \in Nat /\ seg.fs \in Nat
      /\ i * PageSize \in Int /\ (i - 1) * PageSize \in Int
  BY LoaderAssumption DEF SegmentSet
<1>4. Offset(seg) \in Int
  BY <1>3 DEF Offset
<1>5. CopySize(seg, i) \in Int
  BY <1>3, <1>4 DEF CopySize
<1>6. CASE seg.fs = 0
  BY <1>6 DEF Copy
<1>7. CASE seg.fs # 0 /\ i = 0
  <2>1. Copy(m, page, seg, s, i) = Memcpy(m, page, Offset(seg), s, 0, CopySize(seg, i) - Offset(seg))
    BY <1>7 DEF Copy
  <2>2. QED
    BY <1>2, <1>4, <1>5, <2>1
<1>8. CASE seg.fs # 0 /\ i # 0
  <2>1. Copy(m, page, seg, s, i) = Memcpy(m, page, 0, s, i * PageSize - Offset(seg), CopySize(seg, i))
    BY <1>8 DEF Copy
  <2>2. QED
    BY <1>2, <1>3, <1>4, <1>5, <2>1
<1>9. QED
  BY <1>6, <1>7, <1>8

\* One page of a segment: it is new, or the user's already, or skipped.
LEMMA PageKeeps ==
    ASSUME NEW lo \in Nat \ {0}, NEW base, NEW m \in Works(lo, base),
           NEW seg \in SegmentSet, NEW s \in Int, NEW i \in Nat,
           (seg.va + i * PageSize) \div PageSize \in Virt
    PROVE  LoadPage(m, seg, s, i) \in Works(lo, base)
<1> DEFINE virt == seg.va + i * PageSize
           new == MmuAlloc(m, virt \div PageSize, SegFlags(seg.flags))
           entry == new.m.map[virt \div PageSize]
           moved == [new.m EXCEPT !.max = IF virt > @ THEN virt ELSE @]
<1>1. new.m \in Works(lo, base) /\ new.page \in Own(lo)
  BY AllocKeeps, SegFlagsType DEF SegmentSet
<1>2. virt \in Int /\ virt \div PageSize \in Virt
  BY LoaderAssumption DEF SegmentSet
<1>3. moved \in Works(lo, base)
  <2> HIDE DEF new, virt
  <2>1. QED
    BY <1>1, <1>2 DEF Works
<1>4. Reusable(entry) => entry.page \in Own(lo)
  <2> HIDE DEF new, virt
  <2>1. virt \div PageSize \in KernelPages => ~Reusable(entry)
    BY <1>1, KernelEntries DEF Works, Reusable
  <2>2. virt \div PageSize \notin KernelPages => entry.page \in Own(lo)
    BY <1>1, <1>2, LoaderAssumption DEF Works, NULL, Own
  <2>3. QED
    BY <2>1, <2>2
<1>5. LoadPage(m, seg, s, i) = IF m.fault THEN m
                               ELSE IF new.page # NULL THEN Copy(moved, new.page, seg, s, i)
                               ELSE IF Reusable(entry) THEN Copy(moved, entry.page, seg, s, i)
                               ELSE new.m
  BY DEF LoadPage
<1> HIDE DEF new, entry, moved
<1>6. QED
  BY <1>1, <1>3, <1>4, <1>5, CopyKeeps

\* A segment has a natural number of pages.
LEMMA PageCountNat ==
    ASSUME NEW seg \in SegmentSet
    PROVE  PageCount(seg) \in Nat
<1>1. \A x \in Nat, c \in Nat \ {0} : x \div c \in Nat
  OBVIOUS
<1>2. PageSize \in Nat \ {0} /\ seg.va \in Nat /\ seg.ms \in Nat
  BY LoaderAssumption DEF SegmentSet
<1>3. Offset(seg) \in Nat
  BY <1>2 DEF Offset
<1>4. seg.ms + Offset(seg) + PageSize - 1 \in Nat
  BY <1>2, <1>3
<1>5. QED
  BY <1>1, <1>2, <1>4 DEF PageCount

\* The loop over the pages of a segment.
LEMMA SegmentRuns ==
    ASSUME NEW lo \in Nat \ {0}, NEW base, NEW m \in Works(lo, base), NEW seg \in SegmentSet, NEW s \in Int,
           \A i \in 0 .. PageCount(seg) - 1 : (seg.va + i * PageSize) \div PageSize \in Virt,
           seg.load
    PROVE  \E acc : /\ LoadSegment(m, seg, s) = acc[PageCount(seg)]
                    /\ acc[0] = m
                    /\ \A n \in 1 .. PageCount(seg) : acc[n] = LoadPage(acc[n - 1], seg, s, n - 1)
                    /\ \A n \in 0 .. PageCount(seg) : acc[n] \in Works(lo, base)
<1> DEFINE S == Works(lo, base)
           k == PageCount(seg)
           Loop(g) == [n \in 0 .. k |-> IF n = 0 THEN m ELSE LoadPage(g[n - 1], seg, s, n - 1)]
           F == [x \in S \X (0 .. k - 1) |-> LoadPage(x[1], seg, s, x[2])]
           acc == CHOOSE g : g = Loop(g)
<1>1. k \in Nat /\ m \in S
  BY PageCountNat
<1>2. \A x \in S, i \in 0 .. k - 1 : LoadPage(x, seg, s, i) \in S
  BY <1>1, PageKeeps
<1>3. LoadSegment(m, seg, s) = IF seg.load THEN acc[k] ELSE m
  BY DEF LoadSegment
<1> HIDE DEF S, k
<1>4. \E g : g = Loop(g)
  <2>1. Rounds(F, S, k)
    BY <1>2 DEF Rounds
  <2>2. \A x \in S, i \in 0 .. k - 1 : F[<<x, i>>] = LoadPage(x, seg, s, i)
    OBVIOUS
  <2> HIDE DEF F
  <2>3. PICK g : g \in Passes(F, S, k, m)
    BY <1>1, <2>1, LoopExists
  <2>4. \A n \in 0 .. k : n # 0 => n \in 1 .. k /\ n - 1 \in 0 .. k - 1 /\ g[n - 1] \in S
    BY <1>1, <2>3 DEF Passes
  <2>5. \A n \in 0 .. k : g[n] = Loop(g)[n]
    BY <2>2, <2>3, <2>4 DEF Passes
  <2>6. g = Loop(g)
    BY <2>3, <2>5 DEF Passes
  <2>7. QED
    BY <2>6
<1>5. acc = Loop(acc)
  BY <1>4
<1> HIDE DEF acc
<1>6. acc[0] \in S /\ \A n \in 1 .. k : acc[n - 1] \in S => acc[n] \in S
  BY <1>1, <1>2, <1>5
<1>7. ASSUME NEW j \in 0 .. k PROVE acc[j] \in S
  BY <1>1, <1>6, LoopStays
<1>8. acc[0] = m /\ \A n \in 1 .. k : acc[n] = LoadPage(acc[n - 1], seg, s, n - 1)
  BY <1>1, <1>5
<1>9. QED
  BY <1>3, <1>7, <1>8 DEF S, k

\* It keeps the work.
LEMMA SegmentKeeps ==
    ASSUME NEW lo \in Nat \ {0}, NEW base, NEW m \in Works(lo, base), NEW seg \in SegmentSet, NEW s \in Int,
           \A i \in 0 .. PageCount(seg) - 1 : (seg.va + i * PageSize) \div PageSize \in Virt
    PROVE  LoadSegment(m, seg, s) \in Works(lo, base)
<1>1. CASE seg.load
  BY <1>1, SegmentRuns, PageCountNat
<1>2. CASE ~seg.load
  BY <1>2 DEF LoadSegment
<1>3. QED
  BY <1>1, <1>2

\* The loop over the segments of a file.
LEMMA SegmentsRun ==
    ASSUME NEW lo \in Nat \ {0}, NEW base, NEW m \in Works(lo, base), NEW elf \in Elfs
    PROVE  \E acc : /\ LoadSegments(m, elf) = acc[Len(elf.segs)]
                    /\ acc[0] = m
                    /\ \A n \in 1 .. Len(elf.segs) : acc[n] = LoadSegment(acc[n - 1], elf.segs[n], n)
                    /\ \A n \in 0 .. Len(elf.segs) : acc[n] \in Works(lo, base)
<1> DEFINE S == Works(lo, base)
           k == Len(elf.segs)
           Loop(g) == [n \in 0 .. k |-> IF n = 0 THEN m ELSE LoadSegment(g[n - 1], elf.segs[n], n)]
           F == [x \in S \X (0 .. k - 1) |-> LoadSegment(x[1], elf.segs[x[2] + 1], x[2] + 1)]
           acc == CHOOSE g : g = Loop(g)
<1>1. k \in Nat /\ m \in S
  BY FilesAssumption
<1>2. \A x \in S, i \in 0 .. k - 1 : LoadSegment(x, elf.segs[i + 1], i + 1) \in S
  <2> SUFFICES ASSUME NEW x \in S, NEW i \in 0 .. k - 1
               PROVE  LoadSegment(x, elf.segs[i + 1], i + 1) \in S
    OBVIOUS
  <2>1. elf.segs \in Seq(SegmentSet) /\ i + 1 \in DOMAIN elf.segs /\ i + 1 \in Int
    BY FilesAssumption DEF SegmentSet
  <2>2. elf.segs[i + 1] \in SegmentSet
    BY <2>1
  <2>3. \A j \in 0 .. PageCount(elf.segs[i + 1]) - 1 :
           (elf.segs[i + 1].va + j * PageSize) \div PageSize \in Virt
    BY <2>1, FilesAssumption
  <2>4. QED
    BY <2>1, <2>2, <2>3, SegmentKeeps
<1>3. LoadSegments(m, elf) = acc[k]
  BY DEF LoadSegments
<1> HIDE DEF S, k
<1>4. \E g : g = Loop(g)
  <2>1. Rounds(F, S, k)
    BY <1>2 DEF Rounds
  <2>2. \A x \in S, i \in 0 .. k - 1 : F[<<x, i>>] = LoadSegment(x, elf.segs[i + 1], i + 1)
    OBVIOUS
  <2> HIDE DEF F
  <2>3. PICK g : g \in Passes(F, S, k, m)
    BY <1>1, <2>1, LoopExists
  <2>4. \A n \in 0 .. k : n # 0 => n \in 1 .. k /\ n - 1 \in 0 .. k - 1 /\ (n - 1) + 1 = n /\ g[n - 1] \in S
    BY <1>1, <2>3 DEF Passes
  <2>5. \A n \in 0 .. k : g[n] = Loop(g)[n]
    <3>1. \A n \in 0 .. k : n # 0 => g[n] = F[<<g[n - 1], n - 1>>]
      BY <2>3, <2>4 DEF Passes
    <3>2. \A n \in 0 .. k : n # 0 =>
             F[<<g[n - 1], n - 1>>] = LoadSegment(g[n - 1], elf.segs[(n - 1) + 1], (n - 1) + 1)
      BY <2>2, <2>4
    <3>3. \A n \in 0 .. k : n # 0 => g[n] = LoadSegment(g[n - 1], elf.segs[n], n)
      BY <2>4, <3>1, <3>2, Zenon
    <3>4. QED
      BY <2>3, <3>3 DEF Passes
  <2>6. g = Loop(g)
    BY <2>3, <2>5 DEF Passes
  <2>7. QED
    BY <2>6
<1>5. acc = Loop(acc)
  BY <1>4
<1> HIDE DEF acc
<1>6. acc[0] \in S /\ \A n \in 1 .. k : acc[n - 1] \in S => acc[n] \in S
  <2>1. acc[0] = m /\ \A n \in 1 .. k : acc[n] = LoadSegment(acc[n - 1], elf.segs[n], n)
    BY <1>1, <1>5
  <2>2. \A n \in 1 .. k : n - 1 \in 0 .. k - 1 /\ (n - 1) + 1 = n
    BY <1>1
  <2>3. SUFFICES ASSUME NEW n \in 1 .. k, acc[n - 1] \in S PROVE acc[n] \in S
    BY <1>1, <2>1
  <2>4. LoadSegment(acc[n - 1], elf.segs[(n - 1) + 1], (n - 1) + 1) \in S
    BY <1>2, <2>2, <2>3
  <2>5. QED
    BY <2>1, <2>2, <2>4
<1>7. ASSUME NEW j \in 0 .. k PROVE acc[j] \in S
  BY <1>1, <1>6, LoopStays
<1>8. acc[0] = m /\ \A n \in 1 .. k : acc[n] = LoadSegment(acc[n - 1], elf.segs[n], n)
  BY <1>1, <1>5
<1>9. QED
  BY <1>3, <1>7, <1>8 DEF S, k

\* It keeps the work.
LEMMA SegmentsKeep ==
    ASSUME NEW lo \in Nat \ {0}, NEW base, NEW m \in Works(lo, base), NEW elf \in Elfs
    PROVE  LoadSegments(m, elf) \in Works(lo, base)
<1>1. Len(elf.segs) \in Nat
  BY FilesAssumption
<1>2. QED
  BY <1>1, SegmentsRun

\* The loop that maps the stack.
LEMMA StackRuns ==
    ASSUME NEW lo \in Nat \ {0}, NEW base, NEW m \in Works(lo, base)
    PROVE  \E acc : /\ MapStack(m) = acc[StackSize]
                    /\ acc[0] = m
                    /\ \A n \in 1 .. StackSize : acc[n] = MmuAlloc(acc[n - 1], StackPage(m) + n - 1, UserData).m
                    /\ \A n \in 0 .. StackSize : acc[n] \in Works(lo, base)
<1> DEFINE S == Works(lo, base)
           k == StackSize
           Loop(g) == [n \in 0 .. k |-> IF n = 0 THEN m ELSE MmuAlloc(g[n - 1], StackPage(m) + n - 1, UserData).m]
           F == [x \in S \X (0 .. k - 1) |-> MmuAlloc(x[1], StackPage(m) + x[2], UserData).m]
           acc == CHOOSE g : g = Loop(g)
<1>1. k \in Nat /\ m \in S
  BY LoaderAssumption
<1>2. \A x \in S, i \in 0 .. k - 1 : MmuAlloc(x, StackPage(m) + i, UserData).m \in S
  BY AllocKeeps DEF UserData, Flags
<1>3. MapStack(m) = acc[k]
  BY DEF MapStack
<1> HIDE DEF S, k
<1>4. \E g : g = Loop(g)
  <2>1. Rounds(F, S, k)
    BY <1>2 DEF Rounds
  <2>2. \A x \in S, i \in 0 .. k - 1 : F[<<x, i>>] = MmuAlloc(x, StackPage(m) + i, UserData).m
    OBVIOUS
  <2> HIDE DEF F
  <2>3. PICK g : g \in Passes(F, S, k, m)
    BY <1>1, <2>1, LoopExists
  <2>4. \A n \in 0 .. k : n # 0 => n \in 1 .. k /\ n - 1 \in 0 .. k - 1 /\ g[n - 1] \in S
    BY <1>1, <2>3 DEF Passes
  <2>5. \A n \in 0 .. k : g[n] = Loop(g)[n]
    BY <2>2, <2>3, <2>4 DEF Passes
  <2>6. g = Loop(g)
    BY <2>3, <2>5 DEF Passes
  <2>7. QED
    BY <2>6
<1>5. acc = Loop(acc)
  BY <1>4
<1> HIDE DEF acc
<1>6. acc[0] \in S /\ \A n \in 1 .. k : acc[n - 1] \in S => acc[n] \in S
  BY <1>1, <1>2, <1>5
<1>7. ASSUME NEW j \in 0 .. k PROVE acc[j] \in S
  BY <1>1, <1>6, LoopStays
<1>8. acc[0] = m /\ \A n \in 1 .. k : acc[n] = MmuAlloc(acc[n - 1], StackPage(m) + n - 1, UserData).m
  BY <1>1, <1>5
<1>9. QED
  BY <1>3, <1>7, <1>8 DEF S, k

\* It keeps the work.
LEMMA StackKeeps ==
    ASSUME NEW lo \in Nat \ {0}, NEW base, NEW m \in Works(lo, base)
    PROVE  MapStack(m) \in Works(lo, base)
  BY StackRuns, LoaderAssumption

-----------------------------------------------------------------------------
(* The pages of the program and of the stack.                               *)

\* Quotient and remainder.
LEMMA DivFacts ==
    ASSUME NEW a \in Int, NEW b \in Nat \ {0}
    PROVE  /\ a \div b \in Int /\ (a \div b) * b =< a /\ a < (a \div b) * b + b
           /\ a % b = a - (a \div b) * b
  OBVIOUS

\* A quotient is known from the multiples around a number.
LEMMA Quotient ==
    ASSUME NEW a \in Int, NEW b \in Nat \ {0}, NEW q \in Int, q * b =< a, a < q * b + b
    PROVE  a \div b = q /\ a % b = a - q * b
<1> DEFINE d == a \div b
<1>1. d \in Int /\ d * b =< a /\ a < d * b + b /\ a % b = a - d * b
  BY DivFacts
<1> HIDE DEF d
<1>2. ASSUME NEW x \in Int, NEW y \in Int, x < y PROVE x * b + b =< y * b
  <2>1. x + 1 =< y
    BY <1>2
  <2>2. (x + 1) * b =< y * b /\ (x + 1) * b = x * b + b
    BY <1>2, <2>1
  <2>3. QED
    BY <2>2
<1>3. ~(d < q) /\ ~(q < d)
  BY <1>1, <1>2
<1>4. d = q
  BY <1>1, <1>3
<1>5. QED
  BY <1>1, <1>4 DEF d

\* Page i behind an address.
LEMMA PageNumber ==
    ASSUME NEW x \in Nat, NEW i \in Nat
    PROVE  /\ x + i * PageSize \in Nat
           /\ (x + i * PageSize) \div PageSize = x \div PageSize + i
           /\ (x + i * PageSize) % PageSize = x % PageSize
<1> DEFINE q == x \div PageSize
<1>1. PageSize \in Nat \ {0}
  BY LoaderAssumption
<1>2. q \in Int /\ q * PageSize =< x /\ x < q * PageSize + PageSize /\ x % PageSize = x - q * PageSize
  BY <1>1, DivFacts
<1> HIDE DEF q
<1>3. (q + i) * PageSize = q * PageSize + i * PageSize /\ i * PageSize \in Nat /\ q + i \in Int
      /\ q * PageSize \in Int
  BY <1>1, <1>2
<1>4. x + i * PageSize \in Int /\ (q + i) * PageSize =< x + i * PageSize
      /\ x + i * PageSize < (q + i) * PageSize + PageSize
  BY <1>1, <1>2, <1>3
<1>5. /\ (x + i * PageSize) \div PageSize = q + i
      /\ (x + i * PageSize) % PageSize = (x + i * PageSize) - (q + i) * PageSize
  BY <1>1, <1>3, <1>4, Quotient
<1>6. QED
  BY <1>2, <1>3, <1>5 DEF q

\* mmu_alloc touches the entry it is asked for, and only if it was not mapped.
LEMMA AllocOnly ==
    ASSUME NEW lo \in Nat \ {0}, NEW base, NEW m \in Works(lo, base), NEW v, NEW flags \in Flags
    PROVE  LET n == MmuAlloc(m, v, flags).m
               page == MmuAlloc(m, v, flags).page
           IN /\ n.max = m.max /\ n.fault = m.fault /\ n.mem = m.mem
              /\ \A u \in Virt : u # v => n.map[u] = m.map[u]
              /\ m.map[v] # Unmapped => n = m /\ page = NULL
              /\ v \in Virt /\ m.map[v] = Unmapped => n.map[v] = [page |-> page, flags |-> flags]
              /\ page # NULL => page = m.fresh
<1> DEFINE page == IF m.fresh =< NPages THEN m.fresh ELSE NULL
           n == [m EXCEPT !.map[v] = [page |-> page, flags |-> flags],
                          !.fresh = IF page = NULL THEN @ ELSE @ + 1]
<1>0. m \in [map : Maps, mem : Mems, fresh : 1 .. NPages + 1, max : Int, fault : BOOLEAN]
  BY DEF Works
<1>1. CASE m.map[v] # Unmapped
  BY <1>1 DEF MmuAlloc
<1>2. CASE m.map[v] = Unmapped
  <2>1. MmuAlloc(m, v, flags).m = n /\ MmuAlloc(m, v, flags).page = page
    BY <1>2 DEF MmuAlloc
  <2>2. page # NULL => page = m.fresh
    OBVIOUS
  <2> HIDE DEF page
  <2>3. n.map = [m.map EXCEPT ![v] = [page |-> page, flags |-> flags]]
        /\ n.mem = m.mem /\ n.max = m.max /\ n.fault = m.fault
    BY <1>0
  <2> HIDE DEF n
  <2>4. \A u \in Virt : u # v => n.map[u] = m.map[u]
    BY <1>0, <2>3 DEF Maps
  <2>5. v \in Virt => n.map[v] = [page |-> page, flags |-> flags]
    BY <1>0, <2>3 DEF Maps
  <2>6. QED
    BY <1>2, <2>1, <2>2, <2>3, <2>4, <2>5
<1>3. QED
  BY <1>1, <1>2

\* A copy changes no mapping.
LEMMA CopyOnly ==
    ASSUME NEW lo \in Nat \ {0}, NEW base, NEW m \in Works(lo, base), NEW page, NEW seg, NEW s, NEW i
    PROVE  LET n == Copy(m, page, seg, s, i)
           IN n.map = m.map /\ n.max = m.max /\ (m.fault => n.fault)
<1>0. m \in [map : Maps, mem : Mems, fresh : 1 .. NPages + 1, max : Int, fault : BOOLEAN]
  BY DEF Works
<1>1. ASSUME NEW to, NEW from, NEW k
      PROVE  LET n == Memcpy(m, page, to, s, from, k)
             IN n.map = m.map /\ n.max = m.max /\ (m.fault => n.fault)
  <2>1. DEFINE words == [w \in Words |-> IF w \in to .. to + k - 1 THEN File(s, from + w - to) ELSE m.mem[page][w]]
  <2>2. /\ [m EXCEPT !.mem[page] = words].map = m.map /\ [m EXCEPT !.mem[page] = words].max = m.max
        /\ [m EXCEPT !.mem[page] = words].fault = m.fault
    <3> HIDE DEF words
    <3>1. QED
      BY <1>0
  <2>3. \/ Memcpy(m, page, to, s, from, k) = [m EXCEPT !.fault = TRUE]
        \/ Memcpy(m, page, to, s, from, k) = m
        \/ Memcpy(m, page, to, s, from, k) = [m EXCEPT !.mem[page] = words]
    BY DEF Memcpy
  <2>4. [m EXCEPT !.fault = TRUE].map = m.map /\ [m EXCEPT !.fault = TRUE].max = m.max
        /\ [m EXCEPT !.fault = TRUE].fault
    BY <1>0
  <2> HIDE DEF words
  <2>5. QED
    BY <2>2, <2>3, <2>4
<1>2. QED
  BY <1>1 DEF Copy

\* An address at which one of the segments has a page.
IsPage(segs, x) ==
    \E seg \in segs : \E i \in 0 .. PageCount(seg) - 1 : x = seg.va + i * PageSize

\* While the segments segs are loaded: m.max is the address of a page, and if all
\* segments are accessible, what is mapped beside the kernel is a frame of the user's,
\* at or below m.max.
Tidy(m, segs) ==
    /\ m.max \in Nat
    /\ m.max # 0 => IsPage(segs, m.max)
    /\ Accessible(segs) => \A v \in Virt \ KernelPages : m.map[v] # Unmapped =>
          Reusable(m.map[v]) /\ v * PageSize =< m.max /\ IsPage(segs, m.max)

\* m.max is at or above the first k pages of a segment.
Reached(m, segs, seg, k) ==
    \/ m.fault \/ ~Accessible(segs)
    \/ PagesOf(seg) \cap KernelPages # {}
    \/ \A i \in 0 .. k - 1 : seg.va + i * PageSize =< m.max

\* One page of a segment.
LEMMA PageTidies ==
    ASSUME NEW lo \in Nat \ {0}, NEW base, NEW m \in Works(lo, base),
           NEW segs, NEW seg \in segs, seg \in SegmentSet, NEW s \in Int,
           NEW i \in 0 .. PageCount(seg) - 1,
           (seg.va + i * PageSize) \div PageSize \in Virt, Tidy(m, segs)
    PROVE  LET n == LoadPage(m, seg, s, i)
           IN /\ Tidy(n, segs) /\ m.max =< n.max /\ (m.fault => n.fault)
              /\ Reached(m, segs, seg, i) => Reached(n, segs, seg, i + 1)
<1> DEFINE virt == seg.va + i * PageSize
           v == virt \div PageSize
           new == MmuAlloc(m, v, SegFlags(seg.flags))
           entry == new.m.map[v]
           moved == [new.m EXCEPT !.max = IF virt > @ THEN virt ELSE @]
           n == LoadPage(m, seg, s, i)
<1>1. /\ PageCount(seg) \in Nat /\ i \in Nat /\ seg.va \in Nat /\ PageSize \in Nat \ {0}
      /\ SegFlags(seg.flags) \in Flags
  BY PageCountNat, SegFlagsType, LoaderAssumption DEF SegmentSet
<1>2. virt \in Nat /\ v \in Virt /\ v = seg.va \div PageSize + i /\ IsPage(segs, virt)
  BY <1>1, PageNumber DEF IsPage
<1>3. v * PageSize =< virt
  <2> HIDE DEF virt
  <2>1. QED
    BY <1>1, <1>2, DivFacts
<1>4. n = IF m.fault THEN m
          ELSE IF new.page # NULL THEN Copy(moved, new.page, seg, s, i)
          ELSE IF Reusable(entry) THEN Copy(moved, entry.page, seg, s, i)
          ELSE new.m
  BY DEF LoadPage
<1>5. /\ new.m \in Works(lo, base) /\ new.m.max = m.max /\ new.m.fault = m.fault
      /\ \A u \in Virt : u # v => new.m.map[u] = m.map[u]
      /\ m.map[v] # Unmapped => new.m = m /\ new.page = NULL
      /\ m.map[v] = Unmapped => new.m.map[v] = [page |-> new.page, flags |-> SegFlags(seg.flags)]
  BY <1>1, <1>2, AllocKeeps, AllocOnly
<1> HIDE DEF virt, v, new, n
<1>6. CASE m.fault
  <2>1. n = m
    BY <1>4, <1>6
  <2>2. QED
    BY <1>6, <2>1 DEF Tidy, Reached, n
<1>7. CASE ~m.fault /\ v \in KernelPages
  <2>1. m.map[v] = Blank[v] /\ m.map[v] # Unmapped /\ "U" \notin m.map[v].flags
    BY <1>7, KernelEntries DEF Works
  <2>2. n = m
    BY <1>4, <1>5, <1>7, <2>1 DEF Reusable
  <2>3. v \in PagesOf(seg)
    BY <1>2 DEF PagesOf
  <2>4. QED
    BY <1>7, <2>2, <2>3 DEF Tidy, Reached, n
<1>8. CASE ~m.fault /\ v \notin KernelPages
  <2>1. moved.map = new.m.map /\ moved.max = (IF virt > m.max THEN virt ELSE m.max) /\ moved \in Works(lo, base)
    BY <1>2, <1>5 DEF Works
  <2>2. Accessible(segs) => Reusable(entry)
    <3> SUFFICES ASSUME Accessible(segs) PROVE Reusable(entry)
      OBVIOUS
    <3>1. CASE m.map[v] = Unmapped
      <4>1. seg.flags \in SUBSET {"R", "W", "X"} /\ seg.flags # {}
        BY DEF Accessible, SegmentSet
      <4>2. entry.flags = SegFlags(seg.flags)
        BY <1>5, <3>1
      <4>3. "U" \in SegFlags(seg.flags) /\ SegFlags(seg.flags) \cap {"R", "W", "X"} # {}
        BY <4>1 DEF SegFlags
      <4>4. QED
        BY <4>2, <4>3 DEF Reusable
    <3>2. CASE m.map[v] # Unmapped
      BY <1>2, <1>5, <1>8, <3>2 DEF Tidy
    <3>3. QED
      BY <3>1, <3>2
  <2> HIDE DEF moved
  <2>3. /\ n.map = new.m.map
        /\ n.max = m.max \/ n.max = (IF virt > m.max THEN virt ELSE m.max)
        /\ Accessible(segs) => n.max = (IF virt > m.max THEN virt ELSE m.max)
    <3>1. \/ n = Copy(moved, new.page, seg, s, i) \/ n = Copy(moved, entry.page, seg, s, i)
          \/ n = new.m /\ ~Accessible(segs)
      BY <1>4, <1>8, <2>2
    <3>2. \A page : Copy(moved, page, seg, s, i).map = moved.map /\ Copy(moved, page, seg, s, i).max = moved.max
      BY <2>1, CopyOnly
    <3>3. QED
      BY <1>5, <2>1, <3>1, <3>2
  <2>4. /\ m.max \in Nat /\ n.max \in Nat /\ m.max =< n.max
        /\ n.max # 0 => IsPage(segs, n.max)
        /\ Accessible(segs) => virt =< n.max
    BY <1>2, <2>3 DEF Tidy
  <2>5. Accessible(segs) => IsPage(segs, n.max)
    BY <1>2, <2>3, <2>4 DEF Tidy
  <2>6. ASSUME Accessible(segs), NEW u \in Virt \ KernelPages, n.map[u] # Unmapped
        PROVE  Reusable(n.map[u]) /\ u * PageSize =< n.max
    <3>1. CASE u = v
      <4>1. u * PageSize \in Int /\ u * PageSize =< virt /\ virt =< n.max
        BY <1>1, <1>2, <1>3, <2>4, <2>6, <3>1 DEF Virt
      <4>2. QED
        BY <1>2, <2>2, <2>3, <2>4, <2>6, <3>1, <4>1
    <3>2. CASE u # v
      <4>1. n.map[u] = m.map[u]
        BY <1>5, <2>3, <3>2
      <4>2. Reusable(m.map[u]) /\ u * PageSize =< m.max /\ u * PageSize \in Int
        BY <1>1, <2>6, <4>1, LoaderAssumption DEF Tidy, Virt
      <4>3. QED
        BY <2>4, <4>1, <4>2
    <3>3. QED
      BY <3>1, <3>2
  <2>7. Tidy(n, segs)
    BY <2>4, <2>5, <2>6 DEF Tidy
  <2>8. ASSUME Accessible(segs), \A j \in 0 .. i - 1 : seg.va + j * PageSize =< m.max,
               NEW j \in 0 .. (i + 1) - 1
        PROVE  seg.va + j * PageSize =< n.max
    <3>1. CASE j = i
      BY <2>4, <2>8, <3>1 DEF virt
    <3>2. CASE j # i
      <4>1. j \in 0 .. i - 1 /\ seg.va + j * PageSize \in Int
        BY <1>1, <2>8, <3>2
      <4>2. QED
        BY <2>4, <2>8, <4>1
    <3>3. QED
      BY <3>1, <3>2
  <2>9. Reached(m, segs, seg, i) => Reached(n, segs, seg, i + 1)
    BY <1>8, <2>8 DEF Reached
  <2>10. QED
    BY <1>8, <2>4, <2>7, <2>9 DEF n
<1>9. QED
  BY <1>6, <1>7, <1>8

\* What was reached stays reached when m.max grows.
LEMMA ReachedStays ==
    ASSUME NEW m, NEW n, m.max \in Nat, n.max \in Nat, m.max =< n.max, m.fault => n.fault,
           NEW segs, NEW seg \in SegmentSet, NEW k \in Nat, Reached(m, segs, seg, k)
    PROVE  Reached(n, segs, seg, k)
<1>1. \A i \in 0 .. k - 1 : seg.va + i * PageSize \in Nat
  BY LoaderAssumption DEF SegmentSet
<1>2. QED
  BY <1>1 DEF Reached

\* All pages of a segment.
LEMMA SegmentTidies ==
    ASSUME NEW lo \in Nat \ {0}, NEW base, NEW m \in Works(lo, base),
           NEW segs, NEW seg \in segs, seg \in SegmentSet, seg.load, NEW s \in Int,
           \A i \in 0 .. PageCount(seg) - 1 : (seg.va + i * PageSize) \div PageSize \in Virt,
           Tidy(m, segs)
    PROVE  LET n == LoadSegment(m, seg, s)
           IN /\ Tidy(n, segs) /\ m.max =< n.max /\ (m.fault => n.fault)
              /\ Reached(n, segs, seg, PageCount(seg))
<1> DEFINE k == PageCount(seg)
           After(x, n) == Tidy(x, segs) /\ m.max =< x.max /\ (m.fault => x.fault) /\ Reached(x, segs, seg, n)
           S == [n \in 0 .. k |-> {x \in Works(lo, base) : After(x, n)}]
<1>1. k \in Nat
  BY PageCountNat
<1>2. PICK acc : /\ LoadSegment(m, seg, s) = acc[k] /\ acc[0] = m
                 /\ \A n \in 1 .. k : acc[n] = LoadPage(acc[n - 1], seg, s, n - 1)
                 /\ \A n \in 0 .. k : acc[n] \in Works(lo, base)
  BY SegmentRuns
<1> HIDE DEF k
<1>3. acc[0] \in S[0]
  <2>1. m.max \in Nat /\ Reached(m, segs, seg, 0)
    BY DEF Tidy, Reached
  <2>2. QED
    BY <1>1, <1>2, <2>1
<1>4. ASSUME NEW n \in 1 .. k, acc[n - 1] \in S[n - 1] PROVE acc[n] \in S[n]
  <2> DEFINE x == acc[n - 1]
             y == acc[n]
  <2>1. /\ n - 1 \in 0 .. k - 1 /\ n - 1 \in 0 .. k /\ n \in 0 .. k /\ (n - 1) + 1 = n
        /\ x \in Works(lo, base) /\ After(x, n - 1)
    BY <1>1, <1>4
  <2>2. y = LoadPage(x, seg, s, n - 1) /\ y \in Works(lo, base)
    BY <1>2, <2>1
  <2> HIDE DEF x, y
  <2>3. /\ Tidy(y, segs) /\ x.max =< y.max /\ (x.fault => y.fault)
        /\ Reached(x, segs, seg, n - 1) => Reached(y, segs, seg, (n - 1) + 1)
    BY <2>1, <2>2, PageTidies DEF k
  <2>4. m.max \in Nat /\ x.max \in Nat /\ y.max \in Nat
    BY <2>1, <2>3 DEF Tidy
  <2>5. After(y, n)
    BY <2>1, <2>3, <2>4
  <2>6. QED
    BY <2>1, <2>2, <2>5 DEF y
<1>5. acc[k] \in S[k]
  <2> HIDE DEF S
  <2>1. QED
    BY <1>1, <1>3, <1>4, LoopCounts
<1>6. After(acc[k], k)
  BY <1>1, <1>5
<1>7. QED
  BY <1>2, <1>6 DEF k

\* The segments of a file that are loaded.
LoadedOf(elf) == {elf.segs[s] : s \in {t \in DOMAIN elf.segs : elf.segs[t].load}}

\* What a file says of its segments.
LEMMA FileFacts ==
    ASSUME NEW elf \in Elfs, NEW s \in DOMAIN elf.segs
    PROVE  /\ elf.segs[s] \in SegmentSet /\ s \in 1 .. Len(elf.segs) /\ Len(elf.segs) \in Nat
           /\ \A i \in 0 .. PageCount(elf.segs[s]) - 1 :
                 (elf.segs[s].va + i * PageSize) \div PageSize \in Virt
<1>1. elf.segs \in Seq(SegmentSet)
  BY FilesAssumption DEF SegmentSet
<1>2. QED
  BY <1>1, FilesAssumption

\* All segments: m.max is at or above every page of them, unless the kernel is in
\* the way.
LEMMA SegmentsTidy ==
    ASSUME NEW lo \in Nat \ {0}, NEW base, NEW m \in Works(lo, base), NEW elf \in Elfs,
           Tidy(m, LoadedOf(elf))
    PROVE  LET n == LoadSegments(m, elf)
           IN /\ Tidy(n, LoadedOf(elf))
              /\ \A seg \in LoadedOf(elf) : Reached(n, LoadedOf(elf), seg, PageCount(seg))
<1> DEFINE k == Len(elf.segs)
           Done(x, t) == elf.segs[t].load => Reached(x, LoadedOf(elf), elf.segs[t], PageCount(elf.segs[t]))
           After(x, n) == Tidy(x, LoadedOf(elf)) /\ \A t \in 1 .. n : Done(x, t)
           S == [n \in 0 .. k |-> {x \in Works(lo, base) : After(x, n)}]
<1>1. k \in Nat /\ DOMAIN elf.segs = 1 .. k
  BY FilesAssumption
<1>2. PICK acc : /\ LoadSegments(m, elf) = acc[k] /\ acc[0] = m
                 /\ \A n \in 1 .. k : acc[n] = LoadSegment(acc[n - 1], elf.segs[n], n)
                 /\ \A n \in 0 .. k : acc[n] \in Works(lo, base)
  BY SegmentsRun
<1> HIDE DEF k
<1>3. acc[0] \in S[0]
  BY <1>1, <1>2
<1>4. ASSUME NEW n \in 1 .. k, acc[n - 1] \in S[n - 1] PROVE acc[n] \in S[n]
  <2> DEFINE x == acc[n - 1]
             y == acc[n]
             seg == elf.segs[n]
  <2>1. /\ n - 1 \in 0 .. k /\ n \in 0 .. k /\ n \in Int
        /\ x \in Works(lo, base) /\ After(x, n - 1)
    BY <1>1, <1>4
  <2>2. y = LoadSegment(x, seg, n) /\ y \in Works(lo, base)
    BY <1>2, <2>1
  <2>3. /\ seg \in SegmentSet /\ PageCount(seg) \in Nat
        /\ \A i \in 0 .. PageCount(seg) - 1 : (seg.va + i * PageSize) \div PageSize \in Virt
        /\ seg.load => seg \in LoadedOf(elf)
    BY <1>1, FileFacts, PageCountNat DEF LoadedOf
  <2> HIDE DEF x, y, seg
  <2>4. /\ Tidy(y, LoadedOf(elf)) /\ x.max =< y.max /\ (x.fault => y.fault)
        /\ seg.load => Reached(y, LoadedOf(elf), seg, PageCount(seg))
    <3>1. CASE seg.load
      BY <2>1, <2>2, <2>3, <3>1, SegmentTidies
    <3>2. CASE ~seg.load
      <4>1. y = x
        BY <2>2, <3>2 DEF LoadSegment
      <4>2. QED
        BY <2>1, <3>2, <4>1 DEF Tidy
    <3>3. QED
      BY <3>1, <3>2
  <2>5. x.max \in Nat /\ y.max \in Nat
    BY <2>1, <2>4 DEF Tidy
  <2>6. ASSUME NEW t \in 1 .. n PROVE Done(y, t)
    <3>1. CASE t = n
      BY <2>4, <3>1 DEF seg
    <3>2. CASE t # n
      <4>1. t \in 1 .. n - 1 /\ t \in DOMAIN elf.segs
        BY <1>1, <2>1, <3>2
      <4>2. elf.segs[t] \in SegmentSet /\ PageCount(elf.segs[t]) \in Nat
        BY <4>1, FileFacts, PageCountNat
      <4>3. Done(x, t)
        BY <2>1, <4>1
      <4>4. QED
        BY <2>4, <2>5, <4>2, <4>3, ReachedStays
    <3>3. QED
      BY <3>1, <3>2
  <2>7. After(y, n)
    BY <2>4, <2>6
  <2>8. QED
    BY <2>1, <2>2, <2>7 DEF y
<1>5. acc[k] \in S[k]
  <2> HIDE DEF S
  <2>1. QED
    BY <1>1, <1>3, <1>4, LoopCounts
<1>6. After(acc[k], k)
  BY <1>1, <1>5
<1>7. QED
  BY <1>1, <1>2, <1>6 DEF LoadedOf

\* Multiples are ordered like the factors.
LEMMA Times ==
    ASSUME NEW x \in Int, NEW y \in Int, NEW b \in Nat \ {0}
    PROVE  x * b \in Int /\ (x * b < y * b => x < y) /\ (x =< y => x * b =< y * b)
           /\ (x + 1) * b = x * b + b
  OBVIOUS

\* A page holds a whole number of pointers.
LEMMA PointersPerPage ==
    \E c \in Nat \ {0} : PageSize = c * PtrSize /\ PtrSize =< PageSize
<1>1. PageSize \in Nat \ {0} /\ PtrSize \in Nat \ {0} /\ PageSize % PtrSize = 0
  BY LoaderAssumption
<1> DEFINE c == PageSize \div PtrSize
<1>2. c \in Int /\ c * PtrSize =< PageSize /\ PageSize % PtrSize = PageSize - c * PtrSize
  BY <1>1, DivFacts
<1> HIDE DEF c
<1>3. c * PtrSize = PageSize
  BY <1>1, <1>2, Times
<1>4. 0 * PtrSize = 0 /\ 0 * PtrSize < c * PtrSize
  BY <1>1, <1>3
<1>5. 0 < c
  BY <1>1, <1>2, <1>4, Times
<1>6. 1 * PtrSize =< c * PtrSize /\ 1 * PtrSize = PtrSize
  BY <1>1, <1>2, <1>5, Times
<1>7. QED
  BY <1>2, <1>3, <1>5, <1>6

\* The stack starts at or above the last address, at most one page above it.
LEMMA StackAbove ==
    ASSUME NEW m, m.max \in Nat
    PROVE  /\ StackPage(m) \in Nat /\ (m.max = 0 => StackPage(m) = 0)
           /\ StackPage(m) =< m.max \div PageSize + 1
           /\ m.max =< StackPage(m) * PageSize
<1> DEFINE sp == StackPage(m)
           d == m.max \div PageSize
<1>1. PageSize \in Nat \ {0} /\ m.max + PageSize - 1 \in Nat
  BY LoaderAssumption
<1>0. \A a \in Int : /\ a \div PageSize \in Int /\ (a \div PageSize) * PageSize =< a
                     /\ a < (a \div PageSize) * PageSize + PageSize
  BY <1>1, DivFacts
<1>2. sp \in Int /\ sp * PageSize =< m.max + PageSize - 1 /\ m.max + PageSize - 1 < sp * PageSize + PageSize
  <2>1. m.max + PageSize - 1 \in Int
    BY <1>1
  <2>2. QED
    BY <1>0, <2>1, Zenon DEF StackPage
<1>3. d \in Int /\ d * PageSize =< m.max /\ m.max < d * PageSize + PageSize
  <2>1. m.max \in Int
    OBVIOUS
  <2>2. QED
    BY <1>0, <2>1, Zenon
<1> HIDE DEF sp, d
<1>4. sp * PageSize \in Int /\ m.max =< sp * PageSize
  BY <1>1, <1>2, Times
<1>5. -1 < sp
  <2>1. (-1) * PageSize < sp * PageSize
    BY <1>1, <1>2, <1>4
  <2>2. QED
    BY <1>1, <1>2, <2>1, Times
<1>6. m.max = 0 => sp = 0
  <2> SUFFICES ASSUME m.max = 0 PROVE sp = 0
    OBVIOUS
  <2>1. sp * PageSize < 1 * PageSize
    BY <1>1, <1>2, <1>4
  <2>2. sp < 1
    BY <1>1, <1>2, <2>1, Times
  <2>3. QED
    BY <1>2, <1>5, <2>2
<1>7. sp =< d + 1
  <2>1. (d + 1) * PageSize = d * PageSize + PageSize /\ (d + 1 + 1) * PageSize = (d + 1) * PageSize + PageSize
        /\ d * PageSize \in Int
    BY <1>1, <1>3, Times
  <2>2. sp * PageSize < (d + 1 + 1) * PageSize
    BY <1>1, <1>2, <1>3, <1>4, <2>1
  <2>3. sp < d + 1 + 1
    BY <1>1, <1>2, <1>3, <2>2, Times
  <2>4. QED
    BY <1>2, <1>3, <2>3
<1>8. QED
  BY <1>2, <1>4, <1>5, <1>6, <1>7 DEF sp, d

\* The loop that maps the stack maps the pages that are not mapped.
LEMMA StackMapped ==
    ASSUME NEW lo \in Nat \ {0}, NEW base, NEW m \in Works(lo, base), m.max \in Nat
    PROVE  LET n == MapStack(m)
           IN /\ n.fault = m.fault
              /\ \A v \in Virt : v \in StackPage(m) .. StackPage(m) + StackSize - 1 /\ m.map[v] = Unmapped
                    => n.map[v].flags = UserData
<1> DEFINE k == StackSize
           sp == StackPage(m)
           After(x, n) == /\ x.fault = m.fault
                          /\ \A v \in Virt : v \notin sp .. sp + n - 1 => x.map[v] = m.map[v]
                          /\ \A v \in Virt : v \in sp .. sp + n - 1 /\ m.map[v] = Unmapped => x.map[v].flags = UserData
           S == [n \in 0 .. k |-> {x \in Works(lo, base) : After(x, n)}]
<1>1. k \in Nat /\ sp \in Nat /\ UserData \in Flags
  BY StackAbove, LoaderAssumption DEF UserData, Flags
<1>2. PICK acc : /\ MapStack(m) = acc[k] /\ acc[0] = m
                 /\ \A n \in 1 .. k : acc[n] = MmuAlloc(acc[n - 1], sp + n - 1, UserData).m
                 /\ \A n \in 0 .. k : acc[n] \in Works(lo, base)
  BY StackRuns
<1> HIDE DEF k, sp
<1>3. acc[0] \in S[0]
  <2>1. sp .. sp + 0 - 1 = {}
    BY <1>1
  <2>2. After(m, 0)
    BY <2>1
  <2> HIDE DEF After
  <2>3. QED
    BY <1>1, <1>2, <2>2
<1>4. ASSUME NEW n \in 1 .. k, acc[n - 1] \in S[n - 1] PROVE acc[n] \in S[n]
  <2> DEFINE x == acc[n - 1]
             y == acc[n]
             w == sp + n - 1
             page == MmuAlloc(x, w, UserData).page
  <2>1. /\ n - 1 \in 0 .. k /\ n \in 0 .. k
        /\ x \in Works(lo, base) /\ After(x, n - 1)
    BY <1>1, <1>4
  <2>2. y = MmuAlloc(x, w, UserData).m /\ y \in Works(lo, base)
    BY <1>2, <2>1
  <2>3. \A v \in Int : v \in sp .. sp + n - 1 <=> v \in sp .. sp + (n - 1) - 1 \/ v = w
    BY <1>1
  <2>4. w \notin sp .. sp + (n - 1) - 1 /\ Virt \subseteq Int
    BY <1>1 DEF Virt
  <2> HIDE DEF x, y, w, page
  <2>5. /\ y.fault = x.fault
        /\ \A u \in Virt : u # w => y.map[u] = x.map[u]
        /\ x.map[w] # Unmapped => y = x
        /\ w \in Virt /\ x.map[w] = Unmapped => y.map[w] = [page |-> page, flags |-> UserData]
    BY <1>1, <2>1, <2>2, AllocOnly DEF page
  <2>6. After(y, n)
    <3>1. \A v \in Virt : v \notin sp .. sp + n - 1 => y.map[v] = m.map[v]
      BY <2>1, <2>3, <2>4, <2>5
    <3>2. ASSUME NEW v \in Virt, v \in sp .. sp + n - 1, m.map[v] = Unmapped
          PROVE  y.map[v].flags = UserData
      <4>1. CASE v = w
        <5>1. x.map[w] = Unmapped
          BY <2>1, <2>4, <3>2, <4>1
        <5>2. y.map[w] = [page |-> page, flags |-> UserData]
          BY <2>5, <3>2, <4>1, <5>1
        <5>3. QED
          BY <4>1, <5>2
      <4>2. CASE v # w
        BY <2>1, <2>3, <2>4, <2>5, <3>2, <4>2
      <4>3. QED
        BY <4>1, <4>2
    <3>3. QED
      BY <2>1, <2>5, <3>1, <3>2
  <2> HIDE DEF After
  <2>7. QED
    BY <2>1, <2>2, <2>6 DEF y
<1>5. acc[k] \in S[k]
  <2> HIDE DEF S
  <2>1. QED
    BY <1>1, <1>3, <1>4, LoopCounts
<1>6. After(acc[k], k)
  <2> HIDE DEF After
  <2>1. QED
    BY <1>1, <1>5
<1>7. QED
  BY <1>2, <1>6 DEF k, sp

\* The words of the arguments, argument by argument.
LEMMA TextRuns ==
    ASSUME NEW args \in Seq(Nat)
    PROVE  \E acc : /\ TextLen(args) = acc[Len(args)] /\ acc[0] = 0
                    /\ \A n \in 1 .. Len(args) : acc[n] = acc[n - 1] + args[n] + 1
                    /\ \A n \in 0 .. Len(args) : acc[n] \in Nat /\ acc[n] =< TextLen(args)
<1> DEFINE k == Len(args)
           Loop(g) == [n \in 0 .. k |-> IF n = 0 THEN 0 ELSE g[n - 1] + args[n] + 1]
           F == [x \in Nat \X (0 .. k - 1) |-> x[1] + args[x[2] + 1] + 1]
           acc == CHOOSE g : g = Loop(g)
<1>1. k \in Nat /\ \A n \in 1 .. k : args[n] \in Nat
  OBVIOUS
<1>2. TextLen(args) = acc[k]
  BY DEF TextLen
<1> HIDE DEF k
<1>3. \E g : g = Loop(g)
  <2>1. \A x \in Nat, i \in 0 .. k - 1 : F[<<x, i>>] = x + args[i + 1] + 1
    OBVIOUS
  <2> HIDE DEF F
  <2>2. Rounds(F, Nat, k)
    <3>1. \A i \in 0 .. k - 1 : args[i + 1] \in Nat
      BY <1>1
    <3>2. ASSUME NEW x \in Nat, NEW i \in 0 .. k - 1 PROVE F[<<x, i>>] \in Nat
      <4>1. F[<<x, i>>] = x + args[i + 1] + 1 /\ args[i + 1] \in Nat
        BY <2>1, <3>1
      <4>2. QED
        BY <4>1
    <3>3. QED
      BY <3>2 DEF Rounds
  <2>3. PICK g : g \in Passes(F, Nat, k, 0)
    BY <1>1, <2>2, LoopExists
  <2>4. \A n \in 0 .. k : n # 0 => n \in 1 .. k /\ n - 1 \in 0 .. k - 1 /\ (n - 1) + 1 = n /\ g[n - 1] \in Nat
    BY <1>1, <2>3 DEF Passes
  <2>5. \A n \in 0 .. k : g[n] = Loop(g)[n]
    <3>1. \A n \in 0 .. k : n # 0 => g[n] = F[<<g[n - 1], n - 1>>]
      BY <2>3, <2>4 DEF Passes
    <3>2. \A n \in 0 .. k : n # 0 => F[<<g[n - 1], n - 1>>] = g[n - 1] + args[(n - 1) + 1] + 1
      BY <2>1, <2>4
    <3>3. \A n \in 0 .. k : n # 0 => g[n] = g[n - 1] + args[n] + 1
      BY <2>4, <3>1, <3>2, Zenon
    <3>4. QED
      BY <2>3, <3>3 DEF Passes
  <2>6. g = Loop(g)
    BY <2>3, <2>5 DEF Passes
  <2>7. QED
    BY <2>6
<1>4. acc = Loop(acc)
  BY <1>3
<1> HIDE DEF acc
<1>5. acc[0] = 0 /\ \A n \in 1 .. k : acc[n] = acc[n - 1] + args[n] + 1
  BY <1>1, <1>4
<1>6. ASSUME NEW n \in 1 .. k, acc[n - 1] \in Nat PROVE acc[n] \in Nat
  <2>1. acc[n] = acc[n - 1] + args[n] + 1 /\ args[n] \in Nat
    BY <1>1, <1>5
  <2>2. QED
    BY <1>6, <2>1
<1>7. ASSUME NEW j \in 0 .. k PROVE acc[j] \in Nat
  <2>1. acc[0] \in Nat /\ j \in Nat /\ \A n \in 1 .. j : n \in 1 .. k
    BY <1>1, <1>5
  <2>2. QED
    BY <1>6, <2>1, LoopStays
<1>8. ASSUME NEW j \in 0 .. k PROVE acc[j] =< acc[k]
  <2> DEFINE T == {i \in Nat : i =< k => acc[k - i] =< acc[k]}
  <2>1. 0 \in T
    BY <1>1, <1>7
  <2>2. ASSUME NEW i \in Nat, i \in T PROVE i + 1 \in T
    <3> SUFFICES ASSUME i + 1 =< k PROVE acc[k - (i + 1)] =< acc[k]
      OBVIOUS
    <3>1. /\ k - i \in 1 .. k /\ (k - i) - 1 = k - (i + 1) /\ acc[k - i] =< acc[k]
          /\ k - (i + 1) \in 0 .. k /\ k - i \in 0 .. k /\ k \in 0 .. k
      BY <1>1, <2>2
    <3>2. acc[k - i] = acc[k - (i + 1)] + args[k - i] + 1 /\ args[k - i] \in Nat
      BY <1>1, <1>5, <3>1
    <3>3. acc[k - (i + 1)] \in Nat /\ acc[k - i] \in Nat /\ acc[k] \in Nat
      BY <1>7, <3>1
    <3>4. QED
      BY <3>1, <3>2, <3>3, SMTT(30)
  <2> HIDE DEF T
  <2>3. k - j \in Nat /\ k - j =< k /\ k - (k - j) = j
    BY <1>1
  <2>4. k - j \in T
    BY <2>1, <2>2, <2>3, SetInduction
  <2>5. QED
    BY <2>3, <2>4 DEF T
<1>9. QED
  BY <1>2, <1>5, <1>7, <1>8 DEF k

\* There is room above the program for the stack, the arguments and the pointers.
LEMMA RoomAbove ==
    ASSUME NEW elf \in Elfs, NEW args \in ArgLists, NEW m, m.max \in Nat,
           m.max # 0 => IsPage(LoadedOf(elf), m.max)
    PROVE  /\ StackPage(m) \in Nat /\ TextLen(args) \in Nat
           /\ (StackPage(m) + StackSize) * PageSize + TextLen(args) + (Len(args) + 1) * PtrSize
                 =< NVirt * PageSize
<1> DEFINE pages == UNION {PagesOf(elf.segs[s]) : s \in DOMAIN elf.segs}
           rest == (Len(args) + 1) * PtrSize
<1>1. \A v \in {-1} \cup pages : (v + 1 + StackSize) * PageSize + TextLen(args) + rest =< NVirt * PageSize
  BY RoomAssumption
<1>2. /\ PageSize \in Nat \ {0} /\ StackSize \in Nat /\ PtrSize \in Nat \ {0} /\ NVirt \in Nat
      /\ args \in Seq(Nat) /\ Len(args) \in Nat /\ rest \in Nat
  BY LoaderAssumption, FilesAssumption
<1>3. TextLen(args) \in Nat
  BY <1>2, TextRuns
<1>4. /\ StackPage(m) \in Nat /\ (m.max = 0 => StackPage(m) = 0)
      /\ StackPage(m) =< m.max \div PageSize + 1
  BY StackAbove
<1>5. \E v \in {-1} \cup pages : v \in Int /\ StackPage(m) =< v + 1
  <2>1. CASE m.max = 0
    BY <1>4, <2>1
  <2>2. CASE m.max # 0
    <3>1. PICK s \in DOMAIN elf.segs : \E i \in 0 .. PageCount(elf.segs[s]) - 1 :
             m.max = elf.segs[s].va + i * PageSize
      BY <2>2 DEF IsPage, LoadedOf
    <3>2. PICK i \in 0 .. PageCount(elf.segs[s]) - 1 : m.max = elf.segs[s].va + i * PageSize
      BY <3>1
    <3>3. elf.segs[s].va \in Nat /\ PageCount(elf.segs[s]) \in Nat /\ i \in Nat
      BY FileFacts, PageCountNat DEF SegmentSet
    <3>4. m.max \div PageSize = elf.segs[s].va \div PageSize + i
      BY <3>2, <3>3, PageNumber
    <3>5. m.max \div PageSize \in PagesOf(elf.segs[s])
      BY <3>4 DEF PagesOf
    <3>6. m.max \div PageSize \in Int
      <4>1. \A a \in Int : a \div PageSize \in Int
        BY <1>2, DivFacts
      <4>2. QED
        BY <4>1
    <3>7. QED
      BY <1>4, <3>5, <3>6
  <2>3. QED
    BY <2>1, <2>2
<1>6. PICK v \in {-1} \cup pages : v \in Int /\ StackPage(m) =< v + 1
  BY <1>5
<1>7. (v + 1 + StackSize) * PageSize + TextLen(args) + rest =< NVirt * PageSize
  BY <1>1
<1>8. (StackPage(m) + StackSize) * PageSize =< (v + 1 + StackSize) * PageSize
  BY <1>2, <1>4, <1>6, Times
<1>9. (StackPage(m) + StackSize) * PageSize \in Int /\ (v + 1 + StackSize) * PageSize \in Int
      /\ NVirt * PageSize \in Int
  BY <1>2, <1>4, <1>6, Times
<1> HIDE DEF rest
<1>10. (StackPage(m) + StackSize) * PageSize + TextLen(args) + rest =< NVirt * PageSize
  BY <1>2, <1>3, <1>7, <1>8, <1>9
<1>11. QED
  BY <1>3, <1>4, <1>10 DEF rest

\* Page k below SP is page k below the top of the stack.
LEMMA PageBelow ==
    ASSUME NEW top \in Nat, NEW k \in Nat
    PROVE  (top * PageSize - PtrSize - (k - 1) * PageSize) \div PageSize = top - k
<1>1. PageSize \in Nat \ {0} /\ PtrSize \in Nat \ {0} /\ PtrSize =< PageSize
  BY LoaderAssumption, PointersPerPage
<1>2. /\ top * PageSize \in Int /\ k * PageSize \in Int /\ (k - 1) * PageSize = k * PageSize - PageSize
      /\ (top - k) * PageSize = top * PageSize - k * PageSize
  BY <1>1
<1> DEFINE x == top * PageSize - PtrSize - (k - 1) * PageSize
<1>3. x \in Int /\ (top - k) * PageSize =< x /\ x < (top - k) * PageSize + PageSize
  BY <1>1, <1>2
<1> DEFINE q == top - k
<1>4. q \in Int /\ q * PageSize =< x /\ x < q * PageSize + PageSize
  BY <1>3
<1> HIDE DEF x, q
<1>5. x \div PageSize = q
  BY <1>1, <1>3, <1>4, Quotient
<1>6. QED
  BY <1>5 DEF x, q

\* What StackPrivate says of a task with stack pointer sp, address space map and the
\* segments segs.
StackClear(sp, map, segs) ==
    LET used == UNION {PagesOf(seg) : seg \in segs}
        addrs == UNION {PageAddrs(seg) : seg \in segs}
        Last(a) == a \in addrs /\ \A b \in addrs : b =< a
    IN Accessible(segs) /\ used \cap KernelPages = {} =>
       \A k \in 1 .. StackSize - 1 :
          LET v == (sp - (k - 1) * PageSize) \div PageSize
          IN v \notin KernelPages /\ ~Last(v * PageSize) =>
                v \notin used /\ UserData \subseteq map[v].flags

\* The pages of the stack lie above those of the program, but for the one that starts
\* at m.max, and stay as MapStack made them.
LEMMA StackIsClear ==
    ASSUME NEW lo \in Nat \ {0}, NEW base, NEW m \in Works(lo, base),
           NEW elf \in Elfs, NEW args \in ArgLists, Tidy(m, LoadedOf(elf)),
           \A seg \in LoadedOf(elf) : Reached(m, LoadedOf(elf), seg, PageCount(seg)),
           NEW done \in Works(lo, MapStack(m)), ~done.fault
    PROVE  StackClear(LastStackAddr(m) - PtrSize, done.map, LoadedOf(elf))
<1> DEFINE segs == LoadedOf(elf)
           sp == StackPage(m)
           used == UNION {PagesOf(seg) : seg \in segs}
           addrs == UNION {PageAddrs(seg) : seg \in segs}
           Last(a) == a \in addrs /\ \A b \in addrs : b =< a
           at(k) == (LastStackAddr(m) - PtrSize - (k - 1) * PageSize) \div PageSize
<1> SUFFICES ASSUME Accessible(segs), used \cap KernelPages = {}, NEW k \in 1 .. StackSize - 1,
                    at(k) \notin KernelPages, ~Last(at(k) * PageSize)
             PROVE  at(k) \notin used /\ UserData \subseteq done.map[at(k)].flags
  BY DEF StackClear
<1> DEFINE v == sp + StackSize - 1 - k
<1>1. /\ PageSize \in Nat \ {0} /\ StackSize \in Nat \ {0} /\ PtrSize \in Nat \ {0} /\ NVirt \in Nat
      /\ m.max \in Nat /\ sp \in Nat /\ k \in Nat /\ Len(args) \in Nat
  BY LoaderAssumption, FilesAssumption, StackAbove DEF Tidy
<1>2. (LastStackAddr(m) - PtrSize - (k - 1) * PageSize) \div PageSize = v
  <2> DEFINE top == sp + StackSize - 1
  <2>1. top \in Nat /\ LastStackAddr(m) = top * PageSize /\ v = top - k
    BY <1>1, SMTT(30) DEF LastStackAddr
  <2> HIDE DEF top, v
  <2>2. (top * PageSize - PtrSize - (k - 1) * PageSize) \div PageSize = top - k
    BY <1>1, <2>1, PageBelow
  <2>3. QED
    BY <2>1, <2>2
<1>3. v \in Nat /\ v \in sp .. sp + StackSize - 1 /\ v < sp + StackSize
  BY <1>1
<1>4. v \in Virt
  <2>1. /\ (sp + StackSize) * PageSize + TextLen(args) + (Len(args) + 1) * PtrSize =< NVirt * PageSize
        /\ TextLen(args) \in Nat
    BY RoomAbove DEF Tidy
  <2>2. (Len(args) + 1) * PtrSize \in Nat /\ (sp + StackSize) * PageSize \in Nat /\ NVirt * PageSize \in Nat
    BY <1>1
  <2>3. (sp + StackSize) * PageSize =< NVirt * PageSize
    BY <2>1, <2>2
  <2>4. v * PageSize \in Int /\ (v + 1) * PageSize =< (sp + StackSize) * PageSize
        /\ (v + 1) * PageSize = v * PageSize + PageSize
    BY <1>1, <1>3, Times, SMTT(30)
  <2>5. v * PageSize < NVirt * PageSize
    BY <1>1, <2>2, <2>3, <2>4, SMTT(30)
  <2>6. v < NVirt
    BY <1>1, <1>3, <2>5, Times
  <2>7. QED
    BY <1>1, <1>3, <2>6 DEF Virt
<1> HIDE DEF v
<1>5. v \notin KernelPages
  BY <1>2
<1>6. MapStack(m).fault = m.fault
      /\ (m.map[v] = Unmapped => MapStack(m).map[v].flags = UserData)
  BY <1>1, <1>3, <1>4, StackMapped
<1>7. ~m.fault
  BY <1>6 DEF Works
<1>8. ASSUME NEW seg \in segs, NEW i \in 0 .. PageCount(seg) - 1
      PROVE  /\ seg.va + i * PageSize \in Nat /\ seg.va + i * PageSize =< m.max
             /\ (seg.va + i * PageSize) \div PageSize = seg.va \div PageSize + i
  <2>1. seg \in SegmentSet /\ seg.va \in Nat /\ PageCount(seg) \in Nat /\ i \in Nat
    <3>1. PICK s \in DOMAIN elf.segs : seg = elf.segs[s]
      BY DEF LoadedOf
    <3>2. seg \in SegmentSet
      BY <3>1, FileFacts
    <3>3. PageCount(seg) \in Nat
      BY <3>2, PageCountNat
    <3>4. QED
      BY <3>2, <3>3 DEF SegmentSet
  <2>2. /\ seg.va + i * PageSize \in Nat
        /\ (seg.va + i * PageSize) \div PageSize = seg.va \div PageSize + i
    BY <2>1, PageNumber
  <2>3. seg.va + i * PageSize =< m.max
    <3>1. Reached(m, segs, seg, PageCount(seg)) /\ PagesOf(seg) \cap KernelPages = {}
      OBVIOUS
    <3>2. QED
      BY <1>7, <3>1 DEF Reached
  <2>4. QED
    BY <2>2, <2>3
<1>14. v * PageSize \in Int /\ m.max =< v * PageSize
  <2>1. m.max =< sp * PageSize /\ sp * PageSize \in Int /\ sp =< v /\ v \in Int
    BY <1>1, <1>3, StackAbove
  <2>2. sp * PageSize =< v * PageSize /\ v * PageSize \in Int
    BY <1>1, <2>1, Times
  <2>3. QED
    BY <1>1, <2>1, <2>2
<1>15. ASSUME v * PageSize =< m.max, IsPage(segs, m.max) PROVE FALSE
  <2>1. v * PageSize = m.max
    BY <1>1, <1>14, <1>15
  <2>2. m.max \in addrs
    BY <1>15 DEF IsPage, PageAddrs
  <2>3. \A b \in addrs : b =< m.max
    BY <1>8 DEF PageAddrs
  <2>4. QED
    BY <1>2, <2>1, <2>2, <2>3
<1>9. v \notin used
  <2> SUFFICES ASSUME v \in used PROVE FALSE
    OBVIOUS
  <2>1. PICK seg \in segs : v \in PagesOf(seg)
    OBVIOUS
  <2>6. PICK i \in 0 .. PageCount(seg) - 1 : v = seg.va \div PageSize + i
    BY <2>1 DEF PagesOf
  <2> DEFINE x == seg.va + i * PageSize
  <2>2. x \in Nat /\ x =< m.max /\ x \div PageSize = v /\ IsPage(segs, x)
    BY <1>8, <2>6 DEF IsPage
  <2> HIDE DEF x
  <2>3. v * PageSize =< x
    <3>1. \A y \in Int : (y \div PageSize) * PageSize =< y
      BY <1>1, DivFacts
    <3>2. QED
      BY <2>2, <3>1
  <2>4. v * PageSize =< m.max /\ x = m.max
    BY <1>1, <1>14, <2>2, <2>3
  <2>5. QED
    BY <1>15, <2>2, <2>4
<1>10. m.map[v] = Unmapped
  <2> SUFFICES ASSUME m.map[v] # Unmapped PROVE FALSE
    OBVIOUS
  <2>1. v * PageSize =< m.max /\ IsPage(segs, m.max)
    BY <1>4, <1>5 DEF Tidy
  <2>2. QED
    BY <1>15, <2>1
<1>11. MapStack(m).map[v] # Unmapped
  BY <1>6, <1>10 DEF UserData, Unmapped
<1>12. done.map[v].flags = UserData
  BY <1>4, <1>6, <1>10, <1>11 DEF Works
<1>13. QED
  BY <1>2, <1>9, <1>12

-----------------------------------------------------------------------------
(* The arguments.                                                           *)

\* The next page for the arguments is new, or there is none.
LEMMA TurnKeeps ==
    ASSUME NEW lo \in Nat \ {0}, NEW base, NEW a \in Fillings(lo, base)
    PROVE  TurnPage(a) \in Fillings(lo, base)
<1> DEFINE new == MmuAlloc(a.m, a.last, UserData)
<1>1. new.m \in Works(lo, base) /\ new.page \in Own(lo)
  BY AllocKeeps DEF Fillings, UserData, Flags
<1>2. TurnPage(a) = [a EXCEPT !.m = new.m, !.page = new.page, !.virt = a.last * PageSize,
                              !.last = a.last + 1, !.offset = 0]
  BY DEF TurnPage
<1>3. a.last * PageSize \in Int /\ a.last + 1 \in Int
  BY LoaderAssumption DEF Fillings
<1>4. ASSUME NEW m \in Works(lo, base), NEW page \in Own(lo), NEW virt \in Int, NEW last \in Int
      PROVE  [a EXCEPT !.m = m, !.page = page, !.virt = virt, !.last = last, !.offset = 0]
                \in Fillings(lo, base)
  <2>1. DEFINE b == [a EXCEPT !.m = m, !.page = page, !.virt = virt, !.last = last, !.offset = 0]
  <2>2. /\ b.m = m /\ b.page = page /\ b.virt = virt /\ b.last = last /\ b.offset = 0
        /\ b.strings = a.strings
        /\ DOMAIN b = {"m", "page", "virt", "offset", "last", "strings"}
    BY DEF Fillings
  <2>3. b = [f \in DOMAIN b |-> b[f]]
    OBVIOUS
  <2> HIDE DEF b
  <2>4. b \in Fillings(lo, base)
    BY <2>2, <2>3 DEF Fillings
  <2>5. QED
    BY <2>4 DEF b
<1> HIDE DEF new
<1>5. QED
  <2>1. [a EXCEPT !.m = new.m, !.page = new.page, !.virt = a.last * PageSize,
                  !.last = a.last + 1, !.offset = 0] \in Fillings(lo, base)
    BY <1>1, <1>3, <1>4, Zenon
  <2>2. QED
    BY <1>2, <2>1

\* One value is written to the page being filled, or the kernel faults.
LEMMA PutKeeps ==
    ASSUME NEW lo \in Nat \ {0}, NEW base, NEW a \in Fillings(lo, base), NEW value \in Value,
           NEW n \in Int
    PROVE  Put(a, value, n) \in Fillings(lo, base)
<1> DEFINE b == IF a.offset >= PageSize THEN TurnPage(a) ELSE a
<1>1. b \in Fillings(lo, base)
  BY TurnKeeps
<1>2. Put(a, value, n) = IF b.m.fault \/ b.page = NULL THEN [b EXCEPT !.m.fault = TRUE]
                         ELSE [b EXCEPT !.m.mem[b.page][b.offset] = value, !.offset = @ + n]
  BY DEF Put
<1> HIDE DEF b
<1>3. [b EXCEPT !.m.fault = TRUE] \in Fillings(lo, base)
  <2>1. [b.m EXCEPT !.fault = TRUE] \in Works(lo, base)
    BY <1>1 DEF Works, Fillings
  <2>2. [b EXCEPT !.m.fault = TRUE] = [b EXCEPT !.m = [b.m EXCEPT !.fault = TRUE]]
    BY <1>1 DEF Fillings
  <2>3. QED
    BY <1>1, <2>1, <2>2 DEF Fillings
<1>4. ASSUME b.page # NULL
      PROVE  [b EXCEPT !.m.mem[b.page][b.offset] = value, !.offset = @ + n] \in Fillings(lo, base)
  <2>1. DEFINE words == [b.m.mem[b.page] EXCEPT ![b.offset] = value]
               w == [b.m EXCEPT !.mem[b.page] = words]
  <2>2. /\ b.page \in lo .. NPages /\ b.page \in 1 .. NPages
        /\ b.m \in Works(lo, base) /\ b.offset + n \in Int
    BY <1>1, <1>4, LoaderAssumption DEF Fillings, Own
  <2>3. b.m.mem[b.page] \in [Words -> Value]
    BY <2>2 DEF Works, Mems, Frames
  <2>4. words \in [Words -> Value]
    BY <2>3
  <2>5. w \in Works(lo, base)
    <3> HIDE DEF words
    <3>1. QED
      BY <2>2, <2>4, WriteKeeps
  <2>6. [b EXCEPT !.m.mem[b.page][b.offset] = value, !.offset = @ + n]
          = [b EXCEPT !.m = w, !.offset = @ + n]
    BY <1>1 DEF Fillings
  <2> HIDE DEF w
  <2>7. QED
    BY <1>1, <2>2, <2>5, <2>6 DEF Fillings
<1>5. QED
  BY <1>2, <1>3, <1>4

\* The rounds of the loop over the characters of argument c.
ArgRounds(acc, a, args, c) ==
    /\ PutArg(a, args, c) = acc[args[c] + 1]
    /\ acc[0] = [a EXCEPT !.strings = Append(@, a.virt + a.offset)]
    /\ \A n \in 1 .. args[c] + 1 : acc[n] = Put(acc[n - 1], Char(c, n - 1), 1)

\* The loop over the characters of an argument.
LEMMA ArgRuns ==
    ASSUME NEW lo \in Nat \ {0}, NEW base, NEW a \in Fillings(lo, base), NEW args \in Seq(Nat),
           NEW c \in 1 .. Len(args)
    PROVE  \E acc : /\ ArgRounds(acc, a, args, c)
                    /\ \A n \in 0 .. args[c] + 1 : acc[n] \in Fillings(lo, base)
<1> DEFINE begun == [a EXCEPT !.strings = Append(@, a.virt + a.offset)]
<1>0. begun \in Fillings(lo, base)
  <2>1. Append(a.strings, a.virt + a.offset) \in Seq(Int)
    BY DEF Fillings
  <2>2. QED
    BY <2>1 DEF Fillings
<1> DEFINE S == Fillings(lo, base)
           k == args[c] + 1
           Loop(g) == [n \in 0 .. k |-> IF n = 0 THEN begun ELSE Put(g[n - 1], Char(c, n - 1), 1)]
           F == [x \in S \X (0 .. k - 1) |-> Put(x[1], Char(c, x[2]), 1)]
           acc == CHOOSE g : g = Loop(g)
<1>1. k \in Nat /\ begun \in S
  BY <1>0
<1>2. \A x \in S, i \in 0 .. k - 1 : Put(x, Char(c, i), 1) \in S
  <2>1. \A i \in 0 .. k - 1 : Char(c, i) \in Value
    BY DEF Char, Value
  <2>2. QED
    BY <2>1, PutKeeps
<1>3. PutArg(a, args, c) = acc[k]
  BY DEF PutArg
<1> HIDE DEF S, k, begun
<1>4. \E g : g = Loop(g)
  <2>2. \A x \in S, i \in 0 .. k - 1 : F[<<x, i>>] = Put(x, Char(c, i), 1)
    OBVIOUS
  <2> HIDE DEF F
  <2>1. Rounds(F, S, k)
    BY <1>2, <2>2 DEF Rounds
  <2>3. PICK g : g \in Passes(F, S, k, begun)
    BY <1>1, <2>1, LoopExists
  <2>4. \A n \in 0 .. k : n # 0 => n \in 1 .. k /\ n - 1 \in 0 .. k - 1 /\ g[n - 1] \in S
    BY <1>1, <2>3 DEF Passes
  <2>5. \A n \in 0 .. k : g[n] = Loop(g)[n]
    BY <2>2, <2>3, <2>4 DEF Passes
  <2>6. g = Loop(g)
    BY <2>3, <2>5 DEF Passes
  <2>7. QED
    BY <2>6
<1>5. acc = Loop(acc)
  BY <1>4
<1> HIDE DEF acc
<1>6. acc[0] \in S /\ \A n \in 1 .. k : acc[n - 1] \in S => acc[n] \in S
  BY <1>1, <1>2, <1>5
<1>7. ASSUME NEW j \in 0 .. k PROVE acc[j] \in S
  BY <1>1, <1>6, LoopStays
<1>8. acc[0] = begun /\ \A n \in 1 .. k : acc[n] = Put(acc[n - 1], Char(c, n - 1), 1)
  BY <1>1, <1>5
<1>9. QED
  BY <1>3, <1>7, <1>8 DEF ArgRounds, S, k, begun

\* It keeps the work.
LEMMA ArgKeeps ==
    ASSUME NEW lo \in Nat \ {0}, NEW base, NEW a \in Fillings(lo, base), NEW args \in Seq(Nat),
           NEW c \in 1 .. Len(args)
    PROVE  PutArg(a, args, c) \in Fillings(lo, base)
<1>1. args[c] + 1 \in 0 .. args[c] + 1
  OBVIOUS
<1>2. PICK acc : /\ ArgRounds(acc, a, args, c)
                 /\ \A n \in 0 .. args[c] + 1 : acc[n] \in Fillings(lo, base)
  BY ArgRuns
<1>3. QED
  BY <1>1, <1>2 DEF ArgRounds

\* The loop over the arguments, and the alignment of what follows.
LEMMA ArgsRun ==
    ASSUME NEW lo \in Nat \ {0}, NEW base, NEW a \in Fillings(lo, base), NEW args \in Seq(Nat)
    PROVE  \E acc : /\ PutArgs(a, args) = [acc[Len(args)] EXCEPT !.offset = @ + ((-@) % PtrSize)]
                    /\ acc[0] = a
                    /\ \A n \in 1 .. Len(args) : acc[n] = PutArg(acc[n - 1], args, n)
                    /\ \A n \in 0 .. Len(args) : acc[n] \in Fillings(lo, base)
<1> DEFINE S == Fillings(lo, base)
           k == Len(args)
           Loop(g) == [n \in 0 .. k |-> IF n = 0 THEN a ELSE PutArg(g[n - 1], args, n)]
           F == [x \in S \X (0 .. k - 1) |-> PutArg(x[1], args, x[2] + 1)]
           acc == CHOOSE g : g = Loop(g)
<1>1. k \in Nat /\ a \in S
  OBVIOUS
<1>2. \A x \in S, i \in 1 .. k : PutArg(x, args, i) \in S
  BY ArgKeeps
<1>3. PutArgs(a, args) = [acc[k] EXCEPT !.offset = @ + ((-@) % PtrSize)]
  BY DEF PutArgs
<1> HIDE DEF S, k
<1>4. \E g : g = Loop(g)
  <2>2. \A x \in S, i \in 0 .. k - 1 : F[<<x, i>>] = PutArg(x, args, i + 1)
    OBVIOUS
  <2> HIDE DEF F
  <2>1. Rounds(F, S, k)
    <3>1. \A i \in 0 .. k - 1 : i + 1 \in 1 .. k
      BY <1>1
    <3>2. QED
      BY <1>2, <2>2, <3>1 DEF Rounds
  <2>3. PICK g : g \in Passes(F, S, k, a)
    BY <1>1, <2>1, LoopExists
  <2>4. \A n \in 0 .. k : n # 0 => n \in 1 .. k /\ n - 1 \in 0 .. k - 1 /\ (n - 1) + 1 = n /\ g[n - 1] \in S
    BY <1>1, <2>3 DEF Passes
  <2>5. \A n \in 0 .. k : g[n] = Loop(g)[n]
    <3>1. \A n \in 0 .. k : n # 0 => g[n] = F[<<g[n - 1], n - 1>>]
      BY <2>3, <2>4 DEF Passes
    <3>2. \A n \in 0 .. k : n # 0 =>
             F[<<g[n - 1], n - 1>>] = PutArg(g[n - 1], args, (n - 1) + 1)
      BY <2>2, <2>4
    <3>3. \A n \in 0 .. k : n # 0 => g[n] = PutArg(g[n - 1], args, n)
      BY <2>4, <3>1, <3>2, Zenon
    <3>4. QED
      BY <2>3, <3>3 DEF Passes
  <2>6. g = Loop(g)
    BY <2>3, <2>5 DEF Passes
  <2>7. QED
    BY <2>6
<1>5. acc = Loop(acc)
  BY <1>4
<1> HIDE DEF acc
<1>6. acc[0] \in S /\ \A n \in 1 .. k : acc[n - 1] \in S => acc[n] \in S
  <2>1. acc[0] = a /\ \A n \in 1 .. k : acc[n] = PutArg(acc[n - 1], args, n)
    BY <1>1, <1>5
  <2>2. QED
    BY <1>1, <1>2, <2>1
<1>7. ASSUME NEW j \in 0 .. k PROVE acc[j] \in S
  BY <1>1, <1>6, LoopStays
<1>8. acc[0] = a /\ \A n \in 1 .. k : acc[n] = PutArg(acc[n - 1], args, n)
  BY <1>1, <1>5
<1>9. QED
  BY <1>3, <1>7, <1>8 DEF S, k

\* The alignment of what follows the arguments.
LEMMA AlignKeeps ==
    ASSUME NEW lo \in Nat \ {0}, NEW base, NEW a \in Fillings(lo, base)
    PROVE  [a EXCEPT !.offset = @ + ((-@) % PtrSize)] \in Fillings(lo, base)
<1>1. \A x \in Int : x + ((-x) % PtrSize) \in Int
  BY LoaderAssumption
<1>2. QED
  BY <1>1 DEF Fillings

\* It keeps the work.
LEMMA ArgsKeep ==
    ASSUME NEW lo \in Nat \ {0}, NEW base, NEW a \in Fillings(lo, base), NEW args \in Seq(Nat)
    PROVE  PutArgs(a, args) \in Fillings(lo, base)
<1>1. Len(args) \in Nat /\ Len(args) \in 0 .. Len(args)
  OBVIOUS
<1>2. QED
  BY <1>1, ArgsRun, AlignKeeps

\* The loop over the pointers.
LEMMA PointersRun ==
    ASSUME NEW lo \in Nat \ {0}, NEW base, NEW a \in Fillings(lo, base)
    PROVE  \E acc : /\ PutPointers(a) = acc[Len(a.strings)]
                    /\ acc[0] = a
                    /\ \A n \in 1 .. Len(a.strings) : acc[n] = Put(acc[n - 1], Ptr(a.strings[n]), PtrSize)
                    /\ \A n \in 0 .. Len(a.strings) : acc[n] \in Fillings(lo, base)
<1> DEFINE S == Fillings(lo, base)
           k == Len(a.strings)
           Loop(g) == [n \in 0 .. k |-> IF n = 0 THEN a ELSE Put(g[n - 1], Ptr(a.strings[n]), PtrSize)]
           F == [x \in S \X (0 .. k - 1) |-> Put(x[1], Ptr(a.strings[x[2] + 1]), PtrSize)]
           acc == CHOOSE g : g = Loop(g)
<1>1. k \in Nat /\ a \in S
  BY DEF Fillings
<1>2. \A x \in S, i \in 1 .. k : Put(x, Ptr(a.strings[i]), PtrSize) \in S
  <2>1. \A i \in 1 .. k : a.strings[i] \in Int
    BY DEF Fillings
  <2>2. \A i \in 1 .. k : Ptr(a.strings[i]) \in Value
    BY <2>1 DEF Ptr, Value
  <2>3. QED
    BY <2>2, LoaderAssumption, PutKeeps
<1>3. PutPointers(a) = acc[k]
  BY DEF PutPointers
<1> HIDE DEF S, k
<1>4. \E g : g = Loop(g)
  <2>2. \A x \in S, i \in 0 .. k - 1 : F[<<x, i>>] = Put(x, Ptr(a.strings[i + 1]), PtrSize)
    OBVIOUS
  <2> HIDE DEF F
  <2>1. Rounds(F, S, k)
    <3>1. \A i \in 0 .. k - 1 : i + 1 \in 1 .. k
      BY <1>1
    <3>2. QED
      BY <1>2, <2>2, <3>1 DEF Rounds
  <2>3. PICK g : g \in Passes(F, S, k, a)
    BY <1>1, <2>1, LoopExists
  <2>4. \A n \in 0 .. k : n # 0 => n \in 1 .. k /\ n - 1 \in 0 .. k - 1 /\ (n - 1) + 1 = n /\ g[n - 1] \in S
    BY <1>1, <2>3 DEF Passes
  <2>5. \A n \in 0 .. k : g[n] = Loop(g)[n]
    <3>1. \A n \in 0 .. k : n # 0 => g[n] = F[<<g[n - 1], n - 1>>]
      BY <2>3, <2>4 DEF Passes
    <3>2. \A n \in 0 .. k : n # 0 =>
             F[<<g[n - 1], n - 1>>] = Put(g[n - 1], Ptr(a.strings[(n - 1) + 1]), PtrSize)
      BY <2>2, <2>4
    <3>3. \A n \in 0 .. k : n # 0 => g[n] = Put(g[n - 1], Ptr(a.strings[n]), PtrSize)
      BY <2>4, <3>1, <3>2, Zenon
    <3>4. QED
      BY <2>3, <3>3 DEF Passes
  <2>6. g = Loop(g)
    BY <2>3, <2>5 DEF Passes
  <2>7. QED
    BY <2>6
<1>5. acc = Loop(acc)
  BY <1>4
<1> HIDE DEF acc
<1>6. acc[0] \in S /\ \A n \in 1 .. k : acc[n - 1] \in S => acc[n] \in S
  <2>1. acc[0] = a /\ \A n \in 1 .. k : acc[n] = Put(acc[n - 1], Ptr(a.strings[n]), PtrSize)
    BY <1>1, <1>5
  <2>2. QED
    BY <1>1, <1>2, <2>1
<1>7. ASSUME NEW j \in 0 .. k PROVE acc[j] \in S
  BY <1>1, <1>6, LoopStays
<1>8. acc[0] = a /\ \A n \in 1 .. k : acc[n] = Put(acc[n - 1], Ptr(a.strings[n]), PtrSize)
  BY <1>1, <1>5
<1>9. QED
  BY <1>3, <1>7, <1>8 DEF S, k

\* It keeps the work.
LEMMA PointersKeep ==
    ASSUME NEW lo \in Nat \ {0}, NEW base, NEW a \in Fillings(lo, base)
    PROVE  PutPointers(a) \in Fillings(lo, base)
<1>1. Len(a.strings) \in Nat
  BY DEF Fillings
<1>2. QED
  BY <1>1, PointersRun

-----------------------------------------------------------------------------
(* What the arguments leave in memory.                                      *)

\* The address at which the next value is written.
Pos(a) == a.virt + a.offset

\* The page that is being filled is mapped for the user, where it should be and
\* nowhere else.
Open(a) ==
    /\ a.last - 1 \in Virt /\ a.virt = (a.last - 1) * PageSize /\ a.offset \in 0 .. PageSize
    /\ a.page # NULL /\ a.m.map[a.last - 1].page = a.page
    /\ "U" \in a.m.map[a.last - 1].flags
    /\ \A v \in Virt : v # a.last - 1 => a.m.map[v].page # a.page

\* The task will find a value at address x, below what is still to be written.
Shows(a, x, value) ==
    /\ x \in Nat /\ x < Pos(a)
    /\ "U" \in a.m.map[x \div PageSize].flags /\ a.m.map[x \div PageSize].page # NULL
    /\ a.m.mem[a.m.map[x \div PageSize].page][x % PageSize] = value

\* A new page is mapped at one place, behind what was there.
LEMMA TurnOpens ==
    ASSUME NEW lo \in Nat \ {0}, NEW base, NEW a \in Fillings(lo, base), a.last \in Virt,
           TurnPage(a).page # NULL
    PROVE  LET b == TurnPage(a)
           IN /\ Open(b) /\ b.offset = 0 /\ b.virt = a.last * PageSize /\ b.strings = a.strings
              /\ b.m.fault = a.m.fault /\ b.m.mem = a.m.mem
              /\ \A u \in Virt : a.m.map[u] # Unmapped => b.m.map[u] = a.m.map[u]
<1> DEFINE new == MmuAlloc(a.m, a.last, UserData)
           b == TurnPage(a)
<1>1. /\ a.m \in Works(lo, base) /\ UserData \in Flags /\ "U" \in UserData /\ a.last \in Int
      /\ PageSize \in Nat \ {0}
  BY LoaderAssumption DEF Fillings, UserData, Flags
<1>2. /\ new.m.fault = a.m.fault /\ new.m.mem = a.m.mem
      /\ \A u \in Virt : u # a.last => new.m.map[u] = a.m.map[u]
      /\ a.m.map[a.last] # Unmapped => new.page = NULL
      /\ a.m.map[a.last] = Unmapped => new.m.map[a.last] = [page |-> new.page, flags |-> UserData]
      /\ new.page # NULL => new.page = a.m.fresh
      /\ new.m \in Works(lo, base) /\ new.page \in Own(lo)
  BY <1>1, AllocOnly, AllocKeeps
<1>3. b = [a EXCEPT !.m = new.m, !.page = new.page, !.virt = a.last * PageSize,
                    !.last = a.last + 1, !.offset = 0]
  BY DEF TurnPage
<1> HIDE DEF new, b
<1>4. /\ b.m = new.m /\ b.page = new.page /\ b.virt = a.last * PageSize /\ b.last = a.last + 1
      /\ b.offset = 0 /\ b.strings = a.strings
  BY <1>3 DEF Fillings
<1>5. new.page # NULL /\ new.page = a.m.fresh /\ a.m.map[a.last] = Unmapped /\ new.page \in lo .. NPages
  BY <1>2, <1>4 DEF b, Own
<1>6. ASSUME NEW v \in Virt, v # a.last PROVE new.m.map[v].page # new.page
  <2>1. new.m.map[v] = a.m.map[v]
    BY <1>2, <1>6
  <2>2. CASE v \in KernelPages
    <3>1. a.m.map[v].page = KernelFrame(v) /\ KernelFrame(v) \notin 0 .. NPages
      BY <1>1, <2>2, KernelEntries DEF Works
    <3>2. QED
      BY <1>5, <2>1, <3>1
  <2>3. CASE v \notin KernelPages
    <3>1. a.m.map[v].page = NULL \/ a.m.map[v].page \in lo .. a.m.fresh - 1
      BY <1>1, <2>3 DEF Works
    <3>2. a.m.fresh \in Nat
      BY <1>1, LoaderAssumption DEF Works
    <3>3. QED
      BY <1>5, <2>1, <3>1, <3>2
  <2>4. QED
    BY <2>2, <2>3
<1>7. /\ b.last - 1 = a.last /\ 0 \in 0 .. PageSize
      /\ new.m.map[a.last].page = new.page /\ new.m.map[a.last].flags = UserData
  BY <1>1, <1>2, <1>4, <1>5
<1>8. Open(b)
  BY <1>1, <1>4, <1>5, <1>6, <1>7 DEF Open
<1>9. \A u \in Virt : a.m.map[u] # Unmapped => b.m.map[u] = a.m.map[u]
  BY <1>2, <1>4, <1>5
<1>10. QED
  BY <1>2, <1>4, <1>8, <1>9 DEF b

\* One value appears at the address it was written to, and nothing else changes.
LEMMA PutShows ==
    ASSUME NEW lo \in Nat \ {0}, NEW base, NEW a \in Fillings(lo, base), Open(a),
           NEW value \in Value, NEW n \in Nat \ {0},
           n =< PageSize, a.offset < PageSize => a.offset + n =< PageSize,
           Pos(a) < NVirt * PageSize, ~Put(a, value, n).m.fault
    PROVE  LET b == Put(a, value, n)
           IN /\ Open(b) /\ Pos(b) = Pos(a) + n /\ b.strings = a.strings
              /\ b.offset = (IF a.offset < PageSize THEN a.offset ELSE 0) + n
              /\ Shows(b, Pos(a), value)
              /\ \A x, val : Shows(a, x, val) => Shows(b, x, val)
<1> DEFINE c == IF a.offset >= PageSize THEN TurnPage(a) ELSE a
           b == Put(a, value, n)
<1>1. /\ PageSize \in Nat \ {0} /\ NVirt \in Nat /\ a.offset \in Nat /\ a.last \in Int
      /\ a.virt = (a.last - 1) * PageSize /\ a.last - 1 \in Virt /\ a.offset =< PageSize
      /\ a.virt \in Int
  BY LoaderAssumption DEF Open, Fillings
<1>2. c \in Fillings(lo, base)
  BY TurnKeeps
<1>3. b = IF c.m.fault \/ c.page = NULL THEN [c EXCEPT !.m.fault = TRUE]
          ELSE [c EXCEPT !.m.mem[c.page][c.offset] = value, !.offset = @ + n]
  BY DEF Put
<1>4. ~c.m.fault /\ c.page # NULL
  <2> HIDE DEF c
  <2>1. [c EXCEPT !.m.fault = TRUE].m.fault
    BY <1>2 DEF Fillings, Works
  <2>2. QED
    BY <1>3, <2>1 DEF b
<1>5. /\ Open(c) /\ Pos(c) = Pos(a) /\ c.strings = a.strings
      /\ c.offset = IF a.offset < PageSize THEN a.offset ELSE 0
      /\ \A x, val : Shows(a, x, val) => Shows(c, x, val)
  <2>1. CASE a.offset < PageSize
    <3>1. c = a
      BY <1>1, <2>1
    <3>2. QED
      BY <2>1, <3>1
  <2>2. CASE ~(a.offset < PageSize)
    <3>1. c = TurnPage(a) /\ a.offset = PageSize
      BY <1>1, <2>2
    <3>2. (a.last - 1 + 1) * PageSize = (a.last - 1) * PageSize + PageSize /\ a.last - 1 + 1 = a.last
          /\ a.last - 1 \in Int
      BY <1>1, Times
    <3>3. Pos(a) = a.last * PageSize
      BY <1>1, <3>1, <3>2 DEF Pos
    <3>4. a.last < NVirt
      BY <1>1, <3>3, Times
    <3>5. a.last \in Virt
      BY <1>1, <3>4 DEF Virt
    <3>6. /\ Open(c) /\ c.offset = 0 /\ c.virt = a.last * PageSize /\ c.strings = a.strings
          /\ c.m.mem = a.m.mem
          /\ \A u \in Virt : a.m.map[u] # Unmapped => c.m.map[u] = a.m.map[u]
      BY <1>4, <3>1, <3>5, TurnOpens
    <3> HIDE DEF c
    <3>7. Pos(c) = Pos(a)
      BY <1>1, <3>3, <3>6, Times DEF Pos
    <3>8. ASSUME NEW x, NEW val, Shows(a, x, val) PROVE Shows(c, x, val)
      <4>1. x \in Nat /\ x < Pos(a) /\ a.m.map[x \div PageSize] # Unmapped
        BY <3>8 DEF Shows, Unmapped
      <4>2. x \div PageSize \in Virt
        <5>1. x < NVirt * PageSize
          BY <1>1, <4>1 DEF Pos
        <5>2. x \div PageSize \in Int /\ (x \div PageSize) * PageSize =< x /\ x < (x \div PageSize) * PageSize + PageSize
          BY <1>1, <4>1, DivFacts
        <5> DEFINE d == x \div PageSize
        <5> HIDE DEF d
        <5>3. d * PageSize < NVirt * PageSize /\ (-1) * PageSize < d * PageSize
          BY <1>1, <4>1, <5>1, <5>2, Times DEF d
        <5>4. d \in Int /\ d < NVirt /\ -1 < d
          BY <1>1, <5>2, <5>3, Times DEF d
        <5>5. QED
          BY <1>1, <5>4 DEF Virt, d
      <4>3. c.m.map[x \div PageSize] = a.m.map[x \div PageSize]
        BY <3>6, <4>1, <4>2
      <4>4. QED
        BY <3>6, <3>7, <3>8, <4>3 DEF Shows
    <3>9. QED
      BY <2>2, <3>6, <3>7, <3>8
  <2>3. QED
    BY <2>1, <2>2
<1> HIDE DEF c, b
<1>6. /\ c.offset \in Nat /\ c.offset < PageSize /\ c.offset + n =< PageSize
      /\ c.virt = (c.last - 1) * PageSize /\ c.last - 1 \in Virt /\ c.virt \in Int
      /\ c.page \in lo .. NPages /\ c.page \in 1 .. NPages
  BY <1>1, <1>2, <1>4, <1>5 DEF Open, Fillings, Own
<1>7. /\ c.m.mem \in Mems /\ c.page \in Frames /\ c.m.mem[c.page] \in [Words -> Value] /\ c.offset \in Words
  <2>1. c.m.mem \in Mems
    BY <1>2 DEF Fillings, Works
  <2>2. c.page \in Frames
    BY <1>6 DEF Frames
  <2>3. c.offset \in Words
    BY <1>1, <1>6 DEF Words
  <2>4. QED
    BY <2>1, <2>2, <2>3 DEF Mems
<1>8. b = [c EXCEPT !.m.mem[c.page][c.offset] = value, !.offset = @ + n]
  BY <1>3, <1>4
<1>9. /\ b.m.map = c.m.map /\ b.virt = c.virt /\ b.last = c.last /\ b.page = c.page
      /\ b.strings = c.strings /\ b.offset = c.offset + n
      /\ b.m.mem = [c.m.mem EXCEPT ![c.page] = [c.m.mem[c.page] EXCEPT ![c.offset] = value]]
  BY <1>2, <1>8 DEF Fillings, Works
<1>10. Open(b)
  BY <1>1, <1>5, <1>6, <1>9 DEF Open
<1>11. Pos(b) = Pos(c) + n /\ Pos(c) \in Int /\ Pos(c) < Pos(b)
  BY <1>6, <1>9 DEF Pos
<1>12. Pos(c) \in Nat /\ Pos(c) \div PageSize = c.last - 1 /\ Pos(c) % PageSize = c.offset
  <2> DEFINE q == c.last - 1
             p == Pos(c)
  <2>1. q \in Int /\ q \in Nat /\ p = q * PageSize + c.offset /\ q * PageSize \in Nat
    BY <1>1, <1>6 DEF Pos, Virt
  <2> HIDE DEF q, p
  <2>2. p \in Int /\ p \in Nat /\ q * PageSize =< p /\ p < q * PageSize + PageSize /\ p - q * PageSize = c.offset
    BY <1>1, <1>6, <2>1
  <2>3. p \div PageSize = q /\ p % PageSize = p - q * PageSize
    BY <1>1, <2>1, <2>2, Quotient
  <2>4. QED
    BY <2>2, <2>3 DEF p, q
<1>13. Shows(b, Pos(c), value)
  <2>1. b.m.mem[c.page][c.offset] = value
    BY <1>7, <1>9 DEF Mems
  <2>2. c.m.map[c.last - 1].page = c.page /\ "U" \in c.m.map[c.last - 1].flags
    BY <1>5 DEF Open
  <2>3. QED
    BY <1>4, <1>9, <1>11, <1>12, <2>1, <2>2 DEF Shows
<1>14. ASSUME NEW x, NEW val, Shows(c, x, val) PROVE Shows(b, x, val)
  <2> DEFINE v == x \div PageSize
             w == x % PageSize
  <2>1. x \in Nat /\ x < Pos(c) /\ "U" \in c.m.map[v].flags /\ c.m.map[v].page # NULL
        /\ c.m.mem[c.m.map[v].page][w] = val
    BY <1>14 DEF Shows
  <2>2. v \in Int /\ v * PageSize =< x /\ w = x - v * PageSize /\ x < v * PageSize + PageSize
    <3>1. x \in Int
      BY <2>1
    <3>2. QED
      BY <1>1, <3>1, DivFacts
  <2> HIDE DEF v, w
  <2>3. v \in Virt
    <3>1. c.last \in Int /\ (c.last - 1 + 1) * PageSize = (c.last - 1) * PageSize + PageSize
          /\ c.last - 1 + 1 = c.last /\ c.last \in Nat /\ c.last =< NVirt
      <4>1. c.last \in Int /\ c.last - 1 \in 0 .. NVirt - 1
        BY <1>2, <1>6 DEF Fillings, Virt
      <4>2. QED
        BY <1>1, <4>1, Times
    <3>2. v * PageSize < c.last * PageSize /\ (-1) * PageSize < v * PageSize
      BY <1>1, <1>6, <2>1, <2>2, <3>1, Times DEF Pos
    <3>3. v < c.last /\ -1 < v
      BY <1>1, <2>2, <3>1, <3>2, Times
    <3>4. QED
      BY <1>1, <2>2, <3>1, <3>3 DEF Virt
  <2>4. CASE v = c.last - 1
    <3>1. w # c.offset
      BY <1>6, <2>1, <2>2, <2>4 DEF Pos
    <3>2. c.m.map[v].page = c.page
      BY <1>5, <2>4 DEF Open
    <3>3. b.m.mem[c.page][w] = c.m.mem[c.page][w]
      BY <1>7, <1>9, <3>1, SMTT(30) DEF Mems
    <3>4. QED
      BY <1>9, <1>11, <2>1, <3>2, <3>3 DEF Shows, v, w
  <2>5. CASE v # c.last - 1
    <3>1. c.m.map[v].page # c.page
      BY <1>5, <2>3, <2>5 DEF Open
    <3>2. b.m.mem[c.m.map[v].page] = c.m.mem[c.m.map[v].page]
      BY <1>7, <1>9, <3>1 DEF Mems
    <3>3. QED
      BY <1>9, <1>11, <2>1, <3>2 DEF Shows, v, w
  <2>6. QED
    BY <2>4, <2>5
<1>15. QED
  BY <1>5, <1>9, <1>10, <1>11, <1>13, <1>14 DEF b

\* No page could be had for the arguments.
Stuck(a) == a.page = NULL /\ a.offset = 0

\* Without a page, the first value makes the kernel fault, and a fault is not undone.
LEMMA FaultStays ==
    ASSUME NEW lo \in Nat \ {0}, NEW base, NEW a \in Fillings(lo, base), a.m.fault \/ Stuck(a),
           NEW value \in Value, NEW n \in Int
    PROVE  Put(a, value, n).m.fault
<1>1. CASE a.m.fault
  <2>1. a \in Fillings(lo, a.m)
    BY DEF Fillings, Works
  <2>2. Put(a, value, n) \in Fillings(lo, a.m)
    BY <2>1, PutKeeps
  <2>3. QED
    BY <1>1, <2>2 DEF Fillings, Works
<1>2. CASE Stuck(a)
  <2>1. ~(a.offset >= PageSize)
    BY <1>2, LoaderAssumption DEF Stuck
  <2>2. Put(a, value, n) = [a EXCEPT !.m.fault = TRUE]
    BY <1>2, <2>1 DEF Put, Stuck
  <2>3. QED
    BY <2>2 DEF Fillings, Works
<1>3. QED
  BY <1>1, <1>2

\* The characters of one argument and the 0 behind them.
LEMMA ArgShows ==
    ASSUME NEW lo \in Nat \ {0}, NEW base, NEW a \in Fillings(lo, base), Stuck(a) \/ Open(a),
           NEW args \in Seq(Nat), NEW c \in 1 .. Len(args),
           Open(a) => Pos(a) + args[c] + 1 =< NVirt * PageSize, ~PutArg(a, args, c).m.fault
    PROVE  LET b == PutArg(a, args, c)
           IN /\ Open(a) /\ Open(b) /\ Pos(b) = Pos(a) + args[c] + 1
              /\ b.strings = Append(a.strings, Pos(a))
              /\ \A j \in 0 .. args[c] : Shows(b, Pos(a) + j, Char(c, j))
              /\ \A x, val : Shows(a, x, val) => Shows(b, x, val)
<1> DEFINE k == args[c] + 1
           begun == [a EXCEPT !.strings = Append(@, a.virt + a.offset)]
<1>1. k \in Nat \ {0} /\ PageSize \in Nat \ {0} /\ NVirt \in Nat /\ Pos(a) \in Int
  BY LoaderAssumption DEF Fillings, Pos
<1>2. PICK acc : ArgRounds(acc, a, args, c) /\ \A n \in 0 .. args[c] + 1 : acc[n] \in Fillings(lo, base)
  BY ArgRuns
<1>3. /\ PutArg(a, args, c) = acc[k] /\ acc[0] = begun
      /\ \A n \in 1 .. k : acc[n] = Put(acc[n - 1], Char(c, n - 1), 1)
      /\ \A n \in 0 .. k : acc[n] \in Fillings(lo, base)
  BY <1>2 DEF ArgRounds
<1>4. /\ begun.m = a.m /\ begun.page = a.page /\ begun.virt = a.virt /\ begun.offset = a.offset
      /\ begun.last = a.last /\ begun.strings = Append(a.strings, Pos(a))
  BY DEF Fillings, Pos
<1>5. \A n \in 1 .. k : Char(c, n - 1) \in Value
  BY <1>1 DEF Char, Value
<1>6. k = args[c] + 1 /\ args[c] \in Nat
  OBVIOUS
<1> HIDE DEF k, begun
<1>7. CASE Stuck(a)
  <2> DEFINE S == [n \in 0 .. k |-> {x \in Fillings(lo, base) : x.m.fault \/ (n = 0 /\ Stuck(x))}]
  <2>1. acc[0] \in S[0]
    BY <1>1, <1>3, <1>4, <1>7 DEF Stuck
  <2>2. ASSUME NEW n \in 1 .. k, acc[n - 1] \in S[n - 1] PROVE acc[n] \in S[n]
    <3>1. /\ n - 1 \in 0 .. k /\ n \in 0 .. k /\ acc[n - 1] \in Fillings(lo, base)
          /\ acc[n - 1].m.fault \/ Stuck(acc[n - 1])
      BY <1>1, <2>2
    <3>2. acc[n].m.fault
      BY <1>3, <1>5, <3>1, FaultStays
    <3>3. QED
      BY <1>3, <3>1, <3>2
  <2> HIDE DEF S
  <2>3. acc[k] \in S[k]
    BY <1>1, <2>1, <2>2, LoopCounts
  <2>4. acc[k].m.fault
    BY <1>1, <2>3 DEF S
  <2>5. QED
    BY <1>3, <2>4
<1>8. CASE Open(a)
  <2> DEFINE Keeps(x) == \A y, val : Shows(a, y, val) => Shows(x, y, val)
             Written(x, n) == \A j \in 0 .. n - 1 : Shows(x, Pos(a) + j, Char(c, j))
             After(x, n) == /\ Open(x) /\ Pos(x) = Pos(a) + n /\ x.strings = begun.strings
                            /\ Written(x, n) /\ Keeps(x)
             S == [n \in 0 .. k |-> {x \in Fillings(lo, base) : x.m.fault \/ After(x, n)}]
  <2>1. acc[0] \in S[0]
    <3>1. Open(begun) /\ Pos(begun) = Pos(a) + 0
      BY <1>1, <1>4, <1>8 DEF Open, Pos
    <3>2. Keeps(begun)
      BY <1>4 DEF Shows, Pos
    <3>3. Written(begun, 0)
      OBVIOUS
    <3> HIDE DEF Keeps, Written
    <3>4. QED
      BY <1>1, <1>3, <3>1, <3>2, <3>3
  <2>2. ASSUME NEW n \in 1 .. k, acc[n - 1] \in S[n - 1] PROVE acc[n] \in S[n]
    <3> DEFINE x == acc[n - 1]
               y == acc[n]
    <3>1. /\ n - 1 \in 0 .. k /\ n \in 0 .. k /\ n - 1 \in Nat /\ n - 1 < k /\ x \in Fillings(lo, base)
          /\ y \in Fillings(lo, base) /\ y = Put(x, Char(c, n - 1), 1)
      BY <1>1, <1>3, <2>2
    <3>2. x.m.fault \/ After(x, n - 1)
      <4> HIDE DEF After
      <4>1. QED
        BY <2>2, <3>1
    <3> HIDE DEF x, y
    <3>3. CASE x.m.fault
      <4>1. y.m.fault
        BY <1>5, <3>1, <3>3, FaultStays
      <4>2. QED
        BY <3>1, <4>1 DEF y
    <3>4. CASE After(x, n - 1) /\ ~y.m.fault
      <4>0. Open(x) /\ Pos(x) = Pos(a) + (n - 1) /\ x.strings = begun.strings /\ Written(x, n - 1) /\ Keeps(x)
        BY <3>4
      <4> HIDE DEF After, Written, Keeps
      <4>1. NVirt * PageSize \in Int /\ Pos(a) + k =< NVirt * PageSize
        BY <1>1, <1>6, <1>8
      <4>2. Pos(x) < NVirt * PageSize /\ (x.offset < PageSize => x.offset + 1 =< PageSize) /\ 1 =< PageSize
        BY <1>1, <3>1, <4>0, <4>1 DEF Open
      <4>3. /\ Open(y) /\ Pos(y) = Pos(x) + 1 /\ y.strings = x.strings
            /\ Shows(y, Pos(x), Char(c, n - 1))
            /\ \A z, val : Shows(x, z, val) => Shows(y, z, val)
        BY <1>5, <3>1, <3>4, <4>0, <4>2, PutShows
      <4>4. Pos(y) = Pos(a) + n
        BY <1>1, <3>1, <4>0, <4>3
      <4>5. Keeps(y)
        BY <4>0, <4>3 DEF Keeps
      <4>6. Written(y, n)
        <5> SUFFICES ASSUME NEW j \in 0 .. n - 1 PROVE Shows(y, Pos(a) + j, Char(c, j))
          BY DEF Written
        <5>1. CASE j = n - 1
          BY <4>0, <4>3, <5>1
        <5>2. CASE j # n - 1
          <6>1. j \in 0 .. (n - 1) - 1
            BY <3>1, <5>2
          <6>2. QED
            BY <4>0, <4>3, <6>1 DEF Written
        <5>3. QED
          BY <5>1, <5>2
      <4>7. After(y, n)
        BY <4>0, <4>3, <4>4, <4>5, <4>6 DEF After
      <4>8. QED
        BY <3>1, <4>7 DEF y
    <3>5. CASE y.m.fault
      BY <3>1, <3>5 DEF y
    <3>6. QED
      BY <3>2, <3>3, <3>4, <3>5
  <2>3. acc[k] \in S[k]
    <3> HIDE DEF S
    <3>1. QED
      BY <1>1, <2>1, <2>2, LoopCounts
  <2>4. After(acc[k], k)
    <3> HIDE DEF After
    <3>1. QED
      BY <1>1, <1>3, <2>3
  <2>5. /\ Open(acc[k]) /\ Pos(acc[k]) = Pos(a) + k /\ acc[k].strings = begun.strings
        /\ \A j \in 0 .. k - 1 : Shows(acc[k], Pos(a) + j, Char(c, j))
        /\ \A y, val : Shows(a, y, val) => Shows(acc[k], y, val)
    BY <2>4
  <2>6. k - 1 = args[c] /\ Pos(a) + k = Pos(a) + args[c] + 1
    BY <1>1, <1>6, SMTT(30)
  <2>7. QED
    BY <1>3, <1>4, <1>8, <2>5, <2>6
<1>9. QED
  BY <1>7, <1>8

\* The first n arguments are in memory, at the addresses noted for them.
Told(a, args, n) ==
    /\ Len(a.strings) = n
    /\ \A k \in 1 .. n : /\ a.strings[k] \in 0 .. NVirt * PageSize - 1
                         /\ \A j \in 0 .. args[k] : Shows(a, a.strings[k] + j, Char(k, j))

\* One argument more.
LEMMA ArgTells ==
    ASSUME NEW lo \in Nat \ {0}, NEW base, NEW a \in Fillings(lo, base), Stuck(a) \/ Open(a),
           NEW args \in Seq(Nat), NEW c \in 1 .. Len(args), Told(a, args, c - 1),
           Open(a) => Pos(a) + args[c] + 1 =< NVirt * PageSize, ~PutArg(a, args, c).m.fault
    PROVE  LET b == PutArg(a, args, c)
           IN Open(a) /\ Open(b) /\ Pos(b) = Pos(a) + args[c] + 1 /\ Told(b, args, c)
<1> DEFINE b == PutArg(a, args, c)
<1>1. /\ Open(a) /\ Open(b) /\ Pos(b) = Pos(a) + args[c] + 1
      /\ b.strings = Append(a.strings, Pos(a))
      /\ \A j \in 0 .. args[c] : Shows(b, Pos(a) + j, Char(c, j))
      /\ \A x, val : Shows(a, x, val) => Shows(b, x, val)
  BY ArgShows
<1> HIDE DEF b
<1>2. a.strings \in Seq(Int) /\ Len(a.strings) = c - 1 /\ args[c] \in Nat /\ c \in Nat
  BY DEF Fillings, Told
<1>3. PageSize \in Nat \ {0} /\ NVirt \in Nat /\ NVirt * PageSize \in Nat
  BY LoaderAssumption
<1>4. Pos(a) \in 0 .. NVirt * PageSize - 1
  <2>1. a.last - 1 \in Nat /\ a.virt = (a.last - 1) * PageSize /\ a.offset \in Nat
    BY <1>1, <1>3, SMTT(30) DEF Open, Virt
  <2>2. a.virt \in Nat
    BY <1>3, <2>1
  <2>3. Pos(a) \in Nat
    BY <2>1, <2>2 DEF Pos
  <2>4. Pos(a) + args[c] + 1 =< NVirt * PageSize
    BY <1>1
  <2>5. QED
    BY <1>2, <1>3, <2>3, <2>4
<1>5. Len(b.strings) = c /\ b.strings[c] = Pos(a) /\ \A k \in 1 .. c - 1 : b.strings[k] = a.strings[k]
  <2>1. Pos(a) \in Int
    BY <1>4
  <2>2. QED
    BY <1>1, <1>2, <2>1, SMTT(30)
<1>6. ASSUME NEW k \in 1 .. c
      PROVE  /\ b.strings[k] \in 0 .. NVirt * PageSize - 1
             /\ \A j \in 0 .. args[k] : Shows(b, b.strings[k] + j, Char(k, j))
  <2>1. CASE k = c
    BY <1>1, <1>4, <1>5, <2>1
  <2>2. CASE k # c
    <3>1. k \in 1 .. c - 1 /\ b.strings[k] = a.strings[k]
      BY <1>2, <1>5, <2>2
    <3>2. a.strings[k] \in 0 .. NVirt * PageSize - 1 /\ \A j \in 0 .. args[k] : Shows(a, a.strings[k] + j, Char(k, j))
      BY <3>1 DEF Told
    <3>3. QED
      BY <1>1, <3>1, <3>2
  <2>3. QED
    BY <2>1, <2>2
<1>7. Told(b, args, c)
  BY <1>5, <1>6 DEF Told
<1>8. QED
  BY <1>1, <1>7 DEF b

\* A fault is not undone by the arguments that follow.
LEMMA ArgFaults ==
    ASSUME NEW lo \in Nat \ {0}, NEW base, NEW a \in Fillings(lo, base), a.m.fault,
           NEW args \in Seq(Nat), NEW c \in 1 .. Len(args)
    PROVE  PutArg(a, args, c).m.fault
<1>1. a \in Fillings(lo, a.m)
  BY DEF Fillings, Works
<1>2. PutArg(a, args, c) \in Fillings(lo, a.m)
  BY <1>1, ArgKeeps
<1>3. QED
  BY <1>2 DEF Fillings, Works

\* Moving on to the next multiple of a pointer's size stays on the page.
LEMMA AlignShows ==
    ASSUME NEW lo \in Nat \ {0}, NEW base, NEW a \in Fillings(lo, base), Open(a)
    PROVE  LET b == [a EXCEPT !.offset = @ + ((-@) % PtrSize)]
           IN /\ Open(b) /\ Pos(a) =< Pos(b) /\ Pos(b) < Pos(a) + PtrSize
              /\ b.m = a.m /\ b.strings = a.strings
              /\ \E d \in Nat : b.offset = d * PtrSize
              /\ \A x, val : Shows(a, x, val) => Shows(b, x, val)
<1> DEFINE off == a.offset
           q == (-off) \div PtrSize
           b == [a EXCEPT !.offset = @ + ((-@) % PtrSize)]
<1>1. /\ PtrSize \in Nat \ {0} /\ PageSize \in Nat \ {0} /\ off \in Nat /\ off =< PageSize /\ -off \in Int
      /\ a.virt \in Int
  BY LoaderAssumption DEF Open, Fillings
<1>2. PICK c \in Nat \ {0} : PageSize = c * PtrSize
  BY PointersPerPage
<1>3. /\ q \in Int /\ q * PtrSize =< -off /\ -off < q * PtrSize + PtrSize
      /\ (-off) % PtrSize = -off - q * PtrSize
  BY <1>1, DivFacts
<1>4. /\ b.offset = off + ((-off) % PtrSize) /\ b.m = a.m /\ b.page = a.page /\ b.virt = a.virt
      /\ b.last = a.last /\ b.strings = a.strings
  BY DEF Fillings
<1> HIDE DEF q, b, off
<1> DEFINE d == -q
<1>5. d \in Int /\ d * PtrSize = -(q * PtrSize) /\ q * PtrSize \in Int
  BY <1>1, <1>3
<1> HIDE DEF d
<1>6. b.offset = d * PtrSize /\ off =< b.offset /\ b.offset < off + PtrSize /\ b.offset \in Int
  BY <1>1, <1>3, <1>4, <1>5
<1>7. d < c + 1 /\ -1 < d
  <2>1. (c + 1) * PtrSize = c * PtrSize + PtrSize /\ d * PtrSize < (c + 1) * PtrSize
    BY <1>1, <1>2, <1>6, Times
  <2>2. (-1) * PtrSize = -PtrSize /\ (-1) * PtrSize < d * PtrSize
    BY <1>1, <1>6
  <2>3. c + 1 \in Int /\ -1 \in Int
    BY <1>2
  <2>4. QED
    BY <1>1, <1>5, <2>1, <2>2, <2>3, Times
<1>8. d \in Nat /\ d =< c
  BY <1>2, <1>5, <1>7
<1>9. b.offset =< PageSize
  BY <1>1, <1>2, <1>6, <1>8, Times
<1>10. Open(b)
  BY <1>1, <1>4, <1>6, <1>9 DEF Open
<1>11. Pos(a) \in Int /\ Pos(b) \in Int /\ Pos(a) =< Pos(b) /\ Pos(b) < Pos(a) + PtrSize
  BY <1>1, <1>4, <1>6 DEF Pos, off
<1>12. \A x, val : Shows(a, x, val) => Shows(b, x, val)
  BY <1>4, <1>11 DEF Shows
<1>13. QED
  BY <1>4, <1>6, <1>8, <1>10, <1>11, <1>12 DEF b

\* All arguments.
LEMMA ArgsShow ==
    ASSUME NEW lo \in Nat \ {0}, NEW base, NEW a \in Fillings(lo, base), Stuck(a) \/ Open(a),
           a.strings = <<>>, NEW args \in Seq(Nat), Len(args) # 0,
           Open(a) => Pos(a) + TextLen(args) =< NVirt * PageSize, ~PutArgs(a, args).m.fault
    PROVE  LET b == PutArgs(a, args)
           IN /\ Open(a) /\ Open(b) /\ Told(b, args, Len(args))
              /\ Pos(b) < Pos(a) + TextLen(args) + PtrSize
              /\ \E d \in Nat : b.offset = d * PtrSize
<1> DEFINE k == Len(args)
<1>1. PICK acc : /\ PutArgs(a, args) = [acc[k] EXCEPT !.offset = @ + ((-@) % PtrSize)]
                 /\ acc[0] = a
                 /\ \A n \in 1 .. k : acc[n] = PutArg(acc[n - 1], args, n)
                 /\ \A n \in 0 .. k : acc[n] \in Fillings(lo, base)
  BY ArgsRun
<1>2. PICK t : /\ TextLen(args) = t[k] /\ t[0] = 0
               /\ \A n \in 1 .. k : t[n] = t[n - 1] + args[n] + 1
               /\ \A n \in 0 .. k : t[n] \in Nat /\ t[n] =< TextLen(args)
  BY TextRuns
<1> DEFINE end == NVirt * PageSize
<1>3. /\ k \in Nat \ {0} /\ (\A n \in 1 .. k : args[n] \in Nat) /\ Pos(a) \in Int
      /\ end \in Int /\ TextLen(args) \in Nat /\ PtrSize \in Nat \ {0}
  <2>1. k \in Nat \ {0} /\ \A n \in 1 .. k : args[n] \in Nat
    OBVIOUS
  <2>2. k \in 0 .. k
    BY <2>1
  <2>3. TextLen(args) \in Nat
    BY <1>2, <2>2
  <2>4. Pos(a) \in Int /\ end \in Int
    BY LoaderAssumption DEF Fillings, Pos
  <2>5. QED
    BY <2>1, <2>3, <2>4, LoaderAssumption
<1>0. Open(a) => Pos(a) + TextLen(args) =< end
  OBVIOUS
<1> HIDE DEF end
<1> DEFINE After(x, n) == /\ Open(x) \/ (n = 0 /\ Stuck(x))
                          /\ Told(x, args, n)
                          /\ Open(x) => Open(a) /\ Pos(x) = Pos(a) + t[n]
           S == [n \in 0 .. k |-> {x \in Fillings(lo, base) : x.m.fault \/ After(x, n)}]
<1>4. acc[0] \in S[0]
  <2>1. Told(a, args, 0)
    BY DEF Told
  <2>2. After(a, 0)
    BY <1>2, <1>3, <2>1
  <2> HIDE DEF After, k
  <2>3. QED
    BY <1>1, <1>3, <2>2
<1>5. ASSUME NEW n \in 1 .. k, acc[n - 1] \in S[n - 1] PROVE acc[n] \in S[n]
  <2> DEFINE x == acc[n - 1]
             y == acc[n]
  <2> HIDE DEF After
  <2>1. /\ n - 1 \in 0 .. k /\ n \in 0 .. k /\ x \in Fillings(lo, base) /\ y \in Fillings(lo, base)
        /\ y = PutArg(x, args, n) /\ n \in 1 .. Len(args)
    BY <1>1, <1>3
  <2>2. x.m.fault \/ After(x, n - 1)
    <3> HIDE DEF k
    <3>1. QED
      BY <1>5, <2>1
  <2> HIDE DEF x, y
  <2>3. CASE x.m.fault
    <3>1. y.m.fault
      BY <2>1, <2>3, ArgFaults
    <3>2. QED
      BY <2>1, <3>1 DEF y
  <2>4. CASE y.m.fault
    BY <2>1, <2>4 DEF y
  <2>5. CASE After(x, n - 1) /\ ~y.m.fault
    <3>1. /\ Stuck(x) \/ Open(x)
          /\ Told(x, args, n - 1)
          /\ Open(x) => Open(a) /\ Pos(x) = Pos(a) + t[n - 1]
      BY <2>5 DEF After
    <3>2. /\ t[n - 1] \in Nat /\ t[n] \in Nat /\ args[n] \in Nat /\ t[n] = t[n - 1] + args[n] + 1
          /\ t[n] =< TextLen(args)
      BY <1>2, <1>3, <2>1
    <3>3. ASSUME Open(x) PROVE Pos(x) + args[n] + 1 =< end
      <4> DEFINE from == Pos(a)
                 before == t[n - 1]
                 l == args[n]
                 all == TextLen(args)
      <4>1. /\ Pos(x) = from + before /\ from + all =< end /\ from \in Int /\ end \in Int
            /\ all \in Nat /\ before \in Nat /\ l \in Nat /\ before + l + 1 =< all
        BY <1>0, <1>3, <3>1, <3>2, <3>3
      <4> HIDE DEF from, before, l, all
      <4>2. Pos(x) + l + 1 =< end
        BY <4>1
      <4>3. QED
        BY <4>2 DEF l
    <3>4. Open(x) /\ Open(y) /\ Pos(y) = Pos(x) + args[n] + 1 /\ Told(y, args, n)
      BY <2>1, <2>5, <3>1, <3>3, ArgTells DEF end
    <3>5. Pos(y) = Pos(a) + t[n]
      BY <1>3, <3>1, <3>2, <3>4, SMTT(30)
    <3>6. After(y, n)
      BY <3>1, <3>4, <3>5 DEF After
    <3>7. QED
      BY <2>1, <3>6 DEF y
  <2>6. QED
    BY <2>2, <2>3, <2>4, <2>5
<1>6. acc[k] \in S[k]
  <2> HIDE DEF S
  <2>1. QED
    BY <1>3, <1>4, <1>5, LoopCounts
<1> DEFINE e == acc[k]
           b == PutArgs(a, args)
<1>7. e \in Fillings(lo, base) /\ (e.m.fault \/ After(e, k))
  <2> HIDE DEF After, k
  <2>1. QED
    BY <1>3, <1>6
<1>8. b = [e EXCEPT !.offset = @ + ((-@) % PtrSize)]
  BY <1>1
<1> HIDE DEF e, b
<1>9. b.m = e.m
  BY <1>7, <1>8 DEF Fillings
<1>10. Open(e) /\ Told(e, args, k) /\ Open(a) /\ Pos(e) = Pos(a) + TextLen(args)
  <2>1. ~e.m.fault
    BY <1>9 DEF b
  <2>2. QED
    BY <1>2, <1>3, <1>7, <2>1
<1>11. /\ Open(b) /\ Pos(e) =< Pos(b) /\ Pos(b) < Pos(e) + PtrSize
       /\ b.strings = e.strings
       /\ \E d \in Nat : b.offset = d * PtrSize
       /\ \A x, val : Shows(e, x, val) => Shows(b, x, val)
  BY <1>7, <1>8, <1>10, AlignShows
<1>12. Told(b, args, k)
  <2> HIDE DEF k
  <2>1. QED
    BY <1>10, <1>11 DEF Told
<1>13. QED
  BY <1>10, <1>11, <1>12 DEF b

\* The pointers to them.
LEMMA PointersShow ==
    ASSUME NEW lo \in Nat \ {0}, NEW base, NEW a \in Fillings(lo, base), Open(a),
           \E d \in Nat : a.offset = d * PtrSize,
           Pos(a) + Len(a.strings) * PtrSize =< NVirt * PageSize, ~PutPointers(a).m.fault
    PROVE  LET b == PutPointers(a)
           IN /\ Open(b)
              /\ \A j \in 1 .. Len(a.strings) : Shows(b, Pos(a) + (j - 1) * PtrSize, Ptr(a.strings[j]))
              /\ \A x, val : Shows(a, x, val) => Shows(b, x, val)
<1> DEFINE k == Len(a.strings)
           end == NVirt * PageSize
<1>1. /\ k \in Nat /\ PageSize \in Nat \ {0} /\ PtrSize \in Nat \ {0} /\ end \in Int /\ Pos(a) \in Int
      /\ \A n \in 1 .. k : a.strings[n] \in Int
  BY LoaderAssumption DEF Fillings, Pos
<1>2. PICK acc : /\ PutPointers(a) = acc[k] /\ acc[0] = a
                 /\ \A n \in 1 .. k : acc[n] = Put(acc[n - 1], Ptr(a.strings[n]), PtrSize)
                 /\ \A n \in 0 .. k : acc[n] \in Fillings(lo, base)
  BY PointersRun
<1>3. PICK c \in Nat \ {0} : PageSize = c * PtrSize /\ PtrSize =< PageSize
  BY PointersPerPage
<1>11. PtrSize =< PageSize
  BY <1>3
<1>4. \A n \in 1 .. k : Ptr(a.strings[n]) \in Value
  BY <1>1, SMTT(30) DEF Ptr, Value
<1>5. Pos(a) + k * PtrSize =< end
  OBVIOUS
<1> HIDE DEF k, end
<1> DEFINE Keeps(x) == \A y, val : Shows(a, y, val) => Shows(x, y, val)
           Written(x, n) == \A j \in 1 .. n : Shows(x, Pos(a) + (j - 1) * PtrSize, Ptr(a.strings[j]))
           After(x, n) == /\ Open(x) /\ Pos(x) = Pos(a) + n * PtrSize
                          /\ \E d \in Nat : x.offset = d * PtrSize
                          /\ Written(x, n) /\ Keeps(x)
           S == [n \in 0 .. k |-> {x \in Fillings(lo, base) : x.m.fault \/ After(x, n)}]
<1>6. acc[0] \in S[0]
  <2>1. Keeps(a) /\ Written(a, 0)
    OBVIOUS
  <2>2. Pos(a) = Pos(a) + 0 * PtrSize
    BY <1>1
  <2> HIDE DEF Keeps, Written
  <2>3. After(a, 0)
    BY <2>1, <2>2
  <2> HIDE DEF After
  <2>4. QED
    BY <1>1, <1>2, <2>3
<1>7. ASSUME NEW n \in 1 .. k, acc[n - 1] \in S[n - 1] PROVE acc[n] \in S[n]
  <2> DEFINE x == acc[n - 1]
             y == acc[n]
             val == Ptr(a.strings[n])
  <2>1. /\ n - 1 \in 0 .. k /\ n \in 0 .. k /\ n - 1 \in Nat /\ x \in Fillings(lo, base)
        /\ y \in Fillings(lo, base) /\ y = Put(x, val, PtrSize) /\ val \in Value
    BY <1>1, <1>2, <1>4, <1>7, SMTT(30)
  <2>2. x.m.fault \/ After(x, n - 1)
    <3> HIDE DEF After
    <3>1. QED
      BY <1>7, <2>1
  <2> HIDE DEF x, y, val
  <2>3. CASE x.m.fault
    <3>1. y.m.fault
      BY <1>1, <2>1, <2>3, FaultStays
    <3>2. QED
      BY <2>1, <3>1 DEF y
  <2>4. CASE y.m.fault
    BY <2>1, <2>4 DEF y
  <2>5. CASE After(x, n - 1) /\ ~y.m.fault
    <3>0. /\ Open(x) /\ Pos(x) = Pos(a) + (n - 1) * PtrSize
          /\ \E d \in Nat : x.offset = d * PtrSize
          /\ Written(x, n - 1) /\ Keeps(x)
      BY <2>5
    <3> HIDE DEF After, Written, Keeps
    <3>1. PICK d \in Nat : x.offset = d * PtrSize
      BY <3>0
    <3>2. /\ (n - 1) * PtrSize + PtrSize = n * PtrSize /\ n * PtrSize =< k * PtrSize
          /\ (n - 1) * PtrSize \in Int /\ n * PtrSize \in Int /\ k * PtrSize \in Int
      <4>1. n \in Int /\ n - 1 \in Int /\ n =< k /\ k \in Int /\ (n - 1) + 1 = n
        BY <1>1, <2>1
      <4>2. QED
        BY <1>1, <4>1, Times
    <3>3. Pos(x) < NVirt * PageSize
      <4> DEFINE i == (n - 1) * PtrSize
                 j == n * PtrSize
                 all == k * PtrSize
      <4>1. /\ i + PtrSize = j /\ j =< all /\ i \in Int /\ j \in Int /\ all \in Int
            /\ Pos(x) = Pos(a) + i /\ Pos(a) + all =< end
        BY <1>5, <3>0, <3>2
      <4> HIDE DEF i, j, all
      <4>2. Pos(x) < end
        BY <1>1, <4>1
      <4>3. QED
        BY <4>2 DEF end
    <3>4. /\ x.offset \in Nat /\ (x.offset < PageSize => x.offset + PtrSize =< PageSize)
          /\ x.offset + PtrSize = (d + 1) * PtrSize
      <4>1. d \in Int /\ c \in Int /\ d + 1 \in Int /\ x.offset \in Nat
        BY <1>1, <1>3, <3>0, <3>1 DEF Open
      <4>2. x.offset + PtrSize = (d + 1) * PtrSize
        BY <1>1, <3>1, <4>1, Times
      <4>3. x.offset < PageSize => d + 1 =< c
        BY <1>1, <1>3, <3>1, <4>1, Times
      <4>4. d + 1 =< c => (d + 1) * PtrSize =< c * PtrSize
        BY <1>1, <4>1, Times
      <4>5. QED
        BY <1>3, <4>1, <4>2, <4>3, <4>4
    <3>5. /\ Open(y) /\ Pos(y) = Pos(x) + PtrSize
          /\ y.offset = (IF x.offset < PageSize THEN x.offset ELSE 0) + PtrSize
          /\ Shows(y, Pos(x), val)
          /\ \A z, v : Shows(x, z, v) => Shows(y, z, v)
      <4>1. ~Put(x, val, PtrSize).m.fault /\ (x.offset < PageSize => x.offset + PtrSize =< PageSize)
        BY <2>1, <2>5, <3>4
      <4>2. QED
        BY <1>1, <1>11, <2>1, <3>0, <3>3, <4>1, PutShows
    <3>6. Pos(y) = Pos(a) + n * PtrSize
      BY <1>1, <3>0, <3>2, <3>5
    <3>7. \E g \in Nat : y.offset = g * PtrSize
      <4>1. CASE x.offset < PageSize
        <5>1. d + 1 \in Nat /\ y.offset = (d + 1) * PtrSize
          BY <3>4, <3>5, <4>1
        <5>2. QED
          BY <5>1
      <4>2. CASE ~(x.offset < PageSize)
        <5>1. y.offset = 1 * PtrSize
          BY <1>1, <3>5, <4>2
        <5>2. QED
          BY <5>1
      <4>3. QED
        BY <4>1, <4>2
    <3>8. Keeps(y)
      BY <3>0, <3>5 DEF Keeps
    <3>9. Written(y, n)
      <4> SUFFICES ASSUME NEW j \in 1 .. n PROVE Shows(y, Pos(a) + (j - 1) * PtrSize, Ptr(a.strings[j]))
        BY DEF Written
      <4>1. CASE j = n
        BY <3>0, <3>5, <4>1 DEF val
      <4>2. CASE j # n
        <5>1. j \in 1 .. n - 1
          BY <2>1, <4>2
        <5>2. QED
          BY <3>0, <3>5, <5>1 DEF Written
      <4>3. QED
        BY <4>1, <4>2
    <3>10. After(y, n)
      BY <3>5, <3>6, <3>7, <3>8, <3>9 DEF After
    <3>11. QED
      BY <2>1, <3>10 DEF y
  <2>6. QED
    BY <2>2, <2>3, <2>4, <2>5
<1>8. acc[k] \in S[k]
  <2> HIDE DEF S
  <2>1. QED
    BY <1>1, <1>6, <1>7, LoopCounts
<1>9. After(acc[k], k)
  <2> HIDE DEF After
  <2>1. QED
    BY <1>1, <1>2, <1>8
<1>10. QED
  BY <1>2, <1>9 DEF k

\* What a task with address space map and memory words finds at address x.
Finds(map, words, x, value) ==
    LET entry == map[x \div PageSize]
    IN /\ x \div PageSize \in Virt /\ "U" \in entry.flags /\ entry.page # NULL
       /\ words[entry.page][x % PageSize] = value

\* What ArgvReadable says of a task.
ArgsFound(map, words, args, argv) ==
    \A k \in 1 .. Len(args) : \E addr \in 0 .. NVirt * PageSize - 1 :
       /\ Finds(map, words, argv + (k - 1) * PtrSize, Ptr(addr))
       /\ \A j \in 0 .. args[k] : Finds(map, words, addr + j, Char(k, j))

\* What shows is found.
LEMMA ShownIsFound ==
    ASSUME NEW lo \in Nat \ {0}, NEW base, NEW a \in Fillings(lo, base), Open(a), NEW x, NEW value,
           Shows(a, x, value)
    PROVE  Finds(a.m.map, a.m.mem, x, value)
<1> DEFINE d == x \div PageSize
<1>1. PageSize \in Nat \ {0} /\ NVirt \in Nat /\ a.last \in Int /\ a.offset \in Int
  BY LoaderAssumption DEF Fillings
<1>2. x \in Nat /\ x < Pos(a)
  BY DEF Shows
<1>3. /\ a.last - 1 \in Int /\ a.last - 1 < NVirt /\ a.virt = (a.last - 1) * PageSize
      /\ a.offset =< PageSize
  BY <1>1 DEF Open, Virt
<1>4. d \in Int /\ d * PageSize =< x /\ x < d * PageSize + PageSize
  BY <1>1, <1>2, DivFacts
<1> HIDE DEF d
<1>5. ((a.last - 1) + 1) * PageSize = (a.last - 1) * PageSize + PageSize /\ (a.last - 1) + 1 = a.last
      /\ (a.last - 1) * PageSize \in Int
  BY <1>1, <1>3, Times
<1>6. d * PageSize < a.last * PageSize
  BY <1>1, <1>2, <1>3, <1>4, <1>5, Times DEF Pos
<1>7. (-1) * PageSize < d * PageSize
  BY <1>1, <1>2, <1>4, Times
<1>8. d < a.last /\ -1 < d
  BY <1>1, <1>4, <1>6, <1>7, Times
<1>9. d \in Virt
  BY <1>1, <1>3, <1>4, <1>8 DEF Virt
<1>10. QED
  BY <1>9 DEF Finds, Shows, d

\* The arguments of a task that is loaded without a fault are where A0 and A1 say.
LEMMA ArgumentsFound ==
    ASSUME NEW lo \in Nat \ {0}, NEW base, NEW a \in Fillings(lo, base), Stuck(a) \/ Open(a),
           a.strings = <<>>, NEW args \in Seq(Nat), Len(args) # 0, TextLen(args) \in Nat,
           Pos(a) + TextLen(args) + (Len(args) * PtrSize + PtrSize) =< NVirt * PageSize,
           ~PutPointers(PutArgs(a, args)).m.fault
    PROVE  LET b == PutArgs(a, args)
               done == PutPointers(b)
           IN ArgsFound(done.m.map, done.m.mem, args, Pos(b))
<1> DEFINE b == PutArgs(a, args)
           done == PutPointers(b)
           pts == Len(args) * PtrSize
           end == NVirt * PageSize
<1>1. /\ b \in Fillings(lo, base) /\ done \in Fillings(lo, base)
  BY ArgsKeep, PointersKeep
<1>2. ~b.m.fault
  <2> HIDE DEF b
  <2>1. b \in Fillings(lo, b.m)
    BY <1>1 DEF Fillings, Works
  <2>2. done \in Fillings(lo, b.m)
    BY <2>1, PointersKeep
  <2>3. ~done.m.fault
    BY DEF b
  <2> HIDE DEF done
  <2>4. QED
    BY <2>2, <2>3 DEF Fillings, Works
<1>3. /\ Len(args) \in Nat /\ PtrSize \in Nat \ {0} /\ pts \in Nat /\ end \in Int /\ Pos(a) \in Int
      /\ Pos(a) + TextLen(args) + (pts + PtrSize) =< end
  BY LoaderAssumption, SMTT(30) DEF Fillings, Pos
<1> HIDE DEF pts, end
<1>4. Pos(a) + TextLen(args) =< end
  BY <1>3
<1>5. /\ Open(b) /\ Told(b, args, Len(args)) /\ Pos(b) < Pos(a) + TextLen(args) + PtrSize
      /\ \E d \in Nat : b.offset = d * PtrSize
  BY <1>2, <1>4, ArgsShow DEF end
<1> HIDE DEF b, done
<1>6. Len(b.strings) = Len(args)
  BY <1>5 DEF Told
<1>7. Pos(b) + Len(b.strings) * PtrSize =< NVirt * PageSize
  <2>1. Pos(b) \in Int
    BY <1>1 DEF Fillings, Pos
  <2>2. Pos(b) + pts =< end
    BY <1>3, <1>5, <2>1, SMTT(30)
  <2>3. QED
    BY <1>6, <2>2 DEF pts, end
<1>8. /\ Open(done)
      /\ \A j \in 1 .. Len(args) : Shows(done, Pos(b) + (j - 1) * PtrSize, Ptr(b.strings[j]))
      /\ \A x, val : Shows(b, x, val) => Shows(done, x, val)
  <2>1. ~PutPointers(b).m.fault
    BY DEF b
  <2>2. QED
    BY <1>1, <1>5, <1>6, <1>7, <2>1, PointersShow DEF done
<1>9. \A x, val : Shows(done, x, val) => Finds(done.m.map, done.m.mem, x, val)
  BY <1>1, <1>8, ShownIsFound
<1>10. ASSUME NEW k \in 1 .. Len(args)
       PROVE  \E addr \in 0 .. NVirt * PageSize - 1 :
                 /\ Finds(done.m.map, done.m.mem, Pos(b) + (k - 1) * PtrSize, Ptr(addr))
                 /\ \A j \in 0 .. args[k] : Finds(done.m.map, done.m.mem, addr + j, Char(k, j))
  <2>1. /\ b.strings[k] \in 0 .. NVirt * PageSize - 1
        /\ \A j \in 0 .. args[k] : Shows(b, b.strings[k] + j, Char(k, j))
    BY <1>5 DEF Told
  <2>2. \A j \in 0 .. args[k] : Finds(done.m.map, done.m.mem, b.strings[k] + j, Char(k, j))
    BY <1>8, <1>9, <2>1
  <2>3. Finds(done.m.map, done.m.mem, Pos(b) + (k - 1) * PtrSize, Ptr(b.strings[k]))
    BY <1>8, <1>9
  <2>4. QED
    BY <2>1, <2>2, <2>3
<1>11. QED
  BY <1>10 DEF ArgsFound, b, done

\* A task that is loaded without a fault: its stack is its own, and its arguments
\* are where its registers say.
LEMMA SpawnWorks ==
    ASSUME NEW lo \in Nat \ {0}, NEW base, NEW m0 \in Works(lo, base), NEW elf \in Elfs,
           NEW args \in ArgLists, Tidy(m0, LoadedOf(elf)),
           NEW m, m = LoadSegments(m0, elf),
           NEW begin, begin = TurnPage([m |-> MapStack(m), page |-> NULL, virt |-> 0, offset |-> 0,
                                        last |-> StackPage(m) + StackSize, strings |-> <<>>]),
           NEW strings, strings = PutArgs(begin, args),
           NEW done, done = PutPointers(strings), ~done.m.fault
    PROVE  /\ done.m \in Works(lo, base)
           /\ StackClear(LastStackAddr(m) - PtrSize, done.m.map, LoadedOf(elf))
           /\ ArgsFound(done.m.map, done.m.mem, args, Pos(strings))
<1> DEFINE stacked == MapStack(m)
           top == StackPage(m) + StackSize
           blank == [m |-> stacked, page |-> NULL, virt |-> 0, offset |-> 0, last |-> top, strings |-> <<>>]
           end == NVirt * PageSize
<1>1. /\ args \in Seq(Nat) /\ Len(args) \in Nat /\ PageSize \in Nat \ {0} /\ PtrSize \in Nat \ {0}
      /\ StackSize \in Nat \ {0} /\ NVirt \in Nat /\ end \in Int
  BY FilesAssumption, LoaderAssumption
<1>2. /\ m \in Works(lo, base) /\ Tidy(m, LoadedOf(elf))
      /\ \A seg \in LoadedOf(elf) : Reached(m, LoadedOf(elf), seg, PageCount(seg))
  BY SegmentsKeep, SegmentsTidy
<1>3. /\ StackPage(m) \in Nat /\ TextLen(args) \in Nat
      /\ top * PageSize + TextLen(args) + (Len(args) + 1) * PtrSize =< end
  BY <1>2, RoomAbove DEF Tidy
<1>4. stacked \in Works(lo, base) /\ stacked \in Works(lo, stacked)
  <2>1. stacked \in Works(lo, base)
    BY <1>2, StackKeeps
  <2>2. QED
    BY <2>1 DEF Works
<1> HIDE DEF stacked
<1>5. top \in Nat
  BY <1>1, <1>3
<1> HIDE DEF top, end
<1>6. ASSUME NEW from, stacked \in Works(lo, from)
      PROVE  /\ blank \in Fillings(lo, from) /\ begin \in Fillings(lo, from)
             /\ strings \in Fillings(lo, from) /\ done \in Fillings(lo, from)
  <2>1. blank \in Fillings(lo, from)
    <3>1. <<>> \in Seq(Int) /\ NULL \in Own(lo)
      BY DEF Own
    <3>2. QED
      BY <1>5, <1>6, <3>1 DEF Fillings
  <2>2. begin = TurnPage(blank)
    BY DEF blank, stacked, top
  <2> HIDE DEF blank
  <2>3. begin \in Fillings(lo, from)
    BY <2>1, <2>2, TurnKeeps
  <2>4. strings \in Fillings(lo, from)
    BY <1>1, <2>3, ArgsKeep
  <2>5. QED
    BY <2>1, <2>3, <2>4, PointersKeep
<1>7. done.m \in Works(lo, base) /\ done.m \in Works(lo, stacked)
  <2>1. done \in Fillings(lo, base) /\ done \in Fillings(lo, stacked)
    BY <1>4, <1>6
  <2>2. QED
    BY <2>1 DEF Fillings
<1>8. StackClear(LastStackAddr(m) - PtrSize, done.m.map, LoadedOf(elf))
  BY <1>2, <1>7, StackIsClear DEF stacked
<1>9. CASE Len(args) = 0
  <2>1. ArgsFound(done.m.map, done.m.mem, args, Pos(strings))
    BY <1>9 DEF ArgsFound
  <2>2. QED
    BY <1>7, <1>8, <2>1
<1>10. CASE Len(args) # 0
  <2>1. /\ blank \in Fillings(lo, base) /\ begin \in Fillings(lo, base)
        /\ strings \in Fillings(lo, base) /\ done \in Fillings(lo, base)
    BY <1>4, <1>6
  <2>2. begin = TurnPage(blank) /\ blank.last = top /\ blank.strings = <<>>
    BY DEF blank, stacked, top
  <2> HIDE DEF blank
  <2> DEFINE t == TextLen(args)
             pts == Len(args) * PtrSize
             at == top * PageSize
  <2>3. t \in Nat /\ pts \in Nat /\ at \in Int /\ at + t + (pts + PtrSize) =< end
    <3>1. Len(args) * PtrSize \in Nat /\ (Len(args) + 1) * PtrSize = Len(args) * PtrSize + PtrSize
      BY <1>1, Times
    <3>2. QED
      BY <1>1, <1>3, <1>5, <3>1
  <2> HIDE DEF t, pts, at
  <2>4. at < end /\ at + t =< end
    BY <1>1, <2>3
  <2>5. top \in Virt
    <3>1. top * PageSize < NVirt * PageSize
      BY <2>4 DEF at, end
    <3>2. top < NVirt
      BY <1>1, <1>5, <3>1, Times
    <3>3. QED
      BY <1>1, <1>5, <3>2 DEF Virt
  <2>6. begin.offset = 0 /\ begin.virt = at /\ begin.strings = <<>>
    BY <2>1, <2>2 DEF TurnPage, Fillings, at
  <2>7. Pos(begin) = at
    BY <2>3, <2>6 DEF Pos
  <2>8. Stuck(begin) \/ Open(begin)
    <3>1. CASE begin.page = NULL
      BY <2>6, <3>1 DEF Stuck
    <3>2. CASE begin.page # NULL
      BY <2>1, <2>2, <2>5, <3>2, TurnOpens
    <3>3. QED
      BY <3>1, <3>2
  <2>9. ArgsFound(done.m.map, done.m.mem, args, Pos(strings))
    BY <1>1, <1>10, <2>1, <2>3, <2>6, <2>7, <2>8, ArgumentsFound DEF t, pts, end
  <2>10. QED
    BY <1>7, <1>8, <2>9
<1>11. QED
  BY <1>9, <1>10

-----------------------------------------------------------------------------
(* The specification.                                                       *)

TypeOK ==
    /\ state \in [Pids -> {"DEAD", "READY"}]
    /\ DOMAIN task = Pids /\ DOMAIN image = Pids
    /\ space \in [Pids -> Maps]
    /\ mem \in Mems
    /\ fresh \in 1 .. NPages + 1
    /\ up_to \in Nat

KernelInv ==
    \A v \in KernelPages : mem[KernelFrame(v)] = Zeros /\ \A p \in Pids : space[p][v] = Blank[v]

\* A free slot has nothing mapped, and every task has the table of its slot.
SlotInv ==
    \A p \in Pids : /\ state[p] = "DEAD" => space[p] = Blank
                    /\ state[p] = "READY" => task[p].mmu = p

\* What is mapped for a user was allocated, and for one task only.
OwnInv ==
    \A p \in Pids, v \in Virt \ KernelPages :
       space[p][v].page = NULL \/ space[p][v].page \in 1 .. fresh - 1

PrivateInv ==
    \A p, q \in Pids : p # q => \A v, w \in Virt \ KernelPages :
       space[p][v].page = space[q][w].page => space[p][v].page = NULL

\* The slots are taken in order, and up_to is the last one taken.
OrderInv == \/ Ready = {} /\ up_to = 0
            \/ Ready = 0 .. up_to

\* The stack and the arguments of every task.
LoadInv ==
    \A p \in Pids : state[p] = "READY" =>
       /\ StackClear(task[p].sp, space[p], LoadedOf(image[p]))
       /\ task[p].argc = Len(image[p].args)
       /\ ArgsFound(space[p], mem, image[p].args, task[p].argv)

IInv == TypeOK /\ KernelInv /\ SlotInv /\ OwnInv /\ PrivateInv /\ OrderInv /\ LoadInv

\* A new address space holds only the kernel.
LEMMA BlankType == Blank \in Maps /\ \A v \in Virt \ KernelPages : Blank[v].page = NULL
<1>1. \A v \in KernelPages : KernelFrame(v) \in Nat
  BY LoaderAssumption DEF KernelFrame
<1>2. \A v \in KernelPages : [page |-> KernelFrame(v), flags |-> {"R", "W", "X"}] \in [page : Nat, flags : Flags]
  BY <1>1 DEF Flags
<1>3. Unmapped \in [page : Nat, flags : Flags] /\ Unmapped.page = NULL
  BY DEF Unmapped, Flags, NULL
<1>4. QED
  BY <1>2, <1>3 DEF Blank, Maps

\* What a spawn finds.
Before == [map |-> Blank, mem |-> mem, fault |-> FALSE]

\* What a spawn that returns a task does: program is the file and the arguments.
Spawns(p, m, program, sp, argv) ==
    /\ state[p] = "DEAD" /\ \A q \in Pids : state[q] = "DEAD" => p =< q
    /\ space' = [space EXCEPT ![p] = m.map]
    /\ mem' = m.mem
    /\ fresh' = m.fresh
    /\ task' = [task EXCEPT ![p] = [mmu |-> p, sp |-> sp, argc |-> Len(program.args), argv |-> argv]]
    /\ image' = [image EXCEPT ![p] = program]
    /\ state' = [state EXCEPT ![p] = "READY"]
    /\ up_to' = IF p > up_to THEN p ELSE up_to

\* A task with these registers can run the program.
Fits(m, program, sp, argv) ==
    /\ StackClear(sp, m.map, LoadedOf(program))
    /\ ArgsFound(m.map, m.mem, program.args, argv)

\* Every call of spawn_task_from_elf leaves all as it was, or fills the first free
\* slot with the result of work on an empty address space.
LEMMA SpawnResult ==
    ASSUME IInv, NEW elf \in Elfs, NEW args \in ArgLists, spawn_task_from_elf(elf, args)
    PROVE  \/ UNCHANGED <<state, task, space, mem, fresh, up_to, image>>
           \/ \E p \in Pids, m \in Works(fresh, Before) : \E program, sp, argv :
                 Spawns(p, m, program, sp, argv) /\ Fits(m, program, sp, argv)
<1>1. CASE ~elf.exec \/ Dead = {}
  BY <1>1 DEF spawn_task_from_elf, FreePid
<1>2. ASSUME NEW p \in Pids, FreePid(p),
             NEW m, m = Loaded(p, elf),
             NEW begin, begin = TurnPage([m |-> MapStack(m), page |-> NULL, virt |-> 0, offset |-> 0,
                                          last |-> StackPage(m) + StackSize, strings |-> <<>>]),
             NEW strings, strings = PutArgs(begin, args),
             NEW done, done = PutPointers(strings), ~done.m.fault,
             Finish(p, elf, args, LastStackAddr(m) - PtrSize, strings, done)
      PROVE  \E q \in Pids, n \in Works(fresh, Before) : \E program, sp, argv :
                Spawns(q, n, program, sp, argv) /\ Fits(n, program, sp, argv)
  <2> DEFINE m0 == [map |-> space[p], mem |-> mem, fresh |-> fresh, max |-> 0, fault |-> FALSE]
             program == [segs |-> elf.segs, args |-> args]
             sp == LastStackAddr(m) - PtrSize
             argv == Pos(strings)
  <2>1. space[p] = Blank /\ fresh \in Nat \ {0} /\ NPages \in Nat
    BY <1>2, LoaderAssumption DEF IInv, TypeOK, SlotInv, FreePid, Dead
  <2>2. m0 \in Works(fresh, Before)
    <3>1. m0 \in [map : Maps, mem : Mems, fresh : 1 .. NPages + 1, max : Int, fault : BOOLEAN]
      BY <2>1, BlankType DEF IInv, TypeOK
    <3>2. QED
      BY <2>1, <3>1, BlankType DEF Works, Before, IInv, KernelInv
  <2>3. Tidy(m0, LoadedOf(elf))
    <3>1. \A v \in Virt \ KernelPages : Blank[v] = Unmapped
      BY DEF Blank
    <3>2. m0.max = 0 /\ m0.map = Blank
      BY <2>1
    <3> HIDE DEF m0
    <3>3. QED
      BY <3>1, <3>2 DEF Tidy
  <2>4. m = LoadSegments(m0, elf)
    BY <1>2 DEF Loaded, Root
  <2> HIDE DEF m0
  <2>5. /\ done.m \in Works(fresh, Before) /\ StackClear(sp, done.m.map, LoadedOf(elf))
        /\ ArgsFound(done.m.map, done.m.mem, args, argv)
    BY <1>2, <2>1, <2>2, <2>3, <2>4, SpawnWorks
  <2>6. program.args = args /\ LoadedOf(program) = LoadedOf(elf)
    BY DEF LoadedOf
  <2>7. Fits(done.m, program, sp, argv)
    BY <2>5, <2>6 DEF Fits
  <2>8. Spawns(p, done.m, program, sp, argv)
    BY <1>2, <2>6 DEF Spawns, Finish, Root, schedule_task, FreePid, Dead, Pos
  <2> HIDE DEF program, sp, argv
  <2>9. QED
    BY <2>5, <2>7, <2>8
<1>3. CASE elf.exec /\ Dead # {}
  BY <1>2, <1>3 DEF spawn_task_from_elf
<1>4. QED
  BY <1>1, <1>3

\* A spawn keeps every part of the invariant.
LEMMA SpawnKeeps ==
    ASSUME IInv, NEW p \in Pids, NEW m \in Works(fresh, Before), NEW program, NEW sp, NEW argv,
           Spawns(p, m, program, sp, argv), Fits(m, program, sp, argv)
    PROVE  IInv'
<1>0. /\ m \in [map : Maps, mem : Mems, fresh : 1 .. NPages + 1, max : Int, fault : BOOLEAN]
      /\ fresh =< m.fresh /\ fresh \in Nat /\ fresh >= 1 /\ m.fresh \in Nat
      /\ \A v \in KernelPages : m.map[v] = Blank[v] /\ m.mem[KernelFrame(v)] = Zeros
      /\ \A v \in Virt \ KernelPages : m.map[v].page = NULL \/ m.map[v].page \in fresh .. m.fresh - 1
  BY LoaderAssumption DEF Works, IInv, TypeOK
<1>1. /\ space' = [space EXCEPT ![p] = m.map] /\ mem' = m.mem /\ fresh' = m.fresh
      /\ state' = [state EXCEPT ![p] = "READY"] /\ up_to' = (IF p > up_to THEN p ELSE up_to)
      /\ DOMAIN task' = DOMAIN task /\ task'[p].mmu = p
      /\ \A q \in Pids : q # p => task'[q] = task[q]
      /\ state[p] = "DEAD" /\ \A q \in Pids : state[q] = "DEAD" => p =< q
  BY DEF Spawns, IInv, TypeOK
<1>2. TypeOK'
  <2>1. DOMAIN image' = Pids
    BY DEF Spawns, IInv, TypeOK
  <2>2. QED
    BY <1>0, <1>1, <2>1, LoaderAssumption DEF IInv, TypeOK, Pids
<1>3. \A q \in Pids : space'[q] = IF q = p THEN m.map ELSE space[q]
  BY <1>1 DEF IInv, TypeOK
<1>4. KernelInv'
  BY <1>0, <1>1, <1>3 DEF IInv, KernelInv
<1>5. SlotInv'
  BY <1>1, <1>3 DEF IInv, SlotInv, TypeOK
<1>6. OwnInv'
  <2> SUFFICES ASSUME NEW q \in Pids, NEW v \in Virt \ KernelPages
               PROVE  space'[q][v].page = NULL \/ space'[q][v].page \in 1 .. m.fresh - 1
    BY <1>1 DEF OwnInv
  <2>1. CASE q = p
    BY <1>0, <1>3, <2>1
  <2>2. CASE q # p
    <3>1. space[q][v].page = NULL \/ space[q][v].page \in 1 .. fresh - 1
      BY DEF IInv, OwnInv
    <3>2. QED
      BY <1>0, <1>3, <2>2, <3>1
  <2>3. QED
    BY <2>1, <2>2
<1>7. PrivateInv'
  <2> SUFFICES ASSUME NEW q \in Pids, NEW r \in Pids, q # r,
                      NEW v \in Virt \ KernelPages, NEW w \in Virt \ KernelPages,
                      space'[q][v].page = space'[r][w].page, space'[q][v].page # NULL
               PROVE  FALSE
    BY DEF PrivateInv
  <2>1. \A s \in Pids, u \in Virt \ KernelPages :
           s # p => space'[s][u].page = NULL \/ space'[s][u].page \in 1 .. fresh - 1
    BY <1>3 DEF IInv, OwnInv
  <2>2. \A u \in Virt \ KernelPages :
           space'[p][u].page = NULL \/ space'[p][u].page \in fresh .. m.fresh - 1
    BY <1>0, <1>3
  <2>3. CASE q # p /\ r # p
    BY <1>3, <2>3 DEF IInv, PrivateInv
  <2>4. CASE q = p \/ r = p
    BY <1>0, <2>1, <2>2, <2>4
  <2>5. QED
    BY <2>3, <2>4
<1>8. OrderInv'
  <2>1. Ready' = Ready \cup {p}
    BY <1>1 DEF Ready, IInv, TypeOK
  <2>2. p \in Nat /\ p < MaxPid /\ up_to \in Nat /\ p \notin Ready
    BY <1>1, LoaderAssumption DEF IInv, TypeOK, Pids, Ready
  <2>3. \A q \in Pids : q < p => q \in Ready
    BY <1>1, <2>2 DEF IInv, TypeOK, Pids, Ready
  <2>4. CASE Ready = {} /\ up_to = 0
    <3>1. p = 0
      BY <2>2, <2>3, <2>4, LoaderAssumption DEF Pids
    <3>2. up_to' = 0 /\ Ready' = 0 .. 0
      BY <1>1, <2>1, <2>4, <3>1
    <3>3. QED
      BY <3>2 DEF OrderInv
  <2>5. CASE Ready = 0 .. up_to
    <3>1. p > up_to
      BY <2>2, <2>5
    <3>2. p - 1 \in Pids /\ p - 1 < p
      BY <2>2, <3>1, LoaderAssumption DEF Pids
    <3>3. p = up_to + 1
      BY <2>2, <2>3, <2>5, <3>1, <3>2
    <3>4. up_to' = up_to + 1 /\ Ready' = 0 .. up_to + 1
      BY <1>1, <2>1, <2>2, <2>5, <3>1, <3>3
    <3>5. QED
      BY <3>4 DEF OrderInv
  <2>6. QED
    BY <2>4, <2>5 DEF IInv, OrderInv
<1>9. LoadInv'
  <2> SUFFICES ASSUME NEW q \in Pids, state'[q] = "READY"
               PROVE  /\ StackClear(task'[q].sp, space'[q], LoadedOf(image'[q]))
                      /\ task'[q].argc = Len(image'[q].args)
                      /\ ArgsFound(space'[q], mem', image'[q].args, task'[q].argv)
    BY DEF LoadInv, StackClear, ArgsFound, LoadedOf, Finds
  <2>1. CASE q = p
    <3>1. /\ task'[q].sp = sp /\ task'[q].argc = Len(program.args) /\ task'[q].argv = argv
          /\ image'[q] = program /\ space'[q] = m.map /\ mem' = m.mem
      BY <1>1, <1>3, <2>1 DEF Spawns, IInv, TypeOK
    <3>2. QED
      BY <3>1 DEF Fits
  <2>2. CASE q # p
    <3>1. task'[q] = task[q] /\ image'[q] = image[q] /\ space'[q] = space[q] /\ state[q] = "READY"
      BY <1>1, <1>3, <2>2 DEF Spawns, IInv, TypeOK
    <3>2. /\ StackClear(task[q].sp, space[q], LoadedOf(image[q]))
          /\ task[q].argc = Len(image[q].args)
          /\ ArgsFound(space[q], mem, image[q].args, task[q].argv)
      BY <3>1 DEF IInv, LoadInv
    <3>3. ASSUME NEW x, NEW value, Finds(space[q], mem, x, value)
          PROVE  Finds(space[q], mem', x, value)
      <4> DEFINE v == x \div PageSize
      <4>1. v \in Virt /\ "U" \in space[q][v].flags /\ space[q][v].page # NULL
        BY <3>3 DEF Finds
      <4> HIDE DEF v
      <4>2. v \notin KernelPages
        BY <4>1, KernelEntries DEF IInv, KernelInv
      <4>3. space[q][v].page \in 1 .. fresh - 1
        BY <4>1, <4>2 DEF IInv, OwnInv
      <4>4. m.mem[space[q][v].page] = mem[space[q][v].page]
        BY <4>3 DEF Works, Before
      <4>5. QED
        BY <1>1, <3>3, <4>4 DEF Finds, v
    <3>4. ArgsFound(space[q], mem', image[q].args, task[q].argv)
      BY <3>2, <3>3 DEF ArgsFound
    <3>5. QED
      BY <3>1, <3>2, <3>4
  <2>3. QED
    BY <2>1, <2>2, SMTT(30)
<1>10. QED
  BY <1>2, <1>4, <1>5, <1>6, <1>7, <1>8, <1>9 DEF IInv

\* Before the first spawn there is nothing but the kernel.
LEMMA InvInit == Init => IInv
<1> SUFFICES ASSUME Init PROVE IInv
  OBVIOUS
<1> USE DEF Init
<1>1. Zero \in Value
  BY DEF Zero, Value
<1>2. TypeOK
  BY <1>1, BlankType, LoaderAssumption DEF TypeOK, Mems
<1>3. KernelInv
  BY KernelEntries DEF KernelInv, Zeros
<1>4. SlotInv
  BY DEF SlotInv
<1>5. OwnInv /\ PrivateInv
  BY BlankType DEF OwnInv, PrivateInv
<1>6. OrderInv
  BY DEF OrderInv, Ready
<1>7. LoadInv
  BY DEF LoadInv
<1>8. QED
  BY <1>2, <1>3, <1>4, <1>5, <1>6, <1>7 DEF IInv

\* IInv holds in every reachable state.
LEMMA Invariant == Spec => []IInv
<1>1. IInv /\ [Next]_vars => IInv'
  <2> SUFFICES ASSUME IInv, [Next]_vars PROVE IInv'
    OBVIOUS
  <2>1. ASSUME UNCHANGED <<state, task, space, mem, fresh, up_to, image>> PROVE IInv'
    <3>1. TypeOK' /\ KernelInv' /\ SlotInv' /\ OwnInv' /\ PrivateInv' /\ OrderInv'
      BY <2>1 DEF IInv, TypeOK, KernelInv, SlotInv, OwnInv, PrivateInv, OrderInv, Ready
    <3>2. LoadInv'
      <4> SUFFICES ASSUME NEW p \in Pids, state'[p] = "READY"
                   PROVE  /\ StackClear(task'[p].sp, space'[p], LoadedOf(image'[p]))
                          /\ task'[p].argc = Len(image'[p].args)
                          /\ ArgsFound(space'[p], mem', image'[p].args, task'[p].argv)
        BY DEF LoadInv, StackClear, ArgsFound, LoadedOf, Finds
      <4>1. state[p] = "READY"
        BY <2>1
      <4>2. QED
        BY <2>1, <4>1, SMTT(30) DEF IInv, LoadInv
    <3>3. QED
      BY <3>1, <3>2 DEF IInv
  <2>2. ASSUME NEW elf \in Elfs, NEW args \in ArgLists, spawn_task_from_elf(elf, args)
        PROVE  IInv'
    BY <2>1, <2>2, SpawnResult, SpawnKeeps
  <2>3. QED
    BY <2>1, <2>2 DEF Next, vars
<1>2. QED
  BY <1>1, InvInit, PTL DEF Spec

-----------------------------------------------------------------------------
\* No two tasks have a page in common, whatever the files ask for, however their
\* segments overlap, and also when pages run out.
THEOREM TasksArePrivate == Spec => []TasksPrivate
<1>1. IInv => TasksPrivate
  <2> SUFFICES ASSUME IInv PROVE TasksPrivate
    OBVIOUS
  <2>0. \A r \in Ready : r \in Pids /\ task[r].mmu = r
    BY DEF IInv, SlotInv, Ready
  <2> SUFFICES ASSUME NEW p \in Ready, NEW q \in Ready, p # q,
                      NEW v \in Virt, NEW w \in Virt,
                      space[p][v].page = space[q][w].page, space[p][v].page \in 1 .. NPages
               PROVE  FALSE
    BY <2>0 DEF TasksPrivate, UserFrames
  <2>1. p \in Pids /\ q \in Pids
    BY DEF Ready
  <2>2. \A r \in Pids, u \in KernelPages : space[r][u].page \notin 1 .. NPages
    BY KernelEntries, LoaderAssumption DEF IInv, KernelInv
  <2>3. v \notin KernelPages /\ w \notin KernelPages
    BY <2>1, <2>2
  <2>4. QED
    BY <2>1, <2>3 DEF IInv, PrivateInv, NULL
<1>2. QED
  BY <1>1, Invariant, PTL

\* The pages of the kernel keep their contents and their mappings, also when a file
\* has segments on them.
THEOREM KernelIsUntouched == Spec => []KernelUntouched
<1>1. IInv => KernelUntouched
  BY DEF IInv, KernelInv, KernelUntouched, Zeros
<1>2. QED
  BY <1>1, Invariant, PTL

\* The scheduler's up_to is the last of the tasks, which fill the table from its
\* start: what TaskSwitch starts from.
THEOREM TasksInOrder == Spec => []ScheduledAreReady
<1>1. IInv => ScheduledAreReady
  BY DEF IInv, OrderInv, ScheduledAreReady
<1>2. QED
  BY <1>1, Invariant, PTL

\* The stack below SP of every task is its own and writable, whatever its accessible
\* segments, unless the kernel is in the way; only the page that starts at the highest
\* address of the program is left out.
THEOREM StacksArePrivate == Spec => []StackPrivate
<1>1. IInv => StackPrivate
  <2> SUFFICES ASSUME IInv, NEW p \in Ready
               PROVE  StackClear(task[p].sp, space[task[p].mmu], Program(p))
    BY DEF StackPrivate, StackClear
  <2>1. p \in Pids /\ state[p] = "READY" /\ task[p].mmu = p
    BY DEF Ready, IInv, SlotInv
  <2>2. StackClear(task[p].sp, space[p], LoadedOf(image[p]))
    BY <2>1 DEF IInv, LoadInv
  <2>3. LoadedOf(image[p]) = Program(p)
    BY DEF LoadedOf, Program, Segments
  <2>4. QED
    BY <2>1, <2>2, <2>3
<1>2. QED
  BY <1>1, Invariant, PTL

\* Every task finds its arguments through A0 and A1, complete and in order, wherever
\* they cross the end of a page and whatever is spawned afterwards.
THEOREM ArgumentsAreReadable == Spec => []ArgvReadable
<1>1. IInv => ArgvReadable
  <2> SUFFICES ASSUME IInv, NEW p \in Ready
               PROVE  /\ task[p].argc = Len(image[p].args)
                      /\ \A k \in 1 .. task[p].argc : \E addr \in 0 .. NVirt * PageSize - 1 :
                            /\ Reads(p, task[p].argv + (k - 1) * PtrSize, Ptr(addr))
                            /\ \A j \in 0 .. image[p].args[k] : Reads(p, addr + j, Char(k, j))
    BY DEF ArgvReadable
  <2>1. p \in Pids /\ state[p] = "READY" /\ task[p].mmu = p
    BY DEF Ready, IInv, SlotInv
  <2>2. task[p].argc = Len(image[p].args) /\ ArgsFound(space[p], mem, image[p].args, task[p].argv)
    BY <2>1 DEF IInv, LoadInv
  <2>3. \A x, value : Finds(space[p], mem, x, value) => Reads(p, x, value)
    BY <2>1 DEF Finds, Reads, Entry
  <2>4. QED
    BY <2>2, <2>3 DEF ArgsFound
<1>2. QED
  BY <1>1, Invariant, PTL
=============================================================================
