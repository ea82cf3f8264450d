------------------------------- MODULE Loader -------------------------------
(***************************************************************************)
(* The task table and spawn_task_from_elf (process.c): the segments of an  *)
(* ELF file are copied into new pages of an address space, followed by a   *)
(* stack and by the arguments.  An address space is a function from        *)
(* virtual pages, which is what Mmu implements (AddressSpaces); addresses  *)
(* are counted in words, and a word holds a word of the file, a character  *)
(* of an argument, or a pointer.  kinit spawns its tasks one after another *)
(* on the booting hart.                                                    *)
(***************************************************************************)
EXTENDS Integers, Sequences

CONSTANTS MaxPid,      \* init_processes
          PageSize,    \* PAGE_SIZE
          PtrSize,     \* sizeof(void*)
          NVirt,       \* bound: virtual pages
          NPages,      \* pages of the page allocator
          KernelPages, \* virtual pages on which the kernel lies
          StackSize,   \* pages of a stack
          Elfs,        \* files that are spawned
          ArgLists     \* arguments: the length of each

ASSUME LoaderAssumption ==
    /\ MaxPid \in Nat \ {0} /\ NVirt \in Nat /\ NPages \in Nat
    /\ PtrSize \in Nat \ {0} /\ PageSize \in Nat \ {0} /\ PageSize % PtrSize = 0
    /\ StackSize \in Nat \ {0} /\ KernelPages \subseteq 0 .. NVirt - 1

VARIABLES state,   \* task_state_t of each slot
          task,    \* mmu_data, SP, A0 and A1 of each slot
          space,   \* the address spaces, by the slot they were made for
          mem,     \* the words of the pages
          fresh,   \* the lowest page that is not allocated
          up_to,   \* the scheduler's last task
          result,  \* what spawn_task_from_elf returned: a pid, or None
          image,   \* file and arguments of each slot (not in the code)
          faulted  \* the kernel has written through an invalid address

vars == <<state, task, space, mem, fresh, up_to, result, image, faulted>>

Pids == 0 .. MaxPid - 1
None == -1
NULL == 0
Virt == 0 .. NVirt - 1
Words == 0 .. PageSize - 1

\* What is in a word.
Zero == <<"zero", 0, 0>>
File(s, j) == <<"file", s, j>>
Char(a, j) == <<"char", a, j>>
Ptr(v) == <<"ptr", 0, v>>

KernelFrame(v) == NPages + 1 + v
Frames == (1 .. NPages) \cup {KernelFrame(v) : v \in KernelPages}
Unmapped == [page |-> NULL, flags |-> {}]

\* The address space create_mmu_table makes: the kernel, and nothing else.
Blank == [v \in Virt |-> IF v \in KernelPages
                         THEN [page |-> KernelFrame(v), flags |-> {"R", "W", "X"}]
                         ELSE Unmapped]

NoTask == [mmu |-> None, sp |-> 0, argc |-> 0, argv |-> 0]
NoImage == [segs |-> <<>>, args |-> <<>>]

Init ==
    /\ state = [p \in Pids |-> "DEAD"]
    /\ task = [p \in Pids |-> NoTask]
    /\ space = [p \in Pids |-> Blank]
    /\ mem = [f \in Frames |-> [w \in Words |-> Zero]]
    /\ fresh = 1
    /\ up_to = 0
    /\ result = None
    /\ image = [p \in Pids |-> NoImage]
    /\ faulted = FALSE

-----------------------------------------------------------------------------
(* The work is passed along as a record m: the address space, the pages,    *)
(* the first free page, the highest address so far, and whether the kernel  *)
(* has faulted.                                                             *)

\* mmu_alloc.  A page that is mapped already stays, and the result is NULL; without
\* a free page the address is mapped to page NULL.
MmuAlloc(m, v, flags) ==
    IF m.map[v] # Unmapped THEN [m |-> m, page |-> NULL]
    ELSE LET page == IF m.fresh =< NPages THEN m.fresh ELSE NULL
         IN [m |-> [m EXCEPT !.map[v] = [page |-> page, flags |-> flags],
                             !.fresh = IF page = NULL THEN @ ELSE @ + 1],
             page |-> page]

\* W rules out X.
SegFlags(raw) == {"U"} \cup (raw \cap {"R"})
                 \cup IF "W" \in raw THEN {"W"} ELSE raw \cap {"X"}

Offset(seg) == seg.va % PageSize
PageCount(seg) == (seg.ms + Offset(seg) + PageSize - 1) \div PageSize
PagesOf(seg) == {seg.va \div PageSize + i : i \in 0 .. PageCount(seg) - 1}

\* Files are well formed, and their segments lie in the address space.
ASSUME FilesAssumption ==
    /\ \A elf \in Elfs :
          /\ elf.segs \in Seq([load : BOOLEAN, va : Nat, fs : Nat, ms : Nat,
                              flags : SUBSET {"R", "W", "X"}])
          /\ \A s \in DOMAIN elf.segs : \A i \in 0 .. PageCount(elf.segs[s]) - 1 :
                (elf.segs[s].va + i * PageSize) \div PageSize \in Virt
    /\ ArgLists \subseteq Seq(Nat)

\* The words of the arguments, each with its 0.
TextLen(args) ==
    LET len[n \in 0 .. Len(args)] == IF n = 0 THEN 0 ELSE len[n - 1] + args[n] + 1
    IN len[Len(args)]

\* Above every program the address space has room for its stack, its arguments, and
\* the pointers to them.
ASSUME RoomAssumption ==
    \A elf \in Elfs, args \in ArgLists :
       \A v \in {-1} \cup (UNION {PagesOf(elf.segs[s]) : s \in DOMAIN elf.segs}) :
          (v + 1 + StackSize) * PageSize + TextLen(args) + (Len(args) + 1) * PtrSize
             =< NVirt * PageSize

\* How many words are copied to page i.  The page the file ends in is copied as a
\* whole, and the page after it too in part; the result may be negative.
CopySize(seg, i) ==
    IF seg.fs + Offset(seg) >= i * PageSize THEN PageSize
    ELSE IF (i - 1) * PageSize < seg.fs + Offset(seg) THEN seg.fs - (i - 1) * PageSize
    ELSE 0

\* memcpy of n words of segment s, from word from on, to word to of a page.  With a
\* negative n, which is huge as size_t, the end wraps below the start: nothing is
\* copied.
Memcpy(m, page, to, s, from, n) ==
    IF n =< 0 THEN m
    ELSE IF page = NULL THEN [m EXCEPT !.fault = TRUE]
    ELSE [m EXCEPT !.mem[page] = [w \in Words |->
             IF w \in to .. to + n - 1 THEN File(s, from + w - to) ELSE @[w]]]

\* A mistake: the source is not moved back by the offset of the segment.
CopyUnshifted(m, page, seg, s, i) ==
    IF seg.fs = 0 THEN m
    ELSE IF i = 0 THEN Memcpy(m, page, Offset(seg), s, 0, CopySize(seg, i) - Offset(seg))
    ELSE Memcpy(m, page, 0, s, i * PageSize, CopySize(seg, i))

\* Page i of segment s gets its part of the file.
Copy(m, page, seg, s, i) ==
    IF seg.fs = 0 THEN m
    ELSE IF i = 0 THEN Memcpy(m, page, Offset(seg), s, 0, CopySize(seg, i) - Offset(seg))
    ELSE Memcpy(m, page, 0, s, i * PageSize - Offset(seg), CopySize(seg, i))

\* A mistake: whatever is mapped there is written to.
ReusableAny(entry) == entry # Unmapped

\* A page that could not be mapped is used if it is a frame (mmu_entry_frame: one
\* of R, W and X is set) and the user's already.
Reusable(entry) == "U" \in entry.flags /\ entry.flags \cap {"R", "W", "X"} # {}

\* One turn of the loop over the pages of a segment; a page that is neither new
\* nor the user's is skipped.
LoadPage(m, seg, s, i) ==
    LET virt == seg.va + i * PageSize
        new == MmuAlloc(m, virt \div PageSize, SegFlags(seg.flags))
        entry == new.m.map[virt \div PageSize]
        moved == [new.m EXCEPT !.max = IF virt > @ THEN virt ELSE @]
    IN IF m.fault THEN m
       ELSE IF new.page # NULL THEN Copy(moved, new.page, seg, s, i)
       ELSE IF Reusable(entry) THEN Copy(moved, entry.page, seg, s, i)
       ELSE new.m

\* The loops are functions of the number of rounds.
LoadSegment(m, seg, s) ==
    LET acc[n \in 0 .. PageCount(seg)] ==
          IF n = 0 THEN m ELSE LoadPage(acc[n - 1], seg, s, n - 1)
    IN IF seg.load THEN acc[PageCount(seg)] ELSE m

LoadSegments(m, elf) ==
    LET acc[n \in 0 .. Len(elf.segs)] ==
          IF n = 0 THEN m ELSE LoadSegment(acc[n - 1], elf.segs[n], n)
    IN acc[Len(elf.segs)]

\* A mistake: the address is rounded down.
StackPageDown(m) == m.max \div PageSize

\* The page the stack starts on: the highest address, rounded up.
StackPage(m) == (m.max + PageSize - 1) \div PageSize

UserData == {"R", "W", "U"}

\* The results of mmu_alloc are not looked at.
MapStack(m) ==
    LET acc[n \in 0 .. StackSize] ==
          IF n = 0 THEN m ELSE MmuAlloc(acc[n - 1], StackPage(m) + n - 1, UserData).m
    IN acc[StackSize]

\* Base of the last page of the stack; SP starts below it.
LastStackAddr(m) == (StackPage(m) + StackSize - 1) * PageSize

-----------------------------------------------------------------------------
(* The arguments.  a is the work with the page that is being filled, its    *)
(* address, the fill level, the page after it and the addresses of the      *)
(* strings so far.                                                          *)

\* A mistake: the address of the page is not updated.
TurnPageStale(a) ==
    LET new == MmuAlloc(a.m, a.last, UserData)
    IN [a EXCEPT !.m = new.m, !.page = new.page, !.last = @ + 1, !.offset = 0]

\* The next page.
TurnPage(a) ==
    LET new == MmuAlloc(a.m, a.last, UserData)
    IN [a EXCEPT !.m = new.m, !.page = new.page, !.virt = a.last * PageSize,
                 !.last = @ + 1, !.offset = 0]

\* One value of n words, on the next page if this one is full.
Put(a, value, n) ==
    LET b == IF a.offset >= PageSize THEN TurnPage(a) ELSE a
    IN IF b.m.fault \/ b.page = NULL THEN [b EXCEPT !.m.fault = TRUE]
       ELSE [b EXCEPT !.m.mem[b.page][b.offset] = value, !.offset = @ + n]

\* The characters of argument k and the 0 behind them.
PutArg(a, args, k) ==
    LET acc[n \in 0 .. args[k] + 1] ==
          IF n = 0 THEN [a EXCEPT !.strings = Append(@, a.virt + a.offset)]
          ELSE Put(acc[n - 1], Char(k, n - 1), 1)
    IN acc[args[k] + 1]

PutArgs(a, args) ==
    LET acc[n \in 0 .. Len(args)] == IF n = 0 THEN a ELSE PutArg(acc[n - 1], args, n)
    IN [acc[Len(args)] EXCEPT !.offset = @ + ((-@) % PtrSize)]

PutPointers(a) ==
    LET acc[n \in 0 .. Len(a.strings)] ==
          IF n = 0 THEN a ELSE Put(acc[n - 1], Ptr(a.strings[n]), PtrSize)
    IN acc[Len(a.strings)]

-----------------------------------------------------------------------------
Dead == {p \in Pids : state[p] = "DEAD"}

\* A mistake: the search runs downwards.
FreePidHighest(p) == p \in Dead /\ \A q \in Dead : q =< p

\* The first slot that is free.
FreePid(p) == p \in Dead /\ \A q \in Dead : p =< q

\* A mistake: every task is loaded into the table in use.
RootInUse(p) == 0

\* get_mmu for the first task, create_mmu_table for the others.
Root(p) == p

Loaded(p, elf) ==
    LoadSegments([map |-> space[Root(p)], mem |-> mem, fresh |-> fresh, max |-> 0,
                  fault |-> FALSE], elf)

schedule_task(p) == up_to' = IF p > up_to THEN p ELSE up_to

\* The registers, the state and the address space of the new task.
Finish(p, elf, args, sp, strings, done) ==
    /\ space' = [space EXCEPT ![Root(p)] = done.m.map]
    /\ mem' = done.m.mem
    /\ fresh' = done.m.fresh
    /\ task' = [task EXCEPT ![p] =
          [mmu |-> Root(p), sp |-> sp, argc |-> Len(args),
           argv |-> strings.virt + strings.offset]]
    /\ state' = [state EXCEPT ![p] = "READY"]
    /\ schedule_task(p)
    /\ result' = p
    /\ image' = [image EXCEPT ![p] = [segs |-> elf.segs, args |-> args]]
    /\ UNCHANGED faulted

spawn_task_from_elf(elf, args) ==
    \/ /\ ~elf.exec \/ Dead = {}
       /\ result' = None
       /\ UNCHANGED <<state, task, space, mem, fresh, up_to, image, faulted>>
    \/ \E p \in Pids :
          /\ elf.exec /\ FreePid(p)
          /\ LET m == Loaded(p, elf)
                 stacked == MapStack(m)
                 begin == TurnPage([m |-> stacked, page |-> NULL, virt |-> 0,
                             offset |-> 0, last |-> StackPage(m) + StackSize,
                             strings |-> <<>>])
                 strings == PutArgs(begin, args)
                 done == PutPointers(strings)
             IN \/ /\ ~done.m.fault
                   /\ Finish(p, elf, args, LastStackAddr(m) - PtrSize, strings, done)
                \/ /\ done.m.fault
                   /\ faulted' = TRUE
                   /\ UNCHANGED <<state, task, space, mem, fresh, up_to, result, image>>

Next ==
    /\ ~faulted
    /\ \E elf \in Elfs, args \in ArgLists : spawn_task_from_elf(elf, args)

Spec == Init /\ [][Next]_vars

-----------------------------------------------------------------------------
Ready == {p \in Pids : state[p] = "READY"}
Entry(p, addr) == space[task[p].mmu][addr \div PageSize]

\* Task p finds a value at an address.
Reads(p, addr, value) ==
    /\ "U" \in Entry(p, addr).flags /\ Entry(p, addr).page # NULL
    /\ mem[Entry(p, addr).page][addr % PageSize] = value

Segments(p) == {s \in DOMAIN image[p].segs : image[p].segs[s].load}
Program(p) == {image[p].segs[s] : s \in Segments(p)}

\* Every segment may be read, written or executed: a page without any of these
\* rights is not taken for a frame, and what shares it is left out.
Accessible(segs) == \A seg \in segs : seg.flags # {}

\* A task that was spawned finds every word of the file's segments at the address
\* the file gives it, whatever was loaded, mapped and spawned afterwards, and also
\* where two segments share a page.  (Segments on the kernel's pages are skipped,
\* and so is what shares a page with a segment without rights.)
FileWordsLoaded ==
    \A p \in Ready : \A s \in Segments(p) :
       LET seg == image[p].segs[s] IN
       Accessible(Program(p)) /\ PagesOf(seg) \cap KernelPages = {} =>
          \A j \in 0 .. seg.fs - 1 : Reads(p, seg.va + j, File(s, j))

\* What A0 and A1 promise: A1 points at A0 pointers, and through the task's own
\* page table each leads to one argument, complete with its 0, also where a
\* string or the array of pointers runs over the end of a page.
ArgvReadable ==
    \A p \in Ready :
       /\ task[p].argc = Len(image[p].args)
       /\ \A k \in 1 .. task[p].argc : \E addr \in 0 .. NVirt * PageSize - 1 :
             /\ Reads(p, task[p].argv + (k - 1) * PtrSize, Ptr(addr))
             /\ \A j \in 0 .. image[p].args[k] : Reads(p, addr + j, Char(k, j))

\* Two tasks never have a page in common.
UserFrames(p) == {e.page : e \in {space[task[p].mmu][v] : v \in Virt}} \cap 1 .. NPages
TasksPrivate ==
    \A p, q \in Ready : p # q => UserFrames(p) \cap UserFrames(q) = {}

\* A file whose segments lie where the kernel lies does not overwrite the kernel
\* and gives nobody access to it.
KernelUntouched ==
    \A v \in KernelPages :
       /\ \A w \in Words : mem[KernelFrame(v)][w] = Zero
       /\ \A p \in Pids : space[p][v] = Blank[v]

\* The addresses from which the loop over the pages of a segment goes on.
PageAddrs(seg) == {seg.va + i * PageSize : i \in 0 .. PageCount(seg) - 1}

\* The pages of the stack below SP are writable and no part of the program, but for
\* one: if the highest of the program's addresses lies on a page boundary, the
\* stack begins on that very page, and with two pages of stack SP points into it.
\* (Pages of the kernel in the way stay the kernel's.)
StackPrivate ==
    \A p \in Ready :
       LET used == UNION {PagesOf(seg) : seg \in Program(p)}
           addrs == UNION {PageAddrs(seg) : seg \in Program(p)}
           Last(a) == a \in addrs /\ \A b \in addrs : b =< a
       IN Accessible(Program(p)) /\ used \cap KernelPages = {} =>
          \A k \in 1 .. StackSize - 1 :
             LET v == (task[p].sp - (k - 1) * PageSize) \div PageSize IN
             v \notin KernelPages /\ ~Last(v * PageSize) =>
                v \notin used /\ UserData \subseteq space[task[p].mmu][v].flags

\* The tasks fill the table from its start, and the scheduler counts exactly them:
\* the state in which the harts start (the initial state of TaskSwitch).
ScheduledAreReady == Ready # {} => Ready = 0 .. up_to
=============================================================================
