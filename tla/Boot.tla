--------------------------------- MODULE Boot ---------------------------------
(***************************************************************************)
(* kinit, which composes the parts of the kernel once: it reads the device *)
(* tree (Fdt), lays out the page allocator (init_pages, mark_as_used),     *)
(* turns the MMU on, reads the two programs from the ram disk (Fat16),     *)
(* checks and spawns them, and starts the harts.  Addresses are in bytes,  *)
(* with a page of PageSize of them.  What spawning does is in Loader, what *)
(* the harts do afterwards in TaskSwitch.                                  *)
(***************************************************************************)
EXTENDS Fdt, Fat16

CONSTANTS PageSize,
          PagesBottom,   \* pages_bottom of the linker script
          Stack,         \* an address in the stack of the boot hart
          KernelTables,  \* tables create_mmu_table needs besides the root
          Images, Plain, \* contents of the initrd, and the few used with all but the
          Usual          \* usual device trees

ASSUME BootAssumption ==
    /\ PageSize \in Nat \ {0} /\ KernelTables \in Nat
    /\ PagesBottom \in Nat /\ Stack \in 0 .. PagesBottom - 1
    /\ {"initd", "uwu"} \subseteq Names /\ \A m \in Images : Written(m)
    /\ Plain \subseteq Images /\ Usual \subseteq DOMAIN Trees

VARIABLES step,     \* where kinit is
          got,      \* what it found in the device tree
          cpu_count,
          heap,     \* memory_start, its size, heap_bottom and the number of counters
          marked,   \* the counters that are not 0
          root,     \* the table in satp, NULL while the MMU is off
          space,    \* how its pointers are written: physical or moved to the kernel's half
          tasks,    \* what spawn_task_from_elf returned
          hart, nextHart,  \* hartid and the loop variable over harts
          started   \* the calls of sbi_hart_start so far

places == <<heap, marked, root, space>>
harts == <<hart, nextHart, started>>
vars == <<tree, call, fatVars, step, got, cpu_count, places, tasks, harts>>

-----------------------------------------------------------------------------
\* The lookups of kinit, init_pages and init_interrupts: in the node another one found,
\* and where kinit goes on.
Lookup(fn, arg, node, next) == [fn |-> fn, arg |-> <<arg>>, node |-> node, next |-> next]

Lookups ==
    [cpus   |-> Lookup("find", "cpu", "cpus", "root"),
     root   |-> Lookup("path", "", "none", "acells"),
     acells |-> Lookup("prop", "#address-cells", "root", "scells"),
     scells |-> Lookup("prop", "#size-cells", "root", "memory"),
     memory |-> Lookup("find", "memory", "none", "reg"),
     reg    |-> Lookup("prop", "reg", "memory", "pages"),
     chosen |-> Lookup("path", "chosen", "none", "start"),
     start  |-> Lookup("prop", "linux,initrd-start", "chosen", "end"),
     end    |-> Lookup("prop", "linux,initrd-end", "chosen", "reserve"),
     plic   |-> Lookup("find", "plic", "none", "preg"),
     preg   |-> Lookup("prop", "reg", "plic", "interrupts")]

HartIds == {items[k].unit : k \in Nodes("cpu")}

Init ==
    /\ tree \in DOMAIN Trees /\ call = NoCall
    /\ hart \in HartIds /\ nextHart = 0 /\ started = <<>>
    /\ step = "verify"
    /\ got = [s \in DOMAIN Lookups \cup {"none"} |-> NULL]
    /\ cpu_count = 0
    /\ heap = [start |-> 0, total |-> 0, bottom |-> 0, counters |-> 0]
    /\ marked = {} /\ root = NULL
    /\ space = [structure |-> "phys", strings |-> "phys", initrd |-> "phys", plic |-> "none"]
    /\ tasks = <<>>
    /\ disk = CHOOSE m \in Plain : TRUE
    /\ count = 0 /\ pc = "unread" /\ want = "initd" /\ cluster = 0 /\ i = 0 /\ buf = <<>>

\* verify_fdt compares two words of the header; kinit stops if they are wrong.
verify_fdt ==
    /\ step = "verify"
    /\ step' \in {"cpus", "halt"}
    /\ UNCHANGED <<tree, call, fatVars, got, cpu_count, places, tasks, harts>>

Ask ==
    /\ step \in DOMAIN Lookups /\ call = NoCall
    /\ call' = Called(Lookups[step].fn, Lookups[step].arg, got[Lookups[step].node])
    /\ UNCHANGED <<tree, fatVars, step, got, cpu_count, places, tasks, harts>>

Walk ==
    /\ FdtStep
    /\ UNCHANGED <<fatVars, step, got, cpu_count, places, tasks, harts>>

\* The result of a lookup.  The loop over the cpus goes on from each of them; a
\* property that is not there is read through NULL.
Answer ==
    LET next == Lookups[step].next IN
    /\ call # NoCall /\ call.done
    /\ got' = [got EXCEPT ![step] = call.ret]
    /\ call' = NoCall
    /\ \/ step = "cpus" /\ call.ret # NULL /\ cpu_count' = cpu_count + 1 /\ step' = step
       \/ call.fn = "prop" /\ call.ret = NULL /\ step' = "lost" /\ UNCHANGED cpu_count
       \/ /\ ~(step = "cpus" /\ call.ret # NULL) /\ ~(call.fn = "prop" /\ call.ret = NULL)
          /\ step' = next
          /\ UNCHANGED cpu_count
    /\ UNCHANGED <<tree, fatVars, places, tasks, harts>>

-----------------------------------------------------------------------------
(* The page allocator.                                                      *)

addr_cell == be_to_le(1, got["acells"])
size_cell == be_to_le(1, got["scells"])
memory_start == be_to_le(addr_cell, got["reg"])
memory_size == be_to_le(size_cell, got["reg"] + addr_cell)

\* A mistake: the kernel is not taken off at all.
HeapBytesWhole == memory_size

\* The size of memory in bytes, less the size of the kernel in pages.
HeapBytes == memory_size - (PagesBottom - memory_start) \div PageSize

init_pages ==
    LET page_rc_count == ((HeapBytes \div PageSize) \div PageSize) * 2 IN
    /\ step = "pages"
    /\ heap' = [start |-> memory_start, total |-> memory_size,
                bottom |-> PagesBottom + page_rc_count * PageSize,
                counters |-> (page_rc_count * PageSize) \div 2]
    /\ step' = "chosen"
    /\ UNCHANGED <<tree, call, fatVars, got, cpu_count, marked, root, space, tasks, harts>>

\* The counters mark_as_used sets; there is none for a page up to heap_bottom.
mark_as_used(page, size) ==
    IF page > heap.bottom
    THEN {(page - heap.bottom) \div PageSize + c : c \in 0 .. (size + PageSize - 1) \div PageSize - 1}
    ELSE {}

initrd_start == be_to_le(1, got["start"])
initrd_end == be_to_le(1, got["end"])

\* kinit passes the address of a local variable, and numbers of pages.
Reserve ==
    /\ step = "reserve"
    /\ marked' = mark_as_used(Stack, 1)
                   \cup mark_as_used(initrd_start, (initrd_end - initrd_start + PageSize - 1) \div PageSize)
    /\ step' = "table"
    /\ UNCHANGED <<tree, call, fatVars, got, cpu_count, heap, root, space, tasks, harts>>

\* What alloc_pages(1) looks at.
FreeCounters == (0 .. heap.counters - 2) \ marked

\* create_mmu_table and set_mmu: the first free pages become tables.  Without them the
\* kernel is not mapped when the MMU is turned on.
create_mmu_table ==
    /\ step = "table"
    /\ LET tables == {c \in FreeCounters : Cardinality({d \in FreeCounters : d < c}) =< KernelTables}
       IN \/ /\ Cardinality(FreeCounters) > KernelTables
             /\ root' = heap.bottom + Min(tables) * PageSize
             /\ marked' = marked \cup tables
             /\ step' = "relocate"
          \/ /\ Cardinality(FreeCounters) =< KernelTables
             /\ step' = "lost"
             /\ UNCHANGED <<root, marked>>
    /\ UNCHANGED <<tree, call, fatVars, got, cpu_count, heap, space, tasks, harts>>

\* Nothing happens to a pointer while the MMU is off.
phys2safe(p) == IF root # NULL THEN "safe" ELSE p

\* A mistake: one of the pointers of the device tree is forgotten.
RelocateNotStrings ==
    /\ step = "relocate"
    /\ space' = [space EXCEPT !.structure = phys2safe(@), !.initrd = phys2safe(@)]
    /\ step' = "plic"
    /\ UNCHANGED <<tree, call, fatVars, got, cpu_count, heap, marked, root, tasks, harts>>

\* fdt_phys2safe, and kinit's pointers to the initrd.
Relocate ==
    /\ step = "relocate"
    /\ space' = [space EXCEPT !.structure = phys2safe(@), !.strings = phys2safe(@), !.initrd = phys2safe(@)]
    /\ step' = "plic"
    /\ UNCHANGED <<tree, call, fatVars, got, cpu_count, heap, marked, root, tasks, harts>>

\* The registers of the interrupt controller that init_interrupts writes are not modelled.
init_interrupts ==
    /\ step = "interrupts"
    /\ space' = [space EXCEPT !.plic = phys2safe("phys")]
    /\ step' = "initrd"
    /\ UNCHANGED <<tree, call, fatVars, got, cpu_count, heap, marked, root, tasks, harts>>

-----------------------------------------------------------------------------
(* The programs.                                                            *)

\* The value of a property, of any number of words.
Value(item) == FoldLeft(LAMBDA x, c : x * Radix + c, 0, item.cells)
Chosen(key) == CHOOSE k \in Items : items[k].t = "prop" /\ items[k].name = key

\* The image is where the firmware put it: be_to_le reads one word.
Located == /\ initrd_start = Value(items[Chosen("linux,initrd-start")])
           /\ initrd_end = Value(items[Chosen("linux,initrd-end")])

\* verify_initrd looks at the image.  The upper word of an address of two is near 0,
\* where there is no memory to read a signature from.
FirstLook ==
    /\ step = "initrd" /\ pc = "unread"
    /\ \/ /\ Located
          /\ disk' \in IF tree \in Usual THEN Images ELSE Plain
          /\ pc' = "verify" /\ step' = step
       \/ /\ ~Located
          /\ step' = "lost"
          /\ UNCHANGED <<disk, pc>>
    /\ UNCHANGED <<tree, call, count, want, cluster, i, buf, got, cpu_count, places, tasks, harts>>

Read ==
    /\ FatStep
    /\ UNCHANGED <<tree, call, step, got, cpu_count, places, tasks, harts>>

\* What the buffer starts with.  If no cluster was copied that is what malloc left
\* there: for the second program possibly the first one, whose buffer was freed.
Starts == IF buf # <<>> THEN {buf[1]}
          ELSE {<<"free", 1>>} \cup {<<f, 0>> : f \in {"initd"} \ {want}}

\* The header of a program is its first word.  NULL is refused.
verify_elf(start) ==
    LET h == disk.elf[start[1]] IN
    /\ pc = "done" /\ start[2] = 0
    /\ h.magic /\ h.class = 2 /\ h.encoding = 1 /\ h.version = 1 /\ h.machine = 243

\* spawn_task_from_elf returns NULL for a file that is not executable.
Spawned(start) == IF disk.elf[start[1]].type = "exec" THEN start[1] ELSE "null"

\* kinit does the same with both tasks, and uses the first one afterwards.  verify_elf
\* ends by reading the section header of the names, wherever the file says it is.
Spawn ==
    /\ step = "initrd" /\ pc \in {"done", "null"}
    /\ \E start \in Starts :
       \/ ~verify_elf(start) /\ step' = "halt" /\ UNCHANGED <<tasks, fatVars>>
       \/ verify_elf(start) /\ ~disk.elf[start[1]].sections /\ step' = "lost" /\ UNCHANGED <<tasks, fatVars>>
       \/ /\ verify_elf(start) /\ disk.elf[start[1]].sections /\ want = "initd"
          /\ tasks' = <<Spawned(start)>>
          /\ want' = "uwu" /\ pc' = "find" /\ cluster' = 0 /\ i' = 0 /\ buf' = <<>>
          /\ UNCHANGED <<disk, count, step>>
       \/ /\ verify_elf(start) /\ disk.elf[start[1]].sections /\ want = "uwu"
          /\ tasks' = Append(tasks, Spawned(start))
          /\ step' = IF tasks[1] = "null" THEN "lost" ELSE "harts"
          /\ UNCHANGED fatVars
    /\ UNCHANGED <<tree, call, got, cpu_count, places, harts>>

-----------------------------------------------------------------------------
(* The harts.                                                               *)

\* A mistake: one hart too many.
StartHartPast ==
    /\ step = "harts" /\ nextHart =< cpu_count
    /\ started' = IF nextHart # hart THEN Append(started, nextHart) ELSE started
    /\ nextHart' = nextHart + 1
    /\ UNCHANGED <<tree, call, fatVars, step, got, cpu_count, places, tasks, hart>>

\* One round of the loop: sbi_hart_start for all but the hart kinit runs on.
StartHart ==
    /\ step = "harts" /\ nextHart < cpu_count
    /\ started' = IF nextHart # hart THEN Append(started, nextHart) ELSE started
    /\ nextHart' = nextHart + 1
    /\ UNCHANGED <<tree, call, fatVars, step, got, cpu_count, places, tasks, hart>>

\* init_hart_helper does not return.
Leave ==
    /\ step = "harts" /\ nextHart >= cpu_count
    /\ step' = "running"
    /\ UNCHANGED <<tree, call, fatVars, got, cpu_count, places, tasks, harts>>

Next ==
    \/ verify_fdt \/ Ask \/ Walk \/ Answer
    \/ init_pages \/ Reserve \/ create_mmu_table \/ Relocate \/ init_interrupts
    \/ FirstLook \/ Read \/ Spawn
    \/ StartHart \/ Leave

Spec == Init /\ [][Next]_vars

\* kinit runs alone, with interrupts off.
FairSpec == Spec /\ WF_vars(Next)

-----------------------------------------------------------------------------
\* Whatever the MMU's state, kinit follows only pointers that are mapped: physical ones
\* before set_mmu, those in the kernel's half after it.  phys2safe does nothing while
\* the MMU is off, so the order of set_mmu and the conversions matters.
Mapped(p) == p = IF root = NULL THEN "phys" ELSE "safe"
PointersMapped ==
    /\ ~call.done => Mapped(space.structure)
    /\ ~call.done /\ call.fn = "prop" => Mapped(space.strings)
    /\ step = "initrd" => Mapped(space.initrd) /\ Mapped(space.plic)

\* init_pages subtracts pages from bytes and rounds down to PageSize squared bytes.  The
\* two make up for each other: if memory is a multiple of that, and the kernel takes at
\* least a page and with the counters fits into one such block, then every page that has a
\* counter is memory, and behind the kernel.  The first page table is one of them, and not
\* the first page of the initrd, unless that is empty.
HeapInsideRam ==
    LET block == PageSize * PageSize
        inside == /\ heap.bottom - heap.start =< block
                  /\ heap.start + PageSize =< PagesBottom
    IN heap.total > 0 /\ heap.total % block = 0 /\ inside =>
          /\ heap.bottom >= PagesBottom + 2 * heap.counters
          /\ heap.bottom + heap.counters * PageSize =< heap.start + heap.total
          /\ root # NULL => /\ root >= heap.bottom
                            /\ heap.bottom < initrd_start /\ initrd_start < initrd_end
                                 => root # (initrd_start \div PageSize) * PageSize

\* When the boot hart leaves kinit for the tasks, initd is the first task, and uwu the
\* second if its file is executable: kinit does not look at what spawning it returned.
\* Both are what the ram disk has under these names, if they are unambiguous there and do
\* not use the last cluster.  The firmware was asked to start every other hart of the
\* machine once, and no hart that does not exist; harts are taken to be numbered from 0,
\* with names that do not fill their last word.  It is never asked to start the hart that
\* asks.
Resumable == \A k \in Nodes("cpu") : ~NameFillsWord(Offset(k))
Readable(f) == Unambiguous(f) /\ count + 1 \notin Range(files[f].chain)
EveryHartStarted ==
    /\ step = "running" /\ Readable("initd") /\ Readable("uwu") =>
          tasks = <<"initd", IF disk.elf["uwu"].type = "exec" THEN "uwu" ELSE "null">>
    /\ step = "running" /\ Resumable /\ HartIds = 0 .. Cardinality(HartIds) - 1 =>
          /\ Range(started) = HartIds \ {hart}
          /\ Len(started) = Cardinality(HartIds) - 1
    /\ hart \notin Range(started)

\* kinit comes to an end: it runs the tasks, or stops because of what it was given, or
\* faults on a missing property, initrd or section header.  A device tree in which the
\* name of a cpu fills its last word is left out: the search that continues behind it can
\* land on a word that is no token, where it stays forever.
Ended == step \in {"running", "halt", "lost"} \/ pc = "halt"
BootEnds == Resumable ~> Ended
==============================================================================
