# ilo pali: a TLA+ model of the kernel

ilo pali is a small RISC-V (sv39) microkernel. This directory models the parts of it
that keep state — pages, heap, page tables, traps, scheduling, the containers, the
loader, the readers of the device tree and the ram disk, and the boot sequence that
puts them together — checks them with TLC on small instances, and proves most of the
safety properties with TLAPS for every size. `PROJECT.json` lists every definition
with the source lines it models, every run, every mutated definition that a property
is known to catch, the findings, the hazards and the theorems.

## 1. Inventory of the system

| part | state | operations | interacts with |
|---|---|---|---|
| page allocator (`memory.c` 1-145, `sync.c`) | one 16-bit counter per page, `mutating_heap` | `alloc_pages`, `incr_page_ref_count`, `dealloc_pages`, `mark_as_used`, `page_ref_count`, `spin_lock`, `spin_unlock` | heap, page tables, loader take pages from it |
| kernel heap (`memory.c` 146-440) | seven free lists, a list of buckets in use, `mutating` | `malloc`, `free`, `realloc` | queue, hash map, FAT16, loader |
| page tables (`mmu.c`) | trees in allocated pages, `satp` | `create_mmu_table`, `identity_map_kernel`, `mmu_map`, `mmu_alloc`, `mmu_remove`, `mmu_change_flags`, `mmu_walk_to_entry`, `mmu_translate`, `set_mmu` | boot, loader, task switch |
| traps (`interrupt.s`, `interrupt.c`, `boot.s`) | trap frames, `sscratch`, `sstatus`, timer | `handle_interrupt`, `interrupt_handler`, `timer_switch`, `jump_out_of_trap` | scheduler, page tables, firmware timer |
| scheduler (`schedulers/roundrobin.c`) | `next`, `up_to` | `schedule_task`, `next_scheduled_task` | called from `timer_switch` by every hart, no lock |
| process table and loading (`process.c`, `elf.c`) | `tasks[]` | `init_processes`, `spawn_task_from_elf`, `get_task` | page tables, scheduler |
| boot (`kernel.c`, `boot.s`) | `cpu_count`, `memory_start`, `heap_bottom`, the pointers of `kinit` | `kinit`, `init_pages`, `init_interrupts`, `init_hart_helper` | everything, once |
| queue (`queue.c`) | ring of items | `queue_enqueue`, `queue_dequeue` | heap |
| hash map (`hashmap.c`) | buckets of five entries | `create_hashmap`, `hashmap_insert` with `hashmap_grow`, `hashmap_empty`, `hashmap_get`, `hashmap_find`, `hashmap_remove` | heap |
| device tree (`fdt.c`) | a pointer into a read-only block of words | `fdt_find`, `fdt_path`, `fdt_get_property`, `fdt_phys2safe` | `kinit`, `init_pages`, `init_interrupts` |
| FAT16 (`fat16.c`) | a position in a chain of clusters, a buffer | `verify_initrd`, `find_file_in_root_directory`, `read_file_full` | `kinit`, heap |
| ELF (`elf.c`) | none | `verify_elf` | `kinit`, loader |
| console, firmware calls, time, strings | none | output, `ecall` | – |
| libc, `initd`, `uwu` | none that the kernel sees | `uart_puts` through `ecall` | traps |

**What is hard.** Harts enter the page allocator and the heap at the same time,
behind spin locks; traps arrive between any two instructions of a task; the
scheduler's globals are shared by all harts *without* a lock; memory runs out in
the middle of an operation; one pair of links in a bucket header serves two
lists; a page table is extended on the way down before it is known that the
mapping will succeed; the boot code trusts names, lengths and links that others
wrote, and its pointers change their meaning when the MMU is turned on. The kernel
itself runs with interrupts off, nothing is persisted, and there are no messages, retries or time-outs.

**What makes it correct.** A page has as many references as its counter says and
is handed out to one caller, zeroed (PageAlloc). Buckets in use do not overlap
and no page is lost (BucketHeap). No two address spaces share a page, and an
operation on one page leaves all the others alone (Mmu). A task resumes with the
integer registers and the pc it stopped with (the floating-point registers are lost,
see section 4), under its own page table, without privilege, and can
be preempted again; every task gets its turn (TaskSwitch). Items leave a queue
in order (RingQueue); a map finds what was inserted (HashMap). A lookup in the
device tree returns what the tree says (Fdt), a file is read completely (Fat16), and
`kinit` comes to an end, with the heap inside memory, its pointers mapped and every
hart started (Boot). The last holds for device trees in which no name of a cpu fills its
last word, and for ram disks whose chains of clusters end: the code follows a cyclic
chain forever, and a search continued behind such a cpu can hang (section 4).

## 2. Modules

```
PagePool  <-- PageAlloc  <-- MCPageAlloc       (<-- means: implemented by)
                         <-- PageAllocProofs
Rotation  <-- TaskSwitch <-- MCTaskSwitch
                         <-- TaskSwitchProofs
AddressSpaces <-- Mmu    <-- MCMmu
                         <-- MmuProofs
BucketHeap               <-- MCBucketHeap
                         <-- BucketHeapProofs
Loader                   <-- MCLoader
                         <-- LoaderProofs

RingQueue, HashMap  in  Containers  in  MCContainers, ContainersProofs   (in means: extended by)
Fdt, Fat16          in  Boot        in  MCBoot, BootProofs
Loops               in  ContainersProofs, LoaderProofs, MmuProofs, BucketHeapProofs, BootProofs
```

Operators whose comment begins with "A mistake" are not part of the model. They
are variants of the definition below them with a plausible bug, and serve to show
that the properties notice it.

### PageAlloc: the page allocator

`rc` is the array of counters, `lock` is `mutating_heap`. Each hart is at a place
`pc` in a call `call`, whose locals are the run of pages, the count and the loop
index; `snap` is the counter value it has loaded and not stored yet. The
functions are split at their shared accesses: take the lock (`spin_lock`), search
(`Scan`), set the counters (`Claim`), clear the pages (`Zero`), and for the two
counting loops read (`Load`) and write (`Store`) per page; `spin_unlock` also
returns to the caller. `dirty` says which pages are not all zero; `held` is what
the callers do with the allocator: how many references they own outside any call.
A caller passes only pages it owns to `incr_page_ref_count` and `dealloc_pages`,
and does not touch the pages reserved at boot. `OnNull` is a call with a page for
which `page_ref_count` returns NULL. The initial state follows `init_pages` and
`kinit`: the initrd is reserved through `mark_as_used` with the length the code
really passes, and page 0 belongs to the first page table.

Faithful oddities: `alloc_pages` never hands out the last possible run
(`Starts`), and page 0 has no counter (`Marked`).

`PagePool` is the promise: unreferenced runs get their first references in one
step, afterwards references come and go one by one.

### TaskSwitch: traps, scheduling, resuming

Per hart: `sscratch` (whose trap frame), `regs` (which context is in the integer
registers and the pc: the task and how far it is, modulo `Ticks`), `satp`, the bits of
`sstatus` with the privilege (`priv`, `sie`, `spp`, `spie`), `armed`, and `step`,
the place in the handler. Shared: `frame` and `state` of each slot, `next` and
`up_to`. `done` counts what a task has executed; it is not in the code.

`handle_interrupt` is the hardware's trap plus the saving of x0 to x31 and pc, which
is all that `interrupt.s` saves; `jump_out_of_trap` restores them and executes
`sret`. The floating-point registers, which neither touches, are not modelled.
`TimerInterrupt`, `ExternalInterrupt` and `Exception` lead to the branches of
`interrupt_handler`. `timer_switch` is `Deschedule` (state and `schedule_task`),
`PickRead`, `PickLoad`, `PickStore`, `PickCompare`, `PickWrap`
(`next_scheduled_task`, one access at a time, as the `-O0` build performs them) and
`Dispatch`. A call of `uart_puts` either returns (`HandleEcall`) or follows a pointer
that cannot be read (`HandleBadCall`). `KernelFault` is a trap of the kernel itself:
its registers go to the frame of the task it was working for. `hung` is a hart in the
panic loop, or one that has used a NULL task.

The software interrupt is left out: nothing sends one at this commit.
`interrupt.c` 204-481 is commented out in the source. Inline assembly is modelled
as it is meant where its constraints (`"=r"` for an input) leave the register to
the compiler.

`Rotation` is the promise of round-robin scheduling on one hart.

### Mmu: page tables

Memory is the set of heap pages read as tables (`tab`) and which of them are
allocated (`taken`). `Descend` is one round of the loop of `mmu_map`, `MapResult`
all of it with the tables it leaves behind; `WalkToEntry` and `Translate` follow
`mmu_walk_to_entry` and `mmu_translate`. `EntryGetAny` models `phys2safe` twice on
physical page 0: what comes out is a small non-NULL pointer (`Wild`) and using it
faults. `identity_map_kernel` ignores failures, and so does `IdentityMapped`. The
functions run one at a time, as only the booting hart calls them. Addresses are
counted in pages; the table index arithmetic is kept with fan-out `Fanout` instead
of 512. `clean_mmu_table` is an empty stub. The translation cache is not modelled.

`AddressSpaces` is the promise: a partial function per space, changed one page at
a time and never by overwriting.

### BucketHeap: malloc, free, realloc

`hdr` holds the header at every address where one may be; `free`, `used` are the
heads of the lists. `format_unused`, `Link`, `Unlink`, `Push` are the list
operations of the code, `free_buckets_alloc` and `Free` the functions around them.
What happens under `GLOBAL_ALLOC.mutating` is one step; `realloc` is two, with
`moving` its locals in between, while other harts call the heap. Sizes are in words
of a header's size, so alignment is not modelled. `live` is what the callers know.

### Containers: RingQueue and HashMap

Neither container has a caller at this commit. `RingQueue` has `queue_enqueue` with
`grow_queue`, and `queue_dequeue`; `entered` is the reference sequence.

In `HashMap`, `ring` is the array of buckets. The values of a bucket are one array of
units, `val_size` per entry, because the code computes offsets into it: `Push` writes
one behind the last, `Slice` reads one, `Without` moves the others down, and `Rehashed`
is the new ring of `hashmap_grow`, whose inner loop is `Moved`, with the offset that
function really uses.
`hashmap_insert` is the call, `Insert` and `hashmap_grow` the rounds of its loop, so
that its end is a liveness property. `Hash` is a constant function of the keys; `order`
is the reference. What is read outside an array is `Junk`.

### Loader: spawn_task_from_elf

One step per call, as `kinit` spawns its tasks one after another on the booting
hart. `state`, `task`, `up_to` are the task table and the scheduler's count, `space`
the address spaces in the terms of `AddressSpaces`, which `Mmu` implements, `mem`
the words of the pages. `LoadPage` is one turn of the loop over the pages of a
segment, with `CopySize` and `Copy` its arithmetic and `Reusable` the test for a page
that is mapped already; `MapStack` the stack; `TurnPage`, `Put`, `PutArg`,
`PutPointers` the arguments. Running out of page *tables* is left to `Mmu`; running
out of pages is modelled. `image` remembers what was asked for.

`ScheduledAreReady` says that the state the loader leaves is the initial state of
`TaskSwitch`.

### Fat16: the ram disk

`verify_initrd` accepts or refuses a geometry (`Accepted`), `Find` is the search of
the root directory, `Copy`, `get_next_cluster` and `CopyEnds` the loop of
`read_file_full`. The image is external: any placement of the files on clusters that
a FAT16 driver can have written (`Written`), or anything that `verify_initrd` refuses.
Directory entries carry a part of a long name or a short entry; the names the kernel asks
for have one part. The directory may hold what is left of deleted files, with the cluster
and the size they had, and names of several parts, one of which may be that of a file;
the search does not tell any of these apart (`Found`, `ClusterOf`, `SizeOf`). A geometry
may have zeros: the division by zero bytes per sector gives all ones (`RootSectors`), as
RISC-V defines it, and zero sectors per cluster give more clusters than FAT16 has
(`ClusterCount`). For an empty file `malloc(0)` returns NULL and so does `Find`. The
clusters of files with other names are not told from free ones: the kernel never starts
a chain there, except behind a stale entry, where the chain of the model ends at once.
Left out of `Written`: chains that meet or return to themselves, and accepted images
with zero bytes per sector.

### Fdt: the device tree

A tree is a sequence of items as a firmware writes them (`Begin`, `Prop`, `End`, `Nop`)
and `Words` lays them out as the structure block: tokens, lengths, names padded to words,
values. `call` is the call at work, and a step of `fdt_find`, `fdt_path` or
`fdt_get_property` one round of its loop: the pointer moves by `After`, the `switch` the
three functions share, or stays where it is if the word is no token. A name is a value
with a length and, after the `@`, a unit; characters are not modelled. `FindPromise`,
`PathPromise` and `PropPromise` say what the functions should return in terms of items
and their depth, without the block. For a path of one part that is the first node of that
whole name at whatever depth, which is what the code returns; see section 4.

### Boot: kinit

Boot composes Fdt and Fat16. `step` is the place in `kinit`; `Lookups` lists its eleven
lookups, those of `init_pages` and `init_interrupts` included, each in the node an
earlier one found. `Ask` calls, `Walk` runs a round, `Answer` takes the result; a missing
property is read through NULL (`lost`). `init_pages`, `mark_as_used` and `FreeCounters`
keep the arithmetic of `memory.c` in bytes and pages; `create_mmu_table` takes the pages
`alloc_pages` would. `space` records whether a pointer is physical or was moved by
`phys2safe`. `FirstLook` and `Read` run `verify_initrd` and `read_file_full` of Fat16; an
initrd whose address was read as a number near 0 lies where there is no memory, and
looking at it faults (`lost`). `verify_elf` and `Spawned` decide what becomes of a program
(how it is loaded is in Loader) by what its buffer starts with: `Starts` is the file, or,
if no cluster was copied, what `malloc` left there. `verify_elf` ends by reading a section
header at the offset the file gives; the field `sections` of a header says whether that
can be read, and if not the kernel faults. `started` is the sequence of calls of
`sbi_hart_start`, `StartHart` a round of the loop over the harts; `Leave` enters
`init_hart_helper`, where TaskSwitch begins. `halt` is `while(1)` after a message.

## 3. Runs

| run | checks | instance |
|---|---|---|
| `page_alloc` | `MutualExclusion`, `CheckedStillTrue`, `RcExact`, `FreshPagesExclusive`, `FreshPagesZeroed`, refinement `PoolSpec`, liveness `LockReleased` | 2 harts, 5 pages, runs of up to 2, counters up to 3 |
| `page_alloc_initrd` | `InitrdNeverHandedOut`: violated | initrd of 2 pages |
| `task_switch_one` | `TypeOK`, `ContextIntegrity`, refinement `RotationSpec` with its liveness | 1 hart, 3 tasks in 4 slots |
| `task_switch_two` | `OwnAddressSpace`, `PreemptibleUserMode`, `StateMatchesHarts`, `NextReset` | 2 harts, 2 tasks in 3 slots; faults, bad pointers and idle interrupts too |
| `task_switch_pick` | `PickedIsScheduled`: violated | 2 harts, 2 tasks |
| `mmu` | `OneOwner`, refinement `SpaceSpec` | 2 spaces, fan-out 4, 10 heap pages |
| `mmu_exhaust` | `UserFramesAllocated`: violated | 8 heap pages |
| `bucket_heap` | `UsedListExact`, `FreeListsSound`, `LiveDisjoint`, `PagesBalanced` | 2 harts, 2 classes, 5 pages, at most 2 buckets in use per class |
| `bucket_heap_phantom` | `InsideChunk`: violated | at most 4 |
| `containers` | `InBounds`, `FifoUntilGrown`; `BucketsBounded`, `LookupsAgree`, liveness `InsertEnds` | queue of capacity 3, up to 4 items, so that it grows once; map of 2 buckets of 2 entries, 4 keys, two of them with the same hash, up to 4 entries and 8 buckets, three pairs of sizes |
| `loader` | `FileWordsLoaded`, `ArgvReadable`, `TasksPrivate`, `KernelUntouched`, `StackPrivate`, `ScheduledAreReady` | 2 slots, 14 pages of 4 words, 3 of them for a stack, 22 files, 4 argument lists |
| `boot` | `AnswersRight`, `PointersMapped`, `HeapInsideRam`, `EveryHartStarted`, `ReadsWholeFile`, `FindsFile`, `OverrunBelowCluster`, `CopiesFromImage`, liveness `BootEnds` | 15 device trees with 1 to 3 harts, booted from each; 4 clusters, 2 files in every placement, 8 directories, 9 geometries, 8 ELF headers per file |

**Bounds and why they are enough.** *page_alloc*: two harts give every order of two
critical sections, and a third one would only wait for the lock; with one reserved
page at each end, five pages leave room for overlapping requests of one and two
pages, for fragmentation and for exhaustion; three references let two harts share a
page and a counter reach its top (`RcMax`). *task_switch_one*: three tasks tell
rotation from alternation, and one slot is free; `Ticks` = 2 tells a stale context
from the current one. `NextBound` is not reached with one hart. *task_switch_two*:
`NextBound` = 4 is two more than the number of tasks, which is what two racing harts
can reach before one resets `next`; larger values repeat the same situation. *mmu*:
the four user pages are chosen to share no table, the last-level table, or a middle
table with each other, to collide with the kernel's page (2) and to hit the kernel
window (40); ten pages run out on different levels of the descent. Translations are
compared on twelve pages, the neighbours of those included. *bucket_heap*: a page
holds three buckets of one class and two of the other with a word left over, and a
large bucket needs two pages, so classes, the page boundary, refilling and exhaustion
all occur; `MaxLive` keeps the passing run short of the point at which a chunk is
used up, which is what the phantom run is about. *containers*: capacity 3 gives every
position of `start` and `end`. Two entries per bucket are the fewest that can
collide, fill a bucket and be removed from its front or its end; two keys stay
together through all growth and one parts from them only when the map has grown
twice; sizes 1 and 2 let values be smaller and larger than keys. `MaxCap` = 8 is
where all bits of the hashes are in use. *loader*: pages of four words let a segment
start and end at every kind of place in a page; the files have segments of one to
three pages, that share a page, lie on the kernel's page, are aligned or not, cannot
be accessed at all, or end in zeros on the same, the next or the third page, or just
behind a boundary; three pages of stack are the fewest with one that the exception of
`StackPrivate` does not concern; the argument lists end before, at and after the end
of a page; two tasks use up slots, and pages in some orders. *boot*: the device trees
have names that end in every position of a word, values that are padded and values
equal to tokens, NOPs, properties of the same name in a child, no `chosen`, a second
one and the only one inside another node, addresses of one and two words, memory that
is a multiple of `PageSize` squared, that is not, and that is too small. Pages of 8
bytes keep the rounding of `init_pages` visible. All images are tried with the usual
tree, and the headers with every tree: the tree has no influence on how a file is
read. Chains have up to three clusters in any order, interleaved; the directories
have labels, short entries, names of up to three entries and deleted files before the
file, a deleted file with its name, and a longer name that ends like it. Files may be
empty. The geometries have one wrong field each, two of them a zero that the code
divides by.

**Deadlock** is checked except where the system really may stop: harts that hang
after a fault, the models that stop at a kernel fault or at exhaustion (heap, page
tables, loader), and `kinit` with an image it refuses.

**Fairness.** `PageAlloc!FairSpec` assumes weak fairness of each hart's steps inside
a function: the kernel runs with interrupts off (`handle_interrupt` never sets SIE,
`Dispatch` clears SPIE for the task only), so a hart inside a function keeps
executing it. Nothing is assumed about a hart *getting* the lock beyond weak
fairness, and `LockReleased` does not need it. `TaskSwitch!FairSpec` assumes weak
fairness of the handlers for the same reason and strong fairness of the timer: a
task that takes another trap is not interruptible for a while, so weak fairness
would allow the timer to be passed over forever, whereas on the machine a pending
timer interrupt is taken before the next instruction of the task. `Boot!FairSpec`
assumes weak fairness of the boot code, which runs alone with interrupts off, and
`HashMap!MapFairness` the same of the caller of `hashmap_insert` until it returns.

## 4. Findings

* **`page_alloc_initrd`** `kernel.c:71` passes a number of pages where
  `mark_as_used` takes bytes; of an initrd of several pages only the first is
  reserved, and `alloc_pages` hands out the others.
* **`task_switch_pick`** `roundrobin.c:31-33`: a hart that reads `next` between
  another hart's increment and reset gets a pid without a task. On a hart number of
  one (`CORES` = 1, the default) this cannot happen.
* **`bucket_heap_phantom`** `memory.c:196`: the last bucket of a chunk links to one
  that was never formatted and reaches out of the chunk. It is handed out when all the
  others are in use and not before (`BucketsStayInside`).
* **`mmu_exhaust`** `mmu.c:233-234`: `mmu_alloc` does not look at the result of
  `alloc_pages` and maps physical page 0 into the process.

Met while modelling, without a run of their own:

* `interrupt.s:18`: a trap saves and restores x0 to x31 and pc; f0 to f31 and fcsr are
  never saved, although `trap_t` has `fs[32]` for them (`interrupt.h:48`) and the tasks
  are built for `rv64gc`, `lp64d`. After a switch a task goes on with the floating-point
  registers of another one. Whether tasks can use them is up to `sstatus.FS`, which the
  kernel leaves as the firmware set it.
* `fdt.c:237`: a node is returned as soon as its name is the rest of the path, without a
  look at its depth; `/chosen` may be a node of that name inside another.
* `fdt.c:157`: a search that continues behind a node rounds up once too often; if the
  name fills its last word (`cpu@100`) it skips a word. From a word that is no token,
  the loop does not move (nor do those of `fdt_path` and `fdt_get_property`), and the
  boot hangs. `AnswersRight` and `BootEnds` leave these trees out.
* `fat16.c:77`: the search does not look at the mark of a deleted entry (0xe5 in its
  first byte), nor whether the part of a name that matches is all of it, so that a
  deleted file, or a longer name that ends like the one wanted, is found instead.
  `Unambiguous` names the files to which this does not happen.
* `memory.c:133`: `incr_page_ref_count` stops at 65535 and `dealloc_pages` does not
  know; with more references than that the counter reaches zero while the page is
  in use. `CountsAreExact` is proved under `MaxRefs =< RcMax` for that reason.
* `interrupt.c:78`: two harts can be given the same task and then share its trap
  frame and `state` (they read the same `next`); `scheduler.h:18-19` says that the
  task is removed from the queue. `ContextIntegrity` is therefore stated for one hart.
  `StateMatchesHarts` holds for any number; its converse does not, as one of the two marks
  the task READY while the other executes it.
* `interrupt.c:200`: `uart_puts` follows the pointer a task passes; if it cannot be read
  the kernel faults and the hart stops.
* `interrupt.c:528`: every fault of every task ends in "INITD FAULTED" and stops
  the hart.
* `interrupt.c:542`: an external interrupt on a hart without a task reads through
  NULL.
* `queue.c:31-34`: growing does not move the items; a full ring with `start` = 0 has
  `end` = 0 and the new item overwrites the oldest.
* `memory.c:219`: `malloc` cannot notice that pages have run out, as
  `phys2safe(NULL)` is not NULL once the MMU is on.
* `process.c:99`: the stack starts at the last page *address* of the program rounded
  up; if that address lies on a page boundary it is the program's own last page, the first
  page of the stack is not mapped, and with two pages of stack SP points into the program.
  `StackPrivate` makes an exception for this page.
* `process.c:83-87`: the page in which the file part of a segment ends is copied as a
  whole, so words that should be zero hold what follows in the file, and the page after
  it gets more of that. If the file part ends before the page that is copied, the unsigned
  difference wraps: the end `memcpy` computes lies below its start, nothing is copied and
  the task is spawned (`Memcpy`).
* `fat16.c:43`: bytes per sector and sectors per cluster are divided by without a test. An
  image with zero bytes per sector can pass the checks that follow; it is left out of
  `Written`.
* `fat16.c:141,149`: the last cluster has number `cluster_count + 1` and is taken for
  the end of a chain; a file that uses it is truncated. If that is its first cluster
  nothing is copied, and the buffer holds what `malloc` left there: for the second
  program possibly the first one, whose buffer was freed.
* `fat16.c:172`: the last cluster is copied as a whole into a buffer of the file's size.
* `fat16.c:171`: a chain that returns to itself is followed forever, and the copy leaves
  the buffer.
* `elf.c:44`: the section header of the names is read at the offset the file gives,
  without a look at the size of the file.
* `kernel.c:62` reserves the stack address of a pointer instead of the device tree.
* `kernel.c:66,69`: the ends of the initrd are read as one word; a firmware that writes
  them with two gives 0, and `verify_initrd` faults on reading a signature near address 0,
  where the machine has no memory.
* `kernel.c:113` reports that the second program was spawned although it does not look at
  what `spawn_task_from_elf` returned.
* `kernel.c:115`: a first program that is not executable makes `spawn_task_from_elf`
  return NULL, which `kinit` dereferences.
* `kernel.c:119`: harts are started by their number from 0, not by the ids the tree
  gives; `EveryHartStarted` is stated for machines where that is the same.
* `memory.c:34` subtracts pages from bytes. The counters are then rounded down to blocks
  of `PAGE_SIZE` squared bytes (16 MiB), which makes up for it if memory is a multiple of
  that and the kernel smaller; `HeapInsideRam` is stated for this case.
* `memory.c:53`: a page behind the last counter has its counter in the first page of the
  heap, which `mark_as_used` then writes to.
* `interrupt.c:103`: the loop that enables interrupts writes 256 words where a context has
  32, and so enables them for the next seven contexts too.
* `hashmap.c:118`: growing looks for value `j` at `j * key_size`; `LookupsAgree` is stated
  for equal sizes once the map has grown. `hashmap.c:200`: removing from a full bucket
  reads behind its arrays. `hashmap.c:225`: a search that is resumed skips the first `*jp`
  entries of every bucket, and one without `ip` writes through NULL.

## 5. Proofs

The theorems hold for every value of the constants that satisfies the named
assumptions of the modules (`PageAllocAssumption`, `TaskSwitchAssumption`,
`MmuAssumption`, ...), which TLC evaluates on every run.

### PageAllocProofs: any finite set of harts, any number of pages

* `LockingCorrect`: `TypeOK`, `MutualExclusion` and `CheckedStillTrue` always hold.
  The inductive invariant is `LockInv`, which adds `CallOK`: what the record of a
  call contains at each place of the code. Without it nothing bounds the page a
  loop is about to count. `CheckedStillTrue` rests on `MutualExclusion`: only the
  hart inside the lock changes a counter. `OneHartInside` is `MutualExclusion` alone.
* `ImplementsPool`: `Spec => PoolSpec`. `Claim` is an `Alloc` because the run chosen
  is still free, `Store` is a `Share`, a `Drop` or a stutter because the value loaded
  is still the counter's.
* `CountsAreExact`: `RcExact`, if no page is given more references than a counter
  holds (`MaxRefs =< RcMax`; the code does not guard against more, see section 4).
  `CountInv` adds to `RcExact` that the references owned and promised stay below
  `MaxRefs`, so that saturation never takes place, and the proof follows how each step
  moves a hart between the sets `Pinned`, `Shared` and `ToShare`.
* `FreshIsExclusive`, `FreshIsZero`: `FreshPagesExclusive` and `FreshPagesZeroed`, under
  the same condition. `FreshInv` says that a claimed page has the counter 1 and, once
  it was cleared, is clean. That nobody else has the page follows from `RcExact`: the
  one reference its counter stands for is that of the call.

### TaskSwitchProofs: any harts, tasks and slots

With `HartInv` = `TypeOK`, `SpaceInv`, `ModeInv`, `NextReset`, `StateMatchesHarts`, for
any number of harts:

* `TypeCorrect`; in particular `up_to` never changes once the tasks are spawned.
* `AddressSpaces`: `OwnAddressSpace`. `SpaceInv` says it of every place in the
  handler, as the table is set long before the task is resumed.
* `Preemption`: `PreemptibleUserMode`. `ModeInv` says which privilege bits a hart has
  at each place of the handler.
* `NextRecovers`: `NextReset`, however many harts race on `next`.
* `StatesMatch`: `StateMatchesHarts`. Only a hart that takes a task marks it RUNNING, and a
  hart marks its task READY before it turns to another one.

For one hart (`Harts = {h}`; with two the statements are false, see section 4) and any
number of tasks:

* `ContextsKept` (`ContextIntegrity`, about the integer registers and the pc),
  `OneHartPicksTasks` (`PickedIsScheduled`, which the run `task_switch_pick` refutes for
  two harts) and `StrictRotation`, the safety part of `RotationSpec`. The invariants are
  `TurnInv`: at each of its accesses the scheduler is exactly one task ahead of the
  hart; `ContextInv`: whether the registers of a task are in the hart or in its frame,
  until the kernel panics.

### ContainersProofs: any initial size and items; any hash and bucket size

* `IndicesInBounds` (`InBounds`) and `FifoBeforeGrowth` (`FifoUntilGrown`). `RingInv`
  relates `start`, `end` and `len`, and each item to its slot of the ring; the ring is
  described with a conditional subtraction, as the provers know little of `%`.
* `DequeueOldest`: as an action property, what `queue_dequeue` hands out is the head of
  the reference sequence.
* `BucketsStayBounded` (`BucketsBounded`): `hashmap_grow` appends to the buckets of the new
  ring without the check for room that `hashmap_insert` makes. The invariant `MapInv` says
  that the ring has a size reached by doubling and that every key is in the bucket its hash
  names. From that follows that the entries of an old bucket go to two new ones which take
  nothing else (`HashSplits`: the two remainders agree), so a new bucket is never longer
  than an old one (`MoveSpreads` for the inner loop, `RehashSpreads` for the outer one).
  The code masks the hash; the remainder of the model is the same for the powers of two
  that `INITIAL_HASHMAP_SIZE` leads to.

### Loops

The loader, `identity_map_kernel`, `free_buckets_alloc`, `hashmap_grow` and the FAT16
reader are counting loops, and a list is followed link by link; the models write both as
recursive functions on `0 .. k`. TLA+ defines such a function by CHOOSE, and `Loops`
proves what is needed to reason about it: that it exists (`LoopExists`), that what every
round keeps holds at the end (`LoopStays`), and the same for what is true after each
number of rounds (`LoopCounts`). They come from the library's theorem on well-founded
relations, through sets instead of predicates (`SetInduction`).

### LoaderProofs: any files, arguments, slots and pages

* `TasksArePrivate` (`TasksPrivate`), `KernelIsUntouched` (`KernelUntouched`) and
  `TasksInOrder` (`ScheduledAreReady`). `Works(lo, base)` is the set of states of the work
  on an address space whose pages were taken from `lo` on: the kernel's entries and words
  are as they were, all other entries lead to pages from `lo` to `fresh`, and what was
  mapped in `base`, the pages of others and a fault stay. Every
  round of every loop stays in it (segments, stack, and in `Fillings(lo, base)` the
  arguments), also when pages run out. The inductive invariant `IInv` adds that
  the spaces of different slots took their pages from different ranges, and that slots
  are filled in order. `FilesAssumption` says that a file's segments lie in the virtual
  pages considered, `RoomAssumption` that above every program there is room for the
  stack, the arguments and the pointers: the code adds up addresses and never looks
  whether they are still below the end of the address space.
* `StacksArePrivate` (`StackPrivate`), for every program whose segments can be accessed
  and keep off the kernel's pages, aligned or not. While segments are loaded, `Tidy` says
  that what is mapped beside the kernel is the user's and starts at or below `m.max`, and
  `Reached` that `m.max` is at or above every page loaded so far. The stack starts at
  `m.max` rounded up (`StackAbove`); so a page of it that is mapped already starts exactly
  at `m.max`, and that is the one the property makes an exception for. The arguments
  that follow do not change what is mapped.
* `ArgumentsAreReadable` (`ArgvReadable`). `Open` says of the page that is being filled
  that it is mapped at the address the code computes and nowhere else, `Shows` that a
  value can be read back below the position reached. Writing a value shows it and keeps
  all that was shown (`PutShows`), also when it has to turn to a new page; counted over
  the characters (`ArgShows`), the arguments (`ArgsShow`), the alignment, which stays on
  the page because a page holds a whole number of pointers (`AlignShows`), and the
  pointers (`PointersShow`), this gives the whole array. Without a page the first
  character makes the kernel fault, so that no task results (`Stuck`, `FaultStays`). Later
  spawns keep it, as they write only to pages they took themselves.

### MmuProofs: any fan-out, heap, kernel and address spaces

* `PagesHaveOneOwner` (`OneOwner`). `OneOwner` speaks about what the roots reach, and is
  not inductive: a table in the middle of a descent is not reached yet. The invariant
  `TreeInv` gives every page of the heap a role: free, in the hands of a caller, a root, a
  table of the second or third level, or a user page, with the one entry that is its
  parent. `Shape` says what entries a table of each level holds, `Owns` that an entry
  that points into the heap is the parent of what it points to, `Owned` the converse, and
  `Accounts` which roles are allocated. Each operation is shown to keep the roles of the
  pages it does not take (`Keeps`), also where `mmu_map` leaves tables behind after
  failing halfway. The proof needs the arithmetic of the table index (the digits of a page
  number) because the kernel's pages are told from a user's by their virtual address:
  `KernelPages` lie below `FirstHeap`, as in the linker script.
* `TreesImplementSpaces` (`SpaceSpec`): what `mmu_translate` answers on the watched pages
  follows `AddressSpaces`. `At`, `Leaf` and `ViewAt` say what a page translates to in terms
  of the three entries on its path. `TreeInv` makes these entries those of one tree only, so
  that writing one of them changes one translation in one space; that two pages with the
  same three digits are the same page is arithmetic again. `Carries` says that a new table,
  being empty, carries the view along, also when the descent stops half way, and
  `MapOutcome` puts the rounds of `mmu_map` together: no translation changes, or that of the
  page asked for, which had none. `create_mmu_table` makes a space with the kernel's
  translations or, out of pages, with some of them.

### BucketHeapProofs: any classes, chunks, harts and pages

The theorems suppose `Roomy`: the buckets of a class that are in use at a time (at most
`MaxLive`) fit into one chunk with a word to spare. Without it the run
`bucket_heap_phantom` hands out the bucket that was never formatted (section 4); with the
values of `memory.c` 4 buckets of 65536 bytes may be in use, and thousands of 16.
`FreeListsSound` speaks of every bucket of a free list but the last, which is that one.

* `UsedListStaysExact` (`UsedListExact`), `FreeListsStaySound` (`FreeListsSound`),
  `LiveStayDisjoint` (`LiveDisjoint`), `PagesStayBalanced` (`PagesBalanced`), and
  `BucketsStayInside` (`InsideChunk`): under `Roomy` the code keeps also what the phantom
  breaks. All follow from `HeapStaysSound`.
* The invariant `HeapInv` says that there are a chunk `base[c]` of every class that has one
  and a length `len[p]` of every run of pages that was taken, such that: runs do not overlap
  (`Runs`), each is one chunk or one large bucket (`Chunked`, `Kept`); the
  free list of a class consists of exactly the buckets of its chunk that are not in use,
  with the phantom at its end (`FreeOK`); the list of buckets in use is linked in both
  directions (`UsedOK`); a bucket in use is a slot of its chunk or begins a run (`LiveOK`);
  and a `realloc` between its two steps still owns the old bucket (`Moves`).
* A list is described by numbering its buckets from the end (`Linked`, `Mirrored`), so that
  pushing and unlinking change the numbering in one place; `ListChain` shows that following
  the links as `Chain` does visits exactly these buckets and ends.
* A class never needs a second chunk: by the pigeonhole principle fewer than `Formatted(c)`
  buckets in use leave a formatted one on the free list (`FormattedLeft`), which is not the
  phantom as that one is last. That buckets of one chunk do not overlap is the arithmetic
  of `Slot`; that others do not is `Runs`.

### BootProofs: any device tree, image, page size and place of the kernel

* `PointersStayMapped` (`PointersMapped`). `PhaseInv` divides the steps of `kinit` into
  those before `set_mmu` and those behind the conversion, and says how each pointer is
  written in each of them.
* `FilesReadWhole` (`ReadsWholeFile`), `FilesAreFound` (`FindsFile`), `OverrunIsBounded`
  (`OverrunBelowCluster`), `CopiesStayInImage` (`CopiesFromImage`). `FatInv` says that
  the buffer of an unambiguous file holds its first `i` clusters and that the loop is at
  the next one of its chain; that the cluster read belongs to this file follows from the
  chains being disjoint. `CopiesFromImage` needs none of that: the cluster of any entry is
  a number, and `verify_initrd` has compared the highest one that has data with the end of
  the image. The images are those `Written` describes: a consistent
  FAT16 file system if `verify_initrd` accepts it (chains are disjoint and without
  repetition, sizes fit their chains, a long entry with the name of a file is not the
  last one), with whatever was deleted from it, anything otherwise.
* `HeapStaysInRam` (`HeapInsideRam`). The heart is `LayoutFits`: with memory `n` blocks of
  `PageSize` squared bytes, the subtraction of pages from bytes makes the quotient at most `n - 1`
  as soon as the kernel takes a page, and the block left over holds the kernel and
  the counters. `RootInv` says that the page of the first table is not one of those
  marked for the initrd.

### Only model-checked

* Liveness (`LockReleased`, the fairness of `RotationSpec`, `InsertEnds`, `BootEnds`) is
  out of the prover's reach.
* `FileWordsLoaded`: as the code copies the page a file ends in as a whole, and part of
  the next one, it depends on how the segments of a file lie to each other. It is checked
  for the files of the run.
* `AnswersRight` and `EveryHartStarted`: they depend on the layout of a tree as a sequence
  of words (`FlattenSeq`), which needs induction over the tree.
* `LookupsAgree`: `hashmap_find` searches the entries of all buckets as one sequence
  (`FlattenSeq`), and the values would need an invariant on the offsets into each array.

## 6. Not modelled

Console, firmware calls, time, strings (I/O, or without state); libc, `initd` and
`uwu` (they print; the FAT16 reader of `initd` is commented out); the registers of the
interrupt controller; functions without an effect (`unschedule_task`, `init_scheduler`,
`clean_mmu_table`); `dump_fdt`, which only prints and whose call is commented out, and
`fdt_get_node_addr`, which has no caller; the hash function, whose values are a constant
of HashMap; a `queue_dequeue` with no place for the item; the bytes `kinit` allocates and
frees for a file (BucketHeap has the heap).

## 7. Plan

Proofs: `LookupsAgree` for maps with keys and values of one size; `FileWordsLoaded` for
the files whose segments keep apart. Further runs could show the truncated last cluster,
the stack of an aligned program, and the values a growing map loses.
