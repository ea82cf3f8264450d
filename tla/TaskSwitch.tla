----------------------------- MODULE TaskSwitch -----------------------------
(***************************************************************************)
(* Traps, task switching and round-robin scheduling: interrupt.s (saving   *)
(* and restoring the integer registers), interrupt.c (interrupt_handler,          *)
(* timer_switch), schedulers/roundrobin.c and the start of a hart in       *)
(* kernel.c.  The scheduler's globals next and up_to have no lock; they    *)
(* are read and written here one access at a time, as the unoptimised      *)
(* build does.                                                             *)
(***************************************************************************)
EXTENDS Integers, FiniteSets

CONSTANTS Harts,      \* harts the device tree lists (CORES)
          NTasks,     \* tasks spawned by kinit before the harts start
          MaxPid,     \* slots of the task table (init_processes)
          TaskCauses, \* traps other than the timer that a task can take
          IdleCauses, \* those a hart can take in do_nothing
          Ticks,      \* bound: contexts of one task are told apart modulo Ticks
          NextBound   \* bound: largest value of next that is followed up

ASSUME TaskSwitchAssumption ==
    /\ NTasks \in Nat \ {0} /\ MaxPid \in Nat /\ NTasks =< MaxPid
    /\ TaskCauses \subseteq {"external", "ecall", "badcall", "breakpoint", "fault"}
    /\ IdleCauses \subseteq {"external"}
    /\ Ticks \in Nat \ {0} /\ NextBound \in Nat /\ NTasks =< NextBound

VARIABLES step,     \* where each hart is: off, user, in a trap, or hung
          sscratch, \* the trap frame of each hart: a task's, or -1 for its own
          regs,     \* the integer registers and the pc of each hart
          frame,    \* xs and pc of each task's trap frame
          done,     \* what each task has executed so far (not in the code)
          state,    \* task_state_t of each slot of the table
          next, up_to,
          n, t,     \* next_scheduled_task: its result, the value it increments
          satp,     \* whose page table each hart uses
          priv, sie, spp, spie, \* privilege and interrupt bits of each hart
          armed     \* whether the timer of each hart is set

status == <<priv, sie, spp, spie>>
sched == <<next, up_to, n, t>>
vars == <<step, sscratch, regs, frame, done, state, sched, satp, status, armed>>

Tasks == 0 .. NTasks - 1
Slots == 0 .. MaxPid - 1
Idle == -1
Context == [task : Slots \cup {Idle}, k : 0 .. Ticks - 1]

\* trap->pid; the slots no task was spawned in are zeroed memory.
Pid(f) == IF f = Idle \/ f \in Tasks THEN f ELSE 0

-----------------------------------------------------------------------------
\* After kinit has spawned the tasks (spawn_task_from_elf schedules each).
Init ==
    /\ step = [h \in Harts |-> "off"]
    /\ sscratch = [h \in Harts |-> Idle]
    /\ regs = [h \in Harts |-> [task |-> Idle, k |-> 0]]
    /\ frame = [f \in Slots |-> [task |-> f, k |-> 0]]
    /\ done = [p \in Slots |-> 0]
    /\ state = [p \in Slots |-> IF p \in Tasks THEN "READY" ELSE "DEAD"]
    /\ next = 0 /\ up_to = NTasks - 1
    /\ n = [h \in Harts |-> 0] /\ t = [h \in Harts |-> 0]
    /\ satp = [h \in Harts |-> Idle]
    /\ priv = [h \in Harts |-> "S"] /\ sie = [h \in Harts |-> FALSE]
    /\ spp = [h \in Harts |-> "U"] /\ spie = [h \in Harts |-> FALSE]
    /\ armed = [h \in Harts |-> FALSE]

Goto(h, s) == step' = [step EXCEPT ![h] = s]

\* sret: the hart takes up the privilege and the interrupt enable it saved.
sret(h) ==
    /\ priv' = [priv EXCEPT ![h] = spp[h]]
    /\ sie' = [sie EXCEPT ![h] = spie[h]]
    /\ spp' = [spp EXCEPT ![h] = "U"]
    /\ spie' = [spie EXCEPT ![h] = TRUE]

\* init_hart_helper: the hart's own frame, SPP and SPIE set, initd's page
\* table, a timer that is already due; it returns into do_nothing.
init_hart_helper(h) ==
    /\ step[h] = "off"
    /\ sscratch' = [sscratch EXCEPT ![h] = Idle]
    /\ spp' = [spp EXCEPT ![h] = "S"]
    /\ spie' = [spie EXCEPT ![h] = TRUE]
    /\ satp' = [satp EXCEPT ![h] = 0]
    /\ armed' = [armed EXCEPT ![h] = TRUE]
    /\ Goto(h, "return")
    /\ UNCHANGED <<regs, frame, done, state, sched, priv, sie>>

-----------------------------------------------------------------------------
(* Outside the kernel.                                                      *)

\* A task executes; nothing is mapped for the zeroed frame of a free slot.
Execute(h) ==
    /\ step[h] = "user" /\ sscratch[h] \in Tasks
    /\ LET k == (regs[h].k + 1) % Ticks
       IN regs' = [regs EXCEPT ![h].k = k]
    /\ done' = [done EXCEPT ![sscratch[h]] = (done[sscratch[h]] + 1) % Ticks]
    /\ UNCHANGED <<step, sscratch, frame, state, sched, satp, status, armed>>

\* A pending interrupt is taken in user mode, or in the kernel if SIE is set.
Interruptible(h) == step[h] = "user" /\ (priv[h] = "U" \/ sie[h])

\* A mistake: nothing is saved.
HandleInterruptUnsaved(h) ==
    /\ spp' = [spp EXCEPT ![h] = priv[h]]
    /\ spie' = [spie EXCEPT ![h] = sie[h]]
    /\ priv' = [priv EXCEPT ![h] = "S"]
    /\ sie' = [sie EXCEPT ![h] = FALSE]
    /\ UNCHANGED <<frame, sscratch, regs, done, state, sched, satp>>

\* The hardware's part of a trap, and handle_interrupt up to the call of
\* interrupt_handler: the integer registers and the pc go to the frame sscratch
\* points to.  fs of that frame is never written: the floating-point registers
\* and fcsr are no part of the context that is saved, and not modelled.
handle_interrupt(h) ==
    /\ spp' = [spp EXCEPT ![h] = priv[h]]
    /\ spie' = [spie EXCEPT ![h] = sie[h]]
    /\ priv' = [priv EXCEPT ![h] = "S"]
    /\ sie' = [sie EXCEPT ![h] = FALSE]
    /\ frame' = IF sscratch[h] = Idle THEN frame
                ELSE [frame EXCEPT ![sscratch[h]] = regs[h]]
    /\ UNCHANGED <<sscratch, regs, done, state, sched, satp>>

TimerInterrupt(h) ==
    /\ Interruptible(h) /\ armed[h]
    /\ armed' = [armed EXCEPT ![h] = FALSE]
    /\ handle_interrupt(h)
    /\ Goto(h, "switch")

ExternalInterrupt(h) ==
    /\ Interruptible(h)
    /\ "external" \in IF sscratch[h] = Idle THEN IdleCauses ELSE TaskCauses
    /\ handle_interrupt(h)
    /\ Goto(h, "external")
    /\ UNCHANGED armed

\* The causes of an exception, badcall an ecall with a pointer that is wrong.
Causes == {"ecall", "badcall", "breakpoint", "fault"}

Exception(h, cause) ==
    /\ step[h] = "user"
    /\ \/ sscratch[h] \in Tasks /\ cause \in TaskCauses \ {"external"}
       \/ sscratch[h] \in Slots \ Tasks /\ cause = "fault"
    /\ handle_interrupt(h)
    /\ Goto(h, cause)
    /\ UNCHANGED armed

-----------------------------------------------------------------------------
(* interrupt_handler, except for the timer.                                 *)

\* The kernel's own instruction traps: what was in the frame gives way to the
\* kernel's registers, and the handler of that trap panics.
KernelFault(h) ==
    /\ frame' = IF sscratch[h] = Idle THEN frame
                ELSE [frame EXCEPT ![sscratch[h]] = [task |-> Idle, k |-> 0]]
    /\ spp' = [spp EXCEPT ![h] = "S"]
    /\ spie' = [spie EXCEPT ![h] = FALSE]
    /\ Goto(h, "hung")
    /\ UNCHANGED <<sscratch, regs, done, state, sched, satp, priv, sie, armed>>

\* Claim, an empty list of subscribers, completion; then the task's priority
\* is read, through NULL when the hart has no task.
HandleExternal(h) ==
    /\ step[h] = "external"
    /\ \/ Pid(sscratch[h]) = Idle /\ KernelFault(h)
       \/ /\ Pid(sscratch[h]) # Idle
          /\ Goto(h, "return")
          /\ UNCHANGED <<sscratch, regs, frame, done, state, sched, satp, status, armed>>

\* uart_puts of a readable string, or an unknown call: the task goes on after
\* the ecall.
HandleEcall(h) ==
    /\ step[h] = "ecall"
    /\ LET f == sscratch[h] IN
       /\ frame' = [frame EXCEPT ![f].k = (frame[f].k + 1) % Ticks]
       /\ done' = [done EXCEPT ![f] = (done[f] + 1) % Ticks]
    /\ Goto(h, "return")
    /\ UNCHANGED <<sscratch, regs, state, sched, satp, status, armed>>

\* uart_puts of a pointer that cannot be read.
HandleBadCall(h) == step[h] = "badcall" /\ KernelFault(h)

\* The task returns to the breakpoint.
HandleBreakpoint(h) ==
    /\ step[h] = "breakpoint"
    /\ Goto(h, "return")
    /\ UNCHANGED <<sscratch, regs, frame, done, state, sched, satp, status, armed>>

\* KERNEL PANIC, whichever task it was: the hart loops forever.
HandleFault(h) ==
    /\ step[h] = "fault"
    /\ Goto(h, "hung")
    /\ UNCHANGED <<sscratch, regs, frame, done, state, sched, satp, status, armed>>

-----------------------------------------------------------------------------
(* timer_switch.                                                            *)

\* Mistakes: the task stays RUNNING; up_to is one past the last task.
DescheduleRunning(h) ==
    /\ step[h] = "switch"
    /\ Goto(h, "pick")
    /\ UNCHANGED <<sscratch, regs, frame, done, state, sched, satp, status, armed>>

DeschedulePast(h) ==
    /\ step[h] = "switch"
    /\ LET p == Pid(sscratch[h]) IN
       IF p = Idle THEN UNCHANGED <<state, up_to>>
       ELSE /\ state' = [state EXCEPT ![p] = IF @ = "RUNNING" THEN "READY" ELSE @]
            /\ up_to' = IF p >= up_to THEN p + 1 ELSE up_to
    /\ Goto(h, "pick")
    /\ UNCHANGED <<sscratch, regs, frame, done, next, n, t, satp, status, armed>>

schedule_task(p) == up_to' = IF p > up_to THEN p ELSE up_to

\* The interrupted task becomes ready and is scheduled again.
Deschedule(h) ==
    /\ step[h] = "switch"
    /\ LET p == Pid(sscratch[h]) IN
       IF p = Idle THEN UNCHANGED <<state, up_to>>
       ELSE /\ state' = [state EXCEPT ![p] = IF @ = "RUNNING" THEN "READY" ELSE @]
            /\ schedule_task(p)
    /\ Goto(h, "pick")
    /\ UNCHANGED <<sscratch, regs, frame, done, next, n, t, satp, status, armed>>

\* next_scheduled_task: int n = next; next++; if (next > up_to) next = 0.
PickRead(h) ==
    /\ step[h] = "pick"
    /\ n' = [n EXCEPT ![h] = next]
    /\ Goto(h, "load")
    /\ UNCHANGED <<sscratch, regs, frame, done, state, next, up_to, t, satp, status, armed>>

PickLoad(h) ==
    /\ step[h] = "load"
    /\ t' = [t EXCEPT ![h] = next]
    /\ Goto(h, "store")
    /\ UNCHANGED <<sscratch, regs, frame, done, state, next, up_to, n, satp, status, armed>>

PickStore(h) ==
    /\ step[h] = "store"
    /\ t[h] < NextBound
    /\ next' = t[h] + 1
    /\ Goto(h, "compare")
    /\ UNCHANGED <<sscratch, regs, frame, done, state, up_to, n, t, satp, status, armed>>

\* Mistakes: next >= up_to, and next > up_to + 1.
PickCompareEarly(h) ==
    /\ step[h] = "compare"
    /\ Goto(h, IF next >= up_to THEN "wrap" ELSE "dispatch")
    /\ UNCHANGED <<sscratch, regs, frame, done, state, sched, satp, status, armed>>

PickCompareLate(h) ==
    /\ step[h] = "compare"
    /\ Goto(h, IF next > up_to + 1 THEN "wrap" ELSE "dispatch")
    /\ UNCHANGED <<sscratch, regs, frame, done, state, sched, satp, status, armed>>

PickCompare(h) ==
    /\ step[h] = "compare"
    /\ Goto(h, IF next > up_to THEN "wrap" ELSE "dispatch")
    /\ UNCHANGED <<sscratch, regs, frame, done, state, sched, satp, status, armed>>

PickWrap(h) ==
    /\ step[h] = "wrap"
    /\ next' = 0
    /\ Goto(h, "dispatch")
    /\ UNCHANGED <<sscratch, regs, frame, done, state, up_to, n, t, satp, status, armed>>

\* A mistake: the page table stays that of the task before.
SetMmuSkipped(h, p) == UNCHANGED satp

\* set_mmu: a slot without a page table leaves the current one in place.
set_mmu(h, p) == satp' = IF p \in Tasks THEN [satp EXCEPT ![h] = p] ELSE satp

\* A mistake: SPP and SPIE are not cleared.
DispatchPrivileged(h) ==
    /\ step[h] = "dispatch"
    /\ n[h] \in Slots
    /\ state' = [state EXCEPT ![n[h]] = "RUNNING"]
    /\ armed' = [armed EXCEPT ![h] = TRUE]
    /\ Goto(h, "return")
    /\ sscratch' = [sscratch EXCEPT ![h] = n[h]]
    /\ set_mmu(h, n[h])
    /\ UNCHANGED <<regs, frame, done, sched, status>>

\* The rest of timer_switch and the csrw to sscratch: clear SPP and SPIE, give
\* the hart to task n, arm the timer.  A pid beyond the table has no task, and
\* the write through NULL faults.
Dispatch(h) ==
    /\ step[h] = "dispatch"
    /\ \/ n[h] \notin Slots /\ KernelFault(h)
       \/ /\ n[h] \in Slots
          /\ spp' = [spp EXCEPT ![h] = "U"]
          /\ spie' = [spie EXCEPT ![h] = FALSE]
          /\ state' = [state EXCEPT ![n[h]] = "RUNNING"]
          /\ armed' = [armed EXCEPT ![h] = TRUE]
          /\ Goto(h, "return")
          /\ IF Pid(sscratch[h]) = n[h]
             THEN UNCHANGED <<sscratch, satp>>
             ELSE /\ sscratch' = [sscratch EXCEPT ![h] = n[h]]
                  /\ set_mmu(h, n[h])
          /\ UNCHANGED <<regs, frame, done, sched, priv, sie>>

\* The integer registers and the pc come back from the frame (and nothing else:
\* the floating-point registers stay as the last task left them).
jump_out_of_trap(h) ==
    /\ step[h] = "return"
    /\ sret(h)
    /\ regs' = [regs EXCEPT ![h] = IF sscratch[h] = Idle
                                   THEN [task |-> Idle, k |-> 0]
                                   ELSE frame[sscratch[h]]]
    /\ Goto(h, "user")
    /\ UNCHANGED <<sscratch, frame, done, state, sched, satp, armed>>

-----------------------------------------------------------------------------
Handler(h) ==
    \/ init_hart_helper(h)
    \/ HandleExternal(h)
    \/ HandleEcall(h)
    \/ HandleBadCall(h)
    \/ HandleBreakpoint(h)
    \/ HandleFault(h)
    \/ Deschedule(h)
    \/ PickRead(h)
    \/ PickLoad(h)
    \/ PickStore(h)
    \/ PickCompare(h)
    \/ PickWrap(h)
    \/ Dispatch(h)
    \/ jump_out_of_trap(h)

Next ==
    \E h \in Harts :
       \/ Handler(h)
       \/ Execute(h)
       \/ TimerInterrupt(h)
       \/ ExternalInterrupt(h)
       \/ \E cause \in Causes : Exception(h, cause)

Spec == Init /\ [][Next]_vars

\* The kernel runs with interrupts off, so a handler is carried through.  A
\* timer that is due stays pending while other traps are handled and is taken
\* before the next instruction of the task.
FairSpec ==
    /\ Spec
    /\ \A h \in Harts : WF_vars(Handler(h)) /\ SF_vars(TimerInterrupt(h))

-----------------------------------------------------------------------------
Steps == {"off", "user", "switch", "pick", "load", "store", "compare", "wrap",
          "dispatch", "return", "external", "ecall", "badcall", "breakpoint", "fault",
          "hung"}

\* Every variable keeps its type.
TypeOK ==
    /\ step \in [Harts -> Steps]
    /\ sscratch \in [Harts -> Slots \cup {Idle}]
    /\ regs \in [Harts -> Context]
    /\ frame \in [Slots -> Context]
    /\ done \in [Slots -> 0 .. Ticks - 1]
    /\ state \in [Slots -> {"DEAD", "READY", "RUNNING"}]
    /\ next \in Nat /\ up_to = NTasks - 1
    /\ n \in [Harts -> Nat] /\ t \in [Harts -> Nat]
    /\ satp \in [Harts -> Tasks \cup {Idle}]
    /\ priv \in [Harts -> {"U", "S"}] /\ spp \in [Harts -> {"U", "S"}]
    /\ sie \in [Harts -> BOOLEAN] /\ spie \in [Harts -> BOOLEAN]
    /\ armed \in [Harts -> BOOLEAN]

Runs(h, p) == step[h] = "user" /\ sscratch[h] = p

\* On one hart, a task is executed with the integer registers and the pc it had
\* when it was last stopped, whatever ran in between: only traps taken from it
\* write its frame, and returns to it read nothing else.  (Two harts can be given
\* the same task and then share its frame.  The floating-point registers a task
\* was stopped with are saved nowhere.)
ContextIntegrity ==
    \A h \in Harts, p \in Tasks : Runs(h, p) =>
       regs[h] = [task |-> p, k |-> done[p]]

\* A task executes only under its own page table (set_mmu in timer_switch
\* precedes the return to it, and no later trap changes satp).
OwnAddressSpace == \A h \in Harts, p \in Tasks : Runs(h, p) => satp[h] = p

\* A task never executes with the kernel's privilege, and whatever a hart
\* executes outside the kernel, its timer is set and can interrupt it: no task
\* keeps a hart for good.
PreemptibleUserMode ==
    \A h \in Harts : step[h] = "user" =>
       /\ sscratch[h] # Idle => priv[h] = "U"
       /\ priv[h] = "U" \/ sie[h]
       /\ armed[h]

\* Where timer_switch has taken the hart from one task and not yet given it to
\* the next.
Turning == {"pick", "load", "store", "compare", "wrap", "dispatch"}

\* A task marked RUNNING is really held by a hart that is not about to leave it,
\* although harts that were given the same task write its state without a lock.
\* (The converse fails with two harts: one of them marks the task READY while
\* the other still executes it.)
StateMatchesHarts ==
    \A p \in Tasks : state[p] = "RUNNING" =>
       \E h \in Harts : Pid(sscratch[h]) = p /\ step[h] \notin Turning

\* Although harts race on next, it cannot stay outside the range of the
\* scheduled tasks: whenever it is too large, a hart is on its way to reset it.
NextReset ==
    next > up_to => \E h \in Harts : step[h] \in {"compare", "wrap"}

\* "Returns the next scheduled task": never the pid of a slot without a task.
PickedIsScheduled == \A h \in Harts : step[h] = "dispatch" => n[h] =< up_to

\* On one hart the code implements strict rotation over the tasks: nothing is
\* skipped or run twice in a row, and every task gets its turn again.
TheHart == CHOOSE h \in Harts : TRUE
Turns == INSTANCE Rotation WITH N <- NTasks, cur <- sscratch[TheHart]
RotationSpec == Turns!Spec
=============================================================================
