-------------------------- MODULE TaskSwitchProofs --------------------------
(***************************************************************************)
(* Proofs about TaskSwitch, for any set of harts that race on the          *)
(* scheduler and any number of tasks.                                      *)
(***************************************************************************)
EXTENDS TaskSwitch, TLAPS

\* The tick counter stays below Ticks.
LEMMA TickFact == \A k \in 0 .. Ticks - 1 : (k + 1) % Ticks \in 0 .. Ticks - 1
  BY TaskSwitchAssumption

\* The contexts the actions build are contexts.
LEMMA ContextFacts ==
    /\ [task |-> Idle, k |-> 0] \in Context
    /\ \A c \in Context : [c EXCEPT !.k = (c.k + 1) % Ticks] \in Context
<1>1. 0 \in 0 .. Ticks - 1
  BY TaskSwitchAssumption
<1>2. QED
  BY <1>1, TickFact DEF Context

\* Process slots, task numbers and the mark of an idle hart.
LEMMA SlotFacts ==
    /\ Tasks \subseteq Slots /\ Tasks \subseteq Nat /\ Slots \subseteq Nat
    /\ Idle \notin Slots /\ 0 \in Tasks /\ Idle # 0
    /\ \A f \in Slots \cup {Idle} : Pid(f) \in Tasks \cup {Idle}
  BY TaskSwitchAssumption DEF Tasks, Slots, Idle, Pid

\* The state kinit leaves behind has the right types.
LEMMA TypeInit == Init => TypeOK
<1> SUFFICES ASSUME Init PROVE TypeOK
  OBVIOUS
<1>1. regs \in [Harts -> Context]
  BY ContextFacts DEF Init
<1>2. frame \in [Slots -> Context] /\ done \in [Slots -> 0 .. Ticks - 1]
  BY TaskSwitchAssumption DEF Init, Context
<1>3. state \in [Slots -> {"DEAD", "READY", "RUNNING"}]
  BY DEF Init
<1>4. QED
  BY <1>1, <1>2, <1>3, TaskSwitchAssumption DEF Init, TypeOK, Steps

\* Every step keeps the types.
LEMMA TypeNext == TypeOK /\ [Next]_vars => TypeOK'
<1> SUFFICES ASSUME TypeOK, [Next]_vars PROVE TypeOK'
  OBVIOUS
<1> USE DEF status, sched
<1>1. ASSUME NEW h \in Harts, init_hart_helper(h) PROVE TypeOK'
  BY <1>1, SlotFacts DEF init_hart_helper, Goto, TypeOK, Steps
<1>2. ASSUME NEW h \in Harts, KernelFault(h) PROVE TypeOK'
  <2>1. frame' \in [Slots -> Context]
    BY <1>2, ContextFacts DEF KernelFault, TypeOK
  <2>2. QED
    BY <1>2, <2>1 DEF KernelFault, Goto, TypeOK, Steps
<1>16. ASSUME NEW h \in Harts,
              HandleExternal(h) \/ HandleBadCall(h) \/ HandleBreakpoint(h) \/ HandleFault(h)
       PROVE  TypeOK'
  BY <1>2, <1>16
  DEF HandleExternal, HandleBadCall, HandleBreakpoint, HandleFault, Goto, TypeOK, Steps
<1>3. ASSUME NEW h \in Harts, HandleEcall(h) PROVE TypeOK'
  <2>1. frame' \in [Slots -> Context]
    BY <1>3, ContextFacts DEF HandleEcall, TypeOK
  <2>2. done' \in [Slots -> 0 .. Ticks - 1]
    BY <1>3, TickFact DEF HandleEcall, TypeOK
  <2>3. step' \in [Harts -> Steps]
    BY <1>3 DEF HandleEcall, Goto, TypeOK, Steps
  <2>4. QED
    BY <1>3, <2>1, <2>2, <2>3 DEF HandleEcall, TypeOK
<1>4. ASSUME NEW h \in Harts, Deschedule(h) PROVE TypeOK'
  <2>1. Pid(sscratch[h]) \in Tasks \cup {Idle}
    BY SlotFacts DEF TypeOK
  <2>2. state' \in [Slots -> {"DEAD", "READY", "RUNNING"}]
    BY <1>4 DEF Deschedule, schedule_task, TypeOK
  <2>3. up_to' = NTasks - 1
    BY <1>4, <2>1, TaskSwitchAssumption DEF Deschedule, schedule_task, TypeOK, Tasks
  <2>4. step' \in [Harts -> Steps]
    BY <1>4 DEF Deschedule, schedule_task, Goto, TypeOK, Steps
  <2>5. QED
    BY <1>4, <2>2, <2>3, <2>4 DEF Deschedule, schedule_task, TypeOK
<1>5. ASSUME NEW h \in Harts, PickRead(h) \/ PickLoad(h) \/ PickStore(h)
      PROVE  TypeOK'
  <2>1. step' \in [Harts -> Steps]
    BY <1>5 DEF PickRead, PickLoad, PickStore, Goto, TypeOK, Steps
  <2>2. n' \in [Harts -> Nat] /\ t' \in [Harts -> Nat] /\ next' \in Nat
    BY <1>5 DEF PickRead, PickLoad, PickStore, TypeOK
  <2>3. QED
    BY <1>5, <2>1, <2>2 DEF PickRead, PickLoad, PickStore, TypeOK
<1>6. ASSUME NEW h \in Harts, PickCompare(h) \/ PickWrap(h) PROVE TypeOK'
  <2>1. step' \in [Harts -> Steps]
    BY <1>6 DEF PickCompare, PickWrap, Goto, TypeOK, Steps
  <2>2. QED
    BY <1>6, <2>1 DEF PickCompare, PickWrap, TypeOK
<1>7. ASSUME NEW h \in Harts, Dispatch(h) PROVE TypeOK'
  <2> SUFFICES ASSUME ~KernelFault(h) PROVE TypeOK'
    BY <1>2
  <2>1. step' \in [Harts -> Steps]
    BY <1>7 DEF Dispatch, Goto, TypeOK, Steps
  <2>2. /\ sscratch' \in [Harts -> Slots \cup {Idle}]
        /\ satp' \in [Harts -> Tasks \cup {Idle}]
    BY <1>7 DEF Dispatch, set_mmu, TypeOK
  <2>3. state' \in [Slots -> {"DEAD", "READY", "RUNNING"}]
    BY <1>7 DEF Dispatch, TypeOK
  <2>4. /\ spp' \in [Harts -> {"U", "S"}] /\ spie' \in [Harts -> BOOLEAN]
        /\ armed' \in [Harts -> BOOLEAN]
    BY <1>7 DEF Dispatch, TypeOK
  <2>5. QED
    BY <1>7, <2>1, <2>2, <2>3, <2>4 DEF Dispatch, TypeOK
<1>8. ASSUME NEW h \in Harts, jump_out_of_trap(h) PROVE TypeOK'
  <2>1. regs' \in [Harts -> Context]
    BY <1>8, ContextFacts DEF jump_out_of_trap, TypeOK
  <2>2. step' \in [Harts -> Steps]
    BY <1>8 DEF jump_out_of_trap, Goto, TypeOK, Steps
  <2>3. QED
    BY <1>8, <2>1, <2>2 DEF jump_out_of_trap, sret, TypeOK
<1>9. ASSUME NEW h \in Harts, Execute(h) PROVE TypeOK'
  <2>1. regs' \in [Harts -> Context]
    BY <1>9, ContextFacts DEF Execute, TypeOK
  <2>2. done' \in [Slots -> 0 .. Ticks - 1]
    BY <1>9, TickFact DEF Execute, TypeOK
  <2>3. QED
    BY <1>9, <2>1, <2>2 DEF Execute, TypeOK
<1>10. ASSUME NEW h \in Harts, handle_interrupt(h), NEW s \in Steps, Goto(h, s),
              armed' \in [Harts -> BOOLEAN]
       PROVE  TypeOK'
  <2>1. frame' \in [Slots -> Context]
    BY <1>10 DEF handle_interrupt, TypeOK
  <2>2. QED
    BY <1>10, <2>1 DEF handle_interrupt, Goto, TypeOK
<1>11. ASSUME NEW h \in Harts, TimerInterrupt(h) PROVE TypeOK'
  BY <1>10, <1>11 DEF TimerInterrupt, TypeOK, Steps
<1>12. ASSUME NEW h \in Harts, ExternalInterrupt(h) PROVE TypeOK'
  BY <1>10, <1>12 DEF ExternalInterrupt, TypeOK, Steps
<1>13. ASSUME NEW h \in Harts, NEW c \in Causes,
              Exception(h, c)
       PROVE  TypeOK'
  BY <1>10, <1>13 DEF Exception, Causes, TypeOK, Steps
<1>14. CASE UNCHANGED vars
  BY <1>14 DEF vars, TypeOK
<1>15. QED
  BY <1>1, <1>3, <1>4, <1>5, <1>6, <1>7, <1>8, <1>9, <1>11, <1>12,
     <1>13, <1>14, <1>16 DEF Next, Handler

\* Whatever the harts do, every variable of the trap handling keeps its type.
THEOREM TypeCorrect == Spec => []TypeOK
<1>1. QED
  BY TypeInit, TypeNext, PTL DEF Spec

-----------------------------------------------------------------------------
(* A hart's page table, privilege and timer agree with its frame.           *)

\* The page table is that of the task whose frame the hart holds, from the
\* moment timer_switch puts it there, also inside the kernel.
SpaceInv == \A h \in Harts : sscratch[h] \in Tasks => satp[h] = sscratch[h]

\* What the next sret will do, and what the last one did.  Only a hart with no
\* task returns to supervisor mode, and then with interrupts enabled.
HartMode(h) ==
    /\ step[h] = "off" => sscratch[h] = Idle
    /\ step[h] = "return" =>
          /\ armed[h]
          /\ IF sscratch[h] = Idle THEN spp[h] = "S" /\ spie[h] ELSE spp[h] = "U"
    /\ step[h] = "user" =>
          /\ armed[h]
          /\ IF sscratch[h] = Idle THEN priv[h] = "S" /\ sie[h] ELSE priv[h] = "U"
    /\ step[h] \in {"external", "ecall", "breakpoint"} =>
          armed[h] /\ (sscratch[h] # Idle => spp[h] = "U")
    /\ step[h] \in {"ecall", "breakpoint"} => sscratch[h] # Idle

ModeInv == \A h \in Harts : HartMode(h)

HartInv == TypeOK /\ SpaceInv /\ ModeInv /\ NextReset /\ StateMatchesHarts

\* The harts start out consistent.
LEMMA HartInit == Init => HartInv
  BY TypeInit, SlotFacts
  DEF Init, HartInv, SpaceInv, ModeInv, HartMode, NextReset, StateMatchesHarts, TypeOK, Tasks,
      Idle

\* Only Dispatch changes a hart's frame, and it loads the page table with it.
LEMMA SpaceNext == TypeOK /\ SpaceInv /\ [Next]_vars => SpaceInv'
<1> SUFFICES ASSUME TypeOK, SpaceInv, [Next]_vars PROVE SpaceInv'
  OBVIOUS
<1>1. ASSUME NEW h \in Harts, init_hart_helper(h) PROVE SpaceInv'
  BY <1>1, SlotFacts DEF init_hart_helper, SpaceInv, TypeOK
<1>2. ASSUME NEW h \in Harts, Dispatch(h) PROVE SpaceInv'
  BY <1>2 DEF Dispatch, KernelFault, set_mmu, SpaceInv, TypeOK
<1>3. ASSUME UNCHANGED <<sscratch, satp>> PROVE SpaceInv'
  BY <1>3 DEF SpaceInv
<1>4. ASSUME NEW h \in Harts, Handler(h), ~init_hart_helper(h), ~Dispatch(h)
      PROVE  UNCHANGED <<sscratch, satp>>
  BY <1>4 DEF Handler, HandleExternal, HandleEcall, HandleBadCall, KernelFault,
     HandleBreakpoint, HandleFault, Deschedule, schedule_task, PickRead, PickLoad, PickStore,
     PickCompare, PickWrap,
     jump_out_of_trap
<1>5. ASSUME NEW h \in Harts,
             \/ Execute(h) \/ TimerInterrupt(h) \/ ExternalInterrupt(h)
             \/ \E cause \in Causes : Exception(h, cause)
      PROVE  UNCHANGED <<sscratch, satp>>
  BY <1>5 DEF Execute, TimerInterrupt, ExternalInterrupt, Exception, handle_interrupt
<1>6. CASE UNCHANGED vars
  BY <1>3, <1>6 DEF vars
<1>7. QED
  BY <1>1, <1>2, <1>3, <1>4, <1>5, <1>6 DEF Next

\* Another hart's step leaves a hart's mode alone.
LEMMA ModeOthers ==
    ASSUME TypeOK, ModeInv, NEW h \in Harts, HartMode(h)',
           \A g \in Harts \ {h} :
              /\ step'[g] = step[g] /\ sscratch'[g] = sscratch[g]
              /\ armed'[g] = armed[g] /\ priv'[g] = priv[g] /\ sie'[g] = sie[g]
              /\ spp'[g] = spp[g] /\ spie'[g] = spie[g]
    PROVE  ModeInv'
  BY DEF ModeInv, HartMode

\* Every step keeps the mode, the privilege bits and the timer of the harts
\* in step with what runs on them.
LEMMA ModeNext == TypeOK /\ ModeInv /\ [Next]_vars => ModeInv'
<1> SUFFICES ASSUME TypeOK, ModeInv, [Next]_vars PROVE ModeInv'
  OBVIOUS
<1> USE DEF status
<1>0. ASSUME NEW h \in Harts PROVE HartMode(h)
  BY DEF ModeInv
<1>1. ASSUME NEW h \in Harts, init_hart_helper(h) PROVE ModeInv'
  <2>1. HartMode(h)'
    BY <1>1 DEF init_hart_helper, Goto, HartMode, TypeOK
  <2>2. QED
    BY <1>1, <2>1, ModeOthers DEF init_hart_helper, Goto, TypeOK
<1>2. ASSUME NEW h \in Harts, HandleExternal(h) PROVE ModeInv'
  <2>1. HartMode(h)'
    BY <1>0, <1>2 DEF HandleExternal, KernelFault, Goto, HartMode, TypeOK, Pid
  <2>2. QED
    BY <1>2, <2>1, ModeOthers DEF HandleExternal, KernelFault, Goto, TypeOK
<1>14. ASSUME NEW h \in Harts, KernelFault(h) PROVE ModeInv'
  <2>1. HartMode(h)'
    BY <1>14 DEF KernelFault, Goto, HartMode, TypeOK
  <2>2. QED
    BY <1>14, <2>1, ModeOthers DEF KernelFault, Goto, TypeOK
<1>15. ASSUME NEW h \in Harts, HandleBadCall(h) PROVE ModeInv'
  BY <1>14, <1>15 DEF HandleBadCall
<1>3. ASSUME NEW h \in Harts, HandleEcall(h) PROVE ModeInv'
  <2>1. HartMode(h)'
    BY <1>0, <1>3 DEF HandleEcall, Goto, HartMode, TypeOK
  <2>2. QED
    BY <1>3, <2>1, ModeOthers DEF HandleEcall, Goto, TypeOK
<1>4. ASSUME NEW h \in Harts, HandleBreakpoint(h) PROVE ModeInv'
  <2>1. HartMode(h)'
    BY <1>0, <1>4 DEF HandleBreakpoint, Goto, HartMode, TypeOK
  <2>2. QED
    BY <1>4, <2>1, ModeOthers DEF HandleBreakpoint, Goto, TypeOK
<1>5. ASSUME NEW h \in Harts, HandleFault(h) \/ Deschedule(h) \/ PickRead(h)
             \/ PickLoad(h) \/ PickStore(h) \/ PickCompare(h) \/ PickWrap(h)
      PROVE  ModeInv'
  <2>1. /\ step'[h] \in {"hung", "pick", "load", "store", "compare", "wrap", "dispatch"}
        /\ \A g \in Harts \ {h} : step'[g] = step[g]
        /\ UNCHANGED <<sscratch, armed, priv, sie, spp, spie>>
    BY <1>5 DEF HandleFault, Deschedule, schedule_task, PickRead, PickLoad, PickStore,
       PickCompare, PickWrap, Goto, TypeOK
  <2>2. HartMode(h)'
    BY <2>1 DEF HartMode
  <2>3. QED
    BY <2>1, <2>2, ModeOthers
<1>6. ASSUME NEW h \in Harts, Dispatch(h) PROVE ModeInv'
  <2> SUFFICES ASSUME ~KernelFault(h) PROVE ModeInv'
    BY <1>14
  <2>1. n[h] \in Slots /\ spp'[h] = "U"
    BY <1>6 DEF Dispatch, TypeOK
  <2>2. step'[h] = "return" /\ armed'[h] /\ sscratch'[h] # Idle
    <3>1. Pid(sscratch[h]) = n[h] => sscratch[h] # Idle
      BY <2>1, SlotFacts DEF Pid
    <3>2. QED
      BY <1>6, <2>1, <3>1, SlotFacts DEF Dispatch, Goto, TypeOK
  <2>3. HartMode(h)'
    BY <2>1, <2>2 DEF HartMode
  <2>4. QED
    BY <1>6, <2>3, ModeOthers DEF Dispatch, Goto, TypeOK
<1>7. ASSUME NEW h \in Harts, jump_out_of_trap(h) PROVE ModeInv'
  <2>1. HartMode(h)'
    BY <1>0, <1>7 DEF jump_out_of_trap, sret, Goto, HartMode, TypeOK
  <2>2. QED
    BY <1>7, <2>1, ModeOthers DEF jump_out_of_trap, sret, Goto, TypeOK
<1>8. ASSUME NEW h \in Harts, Execute(h) PROVE ModeInv'
  BY <1>8 DEF Execute, ModeInv, HartMode
<1>9. ASSUME NEW h \in Harts, TimerInterrupt(h) PROVE ModeInv'
  <2>1. HartMode(h)'
    BY <1>9 DEF TimerInterrupt, handle_interrupt, Goto, HartMode, TypeOK
  <2>2. QED
    BY <1>9, <2>1, ModeOthers DEF TimerInterrupt, handle_interrupt, Goto, TypeOK
<1>10. ASSUME NEW h \in Harts, ExternalInterrupt(h) PROVE ModeInv'
  <2>1. HartMode(h)'
    BY <1>0, <1>10
    DEF ExternalInterrupt, Interruptible, handle_interrupt, Goto, HartMode, TypeOK
  <2>2. QED
    BY <1>10, <2>1, ModeOthers
    DEF ExternalInterrupt, handle_interrupt, Goto, TypeOK
<1>11. ASSUME NEW h \in Harts, NEW c \in Causes,
              Exception(h, c)
       PROVE  ModeInv'
  <2>1. sscratch[h] # Idle
    BY <1>11, SlotFacts DEF Exception
  <2>2. HartMode(h)'
    BY <1>0, <1>11, <2>1 DEF Exception, Causes, handle_interrupt, Goto, HartMode, TypeOK
  <2>3. QED
    BY <1>11, <2>2, ModeOthers DEF Exception, handle_interrupt, Goto, TypeOK
<1>12. CASE UNCHANGED vars
  BY <1>12 DEF vars, ModeInv, HartMode
<1>13. QED
  BY <1>1, <1>2, <1>3, <1>4, <1>5, <1>6, <1>7, <1>8, <1>9, <1>10, <1>11, <1>12, <1>15
  DEF Next, Handler

\* The hart that stores a value beyond up_to compares it afterwards; it can
\* miss it only because another hart has stored since.
LEMMA ResetNext == TypeOK /\ NextReset /\ [Next]_vars => NextReset'
<1> SUFFICES ASSUME TypeOK, TypeOK', NextReset, [Next]_vars PROVE NextReset'
  BY TypeNext
<1>0. up_to' = up_to /\ next \in Nat /\ next' \in Nat /\ up_to \in Nat
  BY TaskSwitchAssumption DEF TypeOK
<1>1. ASSUME NEW h \in Harts, PickStore(h) PROVE NextReset'
  BY <1>1 DEF PickStore, Goto, NextReset, TypeOK
<1>2. ASSUME NEW h \in Harts, PickWrap(h) PROVE NextReset'
  BY <1>0, <1>2 DEF PickWrap, NextReset
<1>3. ASSUME NEW h \in Harts, PickCompare(h) PROVE NextReset'
  BY <1>0, <1>3 DEF PickCompare, sched, Goto, NextReset, TypeOK
<1>4. ASSUME NEW h \in Harts, next' = next, step[h] \notin {"compare", "wrap"},
             \A g \in Harts \ {h} : step'[g] = step[g]
      PROVE  NextReset'
  BY <1>0, <1>4 DEF NextReset
<1>5. ASSUME NEW h \in Harts, Handler(h), ~PickStore(h), ~PickWrap(h), ~PickCompare(h)
      PROVE  NextReset'
  BY <1>4, <1>5 DEF Handler, init_hart_helper, HandleExternal, HandleEcall,
     HandleBadCall, KernelFault, HandleBreakpoint, HandleFault, Deschedule, schedule_task,
     PickRead, PickLoad, Dispatch,
     jump_out_of_trap, Goto, sched, TypeOK
<1>6. ASSUME NEW h \in Harts, Execute(h) PROVE NextReset'
  BY <1>0, <1>6 DEF Execute, sched, NextReset
<1>7. ASSUME NEW h \in Harts,
             \/ TimerInterrupt(h) \/ ExternalInterrupt(h)
             \/ \E cause \in Causes : Exception(h, cause)
      PROVE  NextReset'
  BY <1>4, <1>7 DEF TimerInterrupt, ExternalInterrupt, Exception, Interruptible,
     handle_interrupt, Goto, sched, TypeOK
<1>8. CASE UNCHANGED vars
  BY <1>0, <1>8 DEF vars, sched, NextReset
<1>9. QED
  BY <1>1, <1>2, <1>3, <1>5, <1>6, <1>7, <1>8 DEF Next

\* The hart that marks a task RUNNING takes it at that moment, and the first hart
\* that leaves the task marks it READY, whoever else executes it.
LEMMA StateNext ==
    TypeOK /\ ModeInv /\ StateMatchesHarts /\ [Next]_vars => StateMatchesHarts'
<1> SUFFICES ASSUME TypeOK, ModeInv, StateMatchesHarts, [Next]_vars PROVE StateMatchesHarts'
  OBVIOUS
<1> USE DEF sched
<1> DEFINE Held(h, p) == Pid(sscratch[h]) = p /\ step[h] \notin Turning
<1>0. /\ \A p \in Tasks : state[p] = "RUNNING" => \E g \in Harts : Held(g, p)
      /\ Tasks \subseteq Slots /\ Idle \notin Tasks
  BY SlotFacts DEF StateMatchesHarts
<1>1. ASSUME NEW h \in Harts, state' = state, sscratch' = sscratch,
             step[h] \in Turning \/ step'[h] \notin Turning,
             \A g \in Harts \ {h} : step'[g] = step[g]
      PROVE  StateMatchesHarts'
  BY <1>0, <1>1 DEF StateMatchesHarts, Pid
<1>2. ASSUME NEW h \in Harts, init_hart_helper(h) PROVE StateMatchesHarts'
  <2>1. sscratch[h] = Idle /\ sscratch' = sscratch
    BY <1>2 DEF init_hart_helper, ModeInv, HartMode, TypeOK
  <2>2. QED
    BY <1>1, <1>2, <2>1 DEF init_hart_helper, Goto, TypeOK, Turning
<1>3. ASSUME NEW h \in Harts, KernelFault(h) PROVE StateMatchesHarts'
  BY <1>1, <1>3 DEF KernelFault, Goto, TypeOK, Turning
<1>4. ASSUME NEW h \in Harts, HandleExternal(h) \/ HandleEcall(h) \/ HandleBadCall(h)
             \/ HandleBreakpoint(h) \/ HandleFault(h) \/ jump_out_of_trap(h)
      PROVE  StateMatchesHarts'
  BY <1>1, <1>3, <1>4 DEF HandleExternal, HandleEcall, HandleBadCall, HandleBreakpoint,
     HandleFault, jump_out_of_trap, Goto, TypeOK, Turning
<1>5. ASSUME NEW h \in Harts, PickRead(h) \/ PickLoad(h) \/ PickStore(h)
             \/ PickCompare(h) \/ PickWrap(h)
      PROVE  StateMatchesHarts'
  BY <1>1, <1>5 DEF PickRead, PickLoad, PickStore, PickCompare, PickWrap, Goto, TypeOK, Turning
<1>6. ASSUME NEW h \in Harts, Deschedule(h) PROVE StateMatchesHarts'
  <2>1. /\ sscratch' = sscratch /\ \A g \in Harts \ {h} : step'[g] = step[g]
        /\ \A p \in Tasks : p # Pid(sscratch[h]) => state'[p] = state[p]
        /\ \A p \in Tasks : p = Pid(sscratch[h]) => state'[p] # "RUNNING"
    BY <1>0, <1>6 DEF Deschedule, Goto, TypeOK
  <2>2. ASSUME NEW p \in Tasks, state'[p] = "RUNNING"
        PROVE  \E g \in Harts : Pid(sscratch'[g]) = p /\ step'[g] \notin Turning
    <3>1. PICK g \in Harts : Held(g, p)
      BY <1>0, <2>1, <2>2
    <3>2. g # h
      BY <2>1, <2>2, <3>1
    <3>3. QED
      BY <2>1, <3>1, <3>2
  <2>3. QED
    BY <2>2 DEF StateMatchesHarts, Pid
<1>7. ASSUME NEW h \in Harts, Dispatch(h), ~KernelFault(h) PROVE StateMatchesHarts'
  <2>1. /\ step[h] = "dispatch" /\ step'[h] = "return"
        /\ \A g \in Harts \ {h} : step'[g] = step[g] /\ sscratch'[g] = sscratch[g]
        /\ \A p \in Tasks : p # n[h] => state'[p] = state[p]
    BY <1>0, <1>7 DEF Dispatch, Goto, TypeOK
  <2>2. n[h] \in Tasks => Pid(sscratch'[h]) = n[h]
    BY <1>7 DEF Dispatch, Pid, TypeOK
  <2>3. ASSUME NEW p \in Tasks, state'[p] = "RUNNING"
        PROVE  \E g \in Harts : Pid(sscratch'[g]) = p /\ step'[g] \notin Turning
    <3>1. CASE p = n[h]
      BY <2>1, <2>2, <3>1 DEF Turning
    <3>2. CASE p # n[h]
      <4>1. PICK g \in Harts : Held(g, p)
        BY <1>0, <2>1, <2>3, <3>2
      <4>2. g # h
        BY <2>1, <4>1 DEF Turning
      <4>3. QED
        BY <2>1, <4>1, <4>2
    <3>3. QED
      BY <3>1, <3>2
  <2>4. QED
    BY <2>3 DEF StateMatchesHarts, Pid
<1>8. ASSUME NEW h \in Harts, Execute(h) PROVE StateMatchesHarts'
  BY <1>0, <1>8 DEF Execute, StateMatchesHarts, Pid
<1>9. ASSUME NEW h \in Harts,
             \/ TimerInterrupt(h) \/ ExternalInterrupt(h)
             \/ \E cause \in Causes : Exception(h, cause)
      PROVE  StateMatchesHarts'
  BY <1>1, <1>9 DEF TimerInterrupt, ExternalInterrupt, Exception, Causes, handle_interrupt,
     Goto, TypeOK, Turning
<1>10. CASE UNCHANGED vars
  BY <1>0, <1>10 DEF vars, StateMatchesHarts, Pid
<1>11. QED
  BY <1>2, <1>3, <1>4, <1>5, <1>6, <1>7, <1>8, <1>9, <1>10 DEF Next, Handler

\* HartInv holds in every reachable state.
LEMMA HartInvariant == Spec => []HartInv
<1>1. HartInv /\ [Next]_vars => HartInv'
  BY TypeNext, SpaceNext, ModeNext, ResetNext, StateNext DEF HartInv
<1>2. QED
  BY <1>1, HartInit, PTL DEF Spec

\* With any number of harts racing on the scheduler, a task executes only in
\* its own address space.
THEOREM AddressSpaces == Spec => []OwnAddressSpace
<1>1. HartInv => OwnAddressSpace
  BY DEF HartInv, SpaceInv, OwnAddressSpace, Runs
<1>2. QED
  BY <1>1, HartInvariant, PTL

\* With any number of harts, no task executes with the kernel's privilege and
\* every hart outside the kernel has a timer set that can interrupt it.
THEOREM Preemption == Spec => []PreemptibleUserMode
<1>1. HartInv => PreemptibleUserMode
  BY DEF HartInv, ModeInv, HartMode, PreemptibleUserMode
<1>2. QED
  BY <1>1, HartInvariant, PTL

\* With any number of harts, next is out of range only while some hart is
\* about to reset it.
THEOREM NextRecovers == Spec => []NextReset
<1>1. HartInv => NextReset
  BY DEF HartInv
<1>2. QED
  BY <1>1, HartInvariant, PTL

\* With any number of harts, a task marked RUNNING is held by a hart that is not
\* about to leave it.
THEOREM StatesMatch == Spec => []StateMatchesHarts
<1>1. HartInv => StateMatchesHarts
  BY DEF HartInv
<1>2. QED
  BY <1>1, HartInvariant, PTL

-----------------------------------------------------------------------------
(* One hart, for which CORES = 1 is built.  With several, two of them can   *)
(* be given the same task, and nothing below holds.                         *)

\* The task after c, and after none.
After(c) == IF c >= NTasks - 1 THEN 0 ELSE c + 1

\* What a task is when it is stopped.
Stopped(p) == [task |-> p, k |-> done[p]]

\* The scheduler is always one task ahead of the hart: what next_scheduled_task
\* has read, and what it leaves behind, at each of its accesses.
TurnInv(h) ==
    /\ sscratch[h] \in Tasks \cup {Idle}
    /\ step[h] \notin {"compare", "wrap", "dispatch"} => next = After(sscratch[h])
    /\ step[h] \in Turning \ {"pick"} => n[h] = After(sscratch[h])
    /\ step[h] = "store" => t[h] = next
    /\ step[h] \in {"compare", "wrap"} => next = n[h] + 1
    /\ step[h] = "wrap" => next > up_to
    /\ step[h] = "dispatch" => next = After(n[h])

\* The integer registers of a task are in the hart while it executes, and in its
\* frame at all other times, until the kernel panics.
ContextInv(h) ==
    step[h] # "hung" =>
    \A p \in Tasks : IF step[h] = "user" /\ sscratch[h] = p
                     THEN regs[h] = Stopped(p) ELSE frame[p] = Stopped(p)

\* The successor of a task is a task.
LEMMA AfterFacts ==
    /\ \A c \in Tasks \cup {Idle} : After(c) \in Tasks /\ After(c) = (c + 1) % NTasks
    /\ After(Idle) = 0
<1>1. NTasks \in Nat \ {0}
  BY TaskSwitchAssumption
<1>2. \A c \in 0 .. NTasks - 1 : c % NTasks = c
  BY <1>1
<1>3. NTasks % NTasks = 0
  BY <1>1
<1>4. ASSUME NEW c \in Tasks \cup {Idle} PROVE After(c) \in Tasks /\ After(c) = (c + 1) % NTasks
  <2>1. CASE c = NTasks - 1
    <3>1. c + 1 = NTasks /\ After(c) = 0
      BY <1>1, <2>1 DEF After
    <3>2. QED
      BY <1>1, <1>3, <3>1 DEF Tasks
  <2>2. CASE c # NTasks - 1
    <3>1. c + 1 \in 0 .. NTasks - 1 /\ After(c) = c + 1
      BY <1>1, <2>2 DEF After, Tasks, Idle
    <3>2. QED
      BY <1>2, <3>1 DEF Tasks
  <2>3. QED
    BY <2>1, <2>2
<1>5. QED
  BY <1>1, <1>4 DEF After, Idle

\* kinit leaves one hart consistent.
LEMMA OneInit ==
    ASSUME NEW h \in Harts
    PROVE  Init => TurnInv(h) /\ ContextInv(h)
<1> SUFFICES ASSUME Init PROVE TurnInv(h) /\ ContextInv(h)
  OBVIOUS
<1>1. sscratch[h] = Idle /\ step[h] = "off" /\ next = 0
  BY DEF Init
<1>2. TurnInv(h)
  BY <1>1, AfterFacts DEF TurnInv, Turning
<1>3. ContextInv(h)
  BY <1>1, SlotFacts DEF Init, ContextInv, Stopped
<1>4. QED
  BY <1>2, <1>3

\* One hart: the steps of Next are its steps.
LEMMA OneHart ==
    ASSUME NEW h, Harts = {h}, [Next]_vars
    PROVE  \/ Handler(h) \/ Execute(h) \/ TimerInterrupt(h) \/ ExternalInterrupt(h)
           \/ \E cause \in Causes : Exception(h, cause)
           \/ UNCHANGED vars
  BY DEF Next

\* A trap of any kind saves the registers and touches neither the scheduler nor
\* the tasks.
LEMMA TrapStep ==
    ASSUME TypeOK, NEW h \in Harts,
           \/ TimerInterrupt(h) \/ ExternalInterrupt(h)
           \/ \E cause \in Causes : Exception(h, cause)
    PROVE  /\ step[h] = "user"
           /\ step'[h] \in Causes \cup {"switch", "external"}
           /\ frame' = IF sscratch[h] = Idle THEN frame
                       ELSE [frame EXCEPT ![sscratch[h]] = regs[h]]
           /\ UNCHANGED <<sscratch, regs, done, state, next, up_to, n, t>>
  BY DEF TimerInterrupt, ExternalInterrupt, Exception, Interruptible, handle_interrupt,
     Causes, Goto, sched, TypeOK

\* Every step on one hart keeps the scheduler one task ahead.
LEMMA TurnNext ==
    ASSUME NEW h, Harts = {h}, HartInv, TurnInv(h), [Next]_vars
    PROVE  TurnInv(h)'
<1> USE DEF sched, HartInv
<1>0. /\ h \in Harts /\ step[h] \in Steps /\ sscratch[h] \in Slots \cup {Idle}
      /\ next \in Nat /\ up_to = NTasks - 1 /\ NTasks \in Nat \ {0}
      /\ n[h] \in Nat /\ t[h] \in Nat
  BY TaskSwitchAssumption DEF TypeOK
<1>1. CASE init_hart_helper(h)
  <2>1. step[h] = "off" /\ step'[h] = "return" /\ next' = next /\ sscratch'[h] = Idle
    BY <1>0, <1>1 DEF init_hart_helper, Goto, TypeOK
  <2>2. sscratch[h] = Idle
    BY <1>0, <2>1 DEF ModeInv, HartMode
  <2>3. QED
    BY <2>1, <2>2 DEF TurnInv, Turning
<1>2. CASE HandleExternal(h) \/ HandleEcall(h) \/ HandleBadCall(h) \/ HandleBreakpoint(h)
           \/ HandleFault(h) \/ jump_out_of_trap(h)
  <2>1. /\ step[h] \notin Turning /\ step'[h] \notin Turning
        /\ next' = next /\ sscratch' = sscratch
    BY <1>0, <1>2 DEF HandleExternal, HandleEcall, HandleBadCall, KernelFault,
       HandleBreakpoint, HandleFault, jump_out_of_trap, Goto, TypeOK, Turning
  <2>2. QED
    BY <2>1 DEF TurnInv, Turning
<1>3. CASE Deschedule(h)
  <2>1. step[h] = "switch" /\ step'[h] = "pick" /\ next' = next /\ sscratch' = sscratch
    BY <1>0, <1>3 DEF Deschedule, schedule_task, Goto, TypeOK
  <2>2. QED
    BY <2>1 DEF TurnInv, Turning
<1>4. CASE PickRead(h)
  <2>1. /\ step[h] = "pick" /\ step'[h] = "load" /\ n'[h] = next
        /\ next' = next /\ sscratch' = sscratch
    BY <1>0, <1>4 DEF PickRead, Goto, TypeOK
  <2>2. QED
    BY <2>1 DEF TurnInv, Turning
<1>5. CASE PickLoad(h)
  <2>1. /\ step[h] = "load" /\ step'[h] = "store" /\ t'[h] = next
        /\ next' = next /\ sscratch' = sscratch /\ n' = n
    BY <1>0, <1>5 DEF PickLoad, Goto, TypeOK
  <2>2. QED
    BY <2>1 DEF TurnInv, Turning
<1>6. CASE PickStore(h)
  <2>1. /\ step[h] = "store" /\ step'[h] = "compare" /\ next' = t[h] + 1
        /\ sscratch' = sscratch /\ n' = n
    BY <1>0, <1>6 DEF PickStore, Goto, TypeOK
  <2>2. QED
    BY <2>1 DEF TurnInv, Turning
<1>7. CASE PickCompare(h)
  <2>1. /\ step[h] = "compare" /\ step'[h] = IF next > up_to THEN "wrap" ELSE "dispatch"
        /\ next' = next /\ up_to' = up_to /\ sscratch' = sscratch /\ n' = n
    BY <1>0, <1>7 DEF PickCompare, Goto, TypeOK
  <2>2. next = n[h] + 1 /\ n[h] = After(sscratch[h])
    BY <2>1 DEF TurnInv, Turning
  <2>3. next =< up_to => next = After(n[h])
    BY <1>0, <2>2 DEF After
  <2>4. CASE next > up_to
    BY <2>1, <2>2, <2>4 DEF TurnInv, Turning
  <2>5. CASE ~(next > up_to)
    BY <1>0, <2>1, <2>2, <2>3, <2>5 DEF TurnInv, Turning
  <2>6. QED
    BY <2>4, <2>5
<1>8. CASE PickWrap(h)
  <2>1. /\ step[h] = "wrap" /\ step'[h] = "dispatch" /\ next' = 0
        /\ up_to' = up_to /\ sscratch' = sscratch /\ n' = n
    BY <1>0, <1>8 DEF PickWrap, Goto, TypeOK
  <2>2. next = n[h] + 1 /\ n[h] = After(sscratch[h]) /\ next > up_to
    BY <2>1 DEF TurnInv, Turning
  <2>3. After(n[h]) = 0
    BY <1>0, <2>2 DEF After
  <2>4. QED
    BY <2>1, <2>2, <2>3 DEF TurnInv, Turning
<1>9. CASE Dispatch(h)
  <2>1. step[h] = "dispatch" /\ next' = next
    BY <1>9 DEF Dispatch, KernelFault
  <2>2. /\ sscratch[h] \in Tasks \cup {Idle} /\ n[h] = After(sscratch[h])
        /\ next = After(n[h]) /\ n[h] \in Tasks /\ n[h] \in Slots
    BY <2>1, AfterFacts, SlotFacts DEF TurnInv, Turning
  <2>3. Pid(sscratch[h]) = sscratch[h]
    BY <2>2 DEF Pid
  <2>4. step'[h] = "return" /\ sscratch'[h] = n[h]
    BY <1>0, <1>9, <2>2, <2>3 DEF Dispatch, Goto, TypeOK
  <2>5. QED
    BY <2>1, <2>2, <2>4 DEF TurnInv, Turning
<1>10. CASE Execute(h)
  BY <1>10 DEF Execute, TurnInv
<1>11. CASE \/ TimerInterrupt(h) \/ ExternalInterrupt(h)
            \/ \E cause \in Causes : Exception(h, cause)
  <2>1. /\ step[h] = "user" /\ step'[h] \notin Turning
        /\ next' = next /\ sscratch' = sscratch
    BY <1>0, <1>11, TrapStep DEF Turning, Causes
  <2>2. QED
    BY <2>1 DEF TurnInv, Turning
<1>12. CASE UNCHANGED vars
  BY <1>12 DEF vars, TurnInv
<1>13. QED
  BY <1>1, <1>2, <1>3, <1>4, <1>5, <1>6, <1>7, <1>8, <1>9, <1>10, <1>11, <1>12, OneHart
  DEF Handler

\* Every step on one hart leaves the registers of every task where they belong.
LEMMA ContextNext ==
    ASSUME NEW h, Harts = {h}, HartInv, TurnInv(h), ContextInv(h), [Next]_vars
    PROVE  ContextInv(h)'
<1> USE DEF sched, HartInv
<1>0. h \in Harts /\ sscratch[h] \in Tasks \cup {Idle} /\ Tasks \subseteq Slots /\ Idle \notin Tasks
  BY SlotFacts DEF TurnInv
<1>1. CASE UNCHANGED <<frame, done>> /\ step[h] \notin {"user", "hung"} /\ step'[h] # "user"
  BY <1>1 DEF ContextInv, Stopped
<1>9. CASE step'[h] = "hung"
  BY <1>9 DEF ContextInv
<1>2. CASE \/ init_hart_helper(h) \/ HandleExternal(h) \/ HandleBreakpoint(h) \/ HandleFault(h)
           \/ Deschedule(h) \/ PickRead(h) \/ PickLoad(h) \/ PickStore(h) \/ PickCompare(h)
           \/ PickWrap(h) \/ Dispatch(h) \/ HandleBadCall(h)
  <2> SUFFICES ASSUME step'[h] # "hung" PROVE ContextInv(h)'
    BY <1>9
  <2>1. UNCHANGED <<frame, done>> /\ step[h] \notin {"user", "hung"} /\ step'[h] # "user"
    BY <1>0, <1>2 DEF init_hart_helper, HandleExternal, HandleBadCall, KernelFault,
       HandleBreakpoint, HandleFault, Deschedule, PickRead, PickLoad, PickStore,
       PickCompare, PickWrap, Dispatch, Goto, TypeOK
  <2>2. QED
    BY <1>1, <2>1
<1>3. CASE HandleEcall(h)
  <2>1. step[h] = "ecall" /\ step'[h] = "return" /\ sscratch[h] \in Tasks
    BY <1>0, <1>3 DEF HandleEcall, Goto, TypeOK, ModeInv, HartMode
  <2>2. DEFINE f == sscratch[h]
  <2>3. /\ frame' = [frame EXCEPT ![f].k = (frame[f].k + 1) % Ticks]
        /\ done' = [done EXCEPT ![f] = (done[f] + 1) % Ticks]
    BY <1>3 DEF HandleEcall
  <2>4. \A p \in Tasks : frame[p] = Stopped(p)
    BY <2>1 DEF ContextInv
  <2>5. ASSUME NEW p \in Tasks PROVE frame'[p] = Stopped(p)'
    <3>1. CASE p = f
      <4>1. frame[f] = [task |-> f, k |-> done[f]]
        BY <2>1, <2>4 DEF Stopped
      <4>2. \A x : [frame[f] EXCEPT !.k = x] = [task |-> f, k |-> x]
        BY <4>1
      <4>3. \A x : x = (frame[f].k + 1) % Ticks => x = (done[f] + 1) % Ticks
        BY <4>1
      <4>4. \A x : /\ frame' = [frame EXCEPT ![f].k = x]
                   /\ done' = [done EXCEPT ![f] = x]
                   => frame'[f] = [frame[f] EXCEPT !.k = x] /\ done'[f] = x
        BY <1>0, <2>1 DEF TypeOK
      <4>5. frame'[f] = [task |-> f, k |-> done'[f]]
        BY <2>3, <4>2, <4>3, <4>4
      <4>6. QED
        BY <3>1, <4>5 DEF Stopped
    <3>2. CASE p # f
      BY <1>0, <2>1, <2>3, <2>4, <3>2 DEF Stopped, TypeOK
    <3>3. QED
      BY <3>1, <3>2
  <2>6. QED
    BY <2>1, <2>5 DEF ContextInv
<1>4. CASE jump_out_of_trap(h)
  <2>1. /\ step[h] = "return" /\ step'[h] = "user" /\ UNCHANGED <<sscratch, frame, done>>
        /\ sscratch[h] \in Tasks => regs'[h] = frame[sscratch[h]]
    BY <1>0, <1>4 DEF jump_out_of_trap, Goto, TypeOK
  <2>2. \A p \in Tasks : frame[p] = Stopped(p) /\ Stopped(p)' = Stopped(p)
    BY <2>1 DEF ContextInv, Stopped
  <2>3. QED
    BY <2>1, <2>2 DEF ContextInv
<1>5. CASE Execute(h)
  <2>1. /\ step[h] = "user" /\ sscratch[h] \in Tasks /\ UNCHANGED <<step, sscratch, frame>>
        /\ regs' = [regs EXCEPT ![h].k = (regs[h].k + 1) % Ticks]
        /\ done' = [done EXCEPT ![sscratch[h]] = (done[sscratch[h]] + 1) % Ticks]
    BY <1>5 DEF Execute
  <2>2. regs'[h] = Stopped(sscratch[h])'
    <3>1. DEFINE f == sscratch[h]
    <3>2. regs[h] = [task |-> f, k |-> done[f]]
      BY <2>1 DEF ContextInv, Stopped
    <3>3. \A x : [regs[h] EXCEPT !.k = x] = [task |-> f, k |-> x]
      BY <3>2
    <3>4. \A x : x = (regs[h].k + 1) % Ticks => x = (done[f] + 1) % Ticks
      BY <3>2
    <3>5. \A x : regs' = [regs EXCEPT ![h].k = x] /\ done' = [done EXCEPT ![f] = x]
                 => regs'[h] = [regs[h] EXCEPT !.k = x] /\ done'[f] = x
      BY <1>0, <2>1 DEF TypeOK
    <3>6. regs'[h] = [task |-> f, k |-> done'[f]]
      BY <2>1, <3>3, <3>4, <3>5
    <3>7. QED
      BY <2>1, <3>6 DEF Stopped
  <2>3. \A p \in Tasks : p # sscratch[h] => Stopped(p)' = Stopped(p)
    BY <1>0, <2>1 DEF Stopped, TypeOK
  <2>4. QED
    BY <2>1, <2>2, <2>3 DEF ContextInv
<1>6. CASE \/ TimerInterrupt(h) \/ ExternalInterrupt(h)
           \/ \E cause \in Causes : Exception(h, cause)
  <2>1. /\ step[h] = "user" /\ step'[h] # "user" /\ UNCHANGED <<sscratch, done>>
        /\ frame' = IF sscratch[h] = Idle THEN frame ELSE [frame EXCEPT ![sscratch[h]] = regs[h]]
    BY <1>0, <1>6, TrapStep DEF Causes
  <2>2. ASSUME NEW p \in Tasks PROVE frame'[p] = Stopped(p)
    BY <1>0, <2>1 DEF ContextInv, TypeOK
  <2>3. QED
    BY <2>1, <2>2 DEF ContextInv, Stopped
<1>7. CASE UNCHANGED vars
  BY <1>7 DEF vars, ContextInv, Stopped
<1>8. QED
  BY <1>2, <1>3, <1>4, <1>5, <1>6, <1>7, OneHart DEF Handler

OneInv(h) == HartInv /\ TurnInv(h) /\ ContextInv(h)

\* On a machine with one hart OneInv holds in every reachable state.
LEMMA OneInvariant ==
    ASSUME NEW CONSTANT h, Harts = {h}
    PROVE  Spec => []OneInv(h)
<1>1. Init => OneInv(h)
  BY HartInit, OneInit DEF OneInv
<1>2. OneInv(h) /\ [Next]_vars => OneInv(h)'
  BY TypeNext, SpaceNext, ModeNext, ResetNext, StateNext, TurnNext, ContextNext DEF OneInv, HartInv
<1>3. QED
  BY <1>1, <1>2, PTL DEF Spec

\* On one hart a task always goes on with the integer registers and the pc it
\* stopped with, however many tasks there are and whatever traps they take.
THEOREM ContextsKept ==
    ASSUME NEW CONSTANT h, Harts = {h}
    PROVE  Spec => []ContextIntegrity
<1>1. OneInv(h) => ContextIntegrity
  BY DEF OneInv, ContextInv, ContextIntegrity, Runs, Stopped
<1>2. QED
  BY <1>1, OneInvariant, PTL

\* On one hart next_scheduled_task never returns a slot without a task: the
\* violation TLC finds takes two harts.
THEOREM OneHartPicksTasks ==
    ASSUME NEW CONSTANT h, Harts = {h}
    PROVE  Spec => []PickedIsScheduled
<1>1. OneInv(h) => PickedIsScheduled
  BY AfterFacts, TaskSwitchAssumption
  DEF OneInv, HartInv, TypeOK, TurnInv, Turning, PickedIsScheduled, Tasks
<1>2. QED
  BY <1>1, OneInvariant, PTL

\* The safety part of RotationSpec.
InTurn == Turns!Init /\ [][Turns!Rotate]_(sscratch[TheHart])

\* On one hart the tasks get the hart strictly in turn, beginning with the first:
\* every step of the code is a rotation or leaves the hart with its task.
THEOREM StrictRotation ==
    ASSUME NEW CONSTANT h, Harts = {h}
    PROVE  Spec => InTurn
<1>0. TheHart = h
  BY DEF TheHart
<1>1. Init => Turns!Init
  BY <1>0 DEF Init, Turns!Init, Idle
<1>2. OneInv(h) /\ OneInv(h)' /\ [Next]_vars => [Turns!Rotate]_(sscratch[TheHart])
  <2> SUFFICES ASSUME OneInv(h), [Next]_vars
               PROVE  sscratch'[h] = (sscratch[h] + 1) % NTasks \/ sscratch'[h] = sscratch[h]
    BY <1>0 DEF Turns!Rotate
  <2> USE DEF OneInv, HartInv, sched
  <2>1. CASE Dispatch(h)
    <3>1. step[h] = "dispatch" /\ h \in Harts
      BY <2>1 DEF Dispatch
    <3>2. n[h] = (sscratch[h] + 1) % NTasks
      BY <3>1, AfterFacts DEF TurnInv, Turning
    <3>3. sscratch'[h] \in {n[h], sscratch[h]}
      BY <2>1, <3>1 DEF Dispatch, KernelFault, TypeOK
    <3>4. QED
      BY <3>2, <3>3
  <2>2. CASE init_hart_helper(h)
    BY <2>2 DEF init_hart_helper, TypeOK, ModeInv, HartMode
  <2>3. CASE Handler(h) /\ ~Dispatch(h) /\ ~init_hart_helper(h)
    BY <2>3 DEF Handler, HandleExternal, HandleEcall, HandleBadCall, KernelFault,
       HandleBreakpoint, HandleFault, Deschedule, PickRead, PickLoad, PickStore,
       PickCompare, PickWrap, jump_out_of_trap
  <2>4. CASE \/ Execute(h) \/ TimerInterrupt(h) \/ ExternalInterrupt(h)
             \/ \E cause \in Causes : Exception(h, cause)
    BY <2>4, TrapStep DEF Execute
  <2>5. CASE UNCHANGED vars
    BY <2>5 DEF vars
  <2>6. QED
    BY <2>1, <2>2, <2>3, <2>4, <2>5, OneHart
<1>3. QED
  BY <1>1, <1>2, OneInvariant, PTL DEF Spec, InTurn
=============================================================================
