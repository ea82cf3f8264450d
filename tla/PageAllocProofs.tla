--------------------------- MODULE PageAllocProofs ---------------------------
(***************************************************************************)
(* Proofs about PageAlloc, for any finite set of harts, any number of      *)
(* pages and any counter width.                                            *)
(***************************************************************************)
EXTENDS PageAlloc, FiniteSetTheorems, TLAPS

\* What a hart's call record says at each place of the code: the run lies in
\* the heap, the loop index counts the pages done so far.
CallShape(h) ==
    /\ pc[h] = "idle" => call[h] = NoCall
    /\ pc[h] # "idle" => call[h].fn # "none"
    /\ call[h].page # NULL => call[h].page + call[h].n =< NPages
    /\ call[h].fn = "alloc" => call[h].i = 0
    /\ pc[h] = "lock" => call[h].i = 0 /\ (call[h].fn = "alloc" => call[h].page = NULL)
    /\ pc[h] = "scan" => call[h].fn = "alloc" /\ call[h].page = NULL
    /\ pc[h] \in {"claim", "zero"} => call[h].fn = "alloc" /\ call[h].page # NULL
    /\ pc[h] \in {"load", "store"} =>
          /\ call[h].fn \in {"incr", "dealloc"} /\ call[h].page # NULL
          /\ call[h].i < call[h].n
          /\ call[h].page + call[h].i \in Pages
    /\ pc[h] = "unlock" /\ call[h].fn # "alloc" /\ call[h].page # NULL =>
          call[h].i = call[h].n

CallOK == \A h \in Harts : CallShape(h)

\* The records the functions build are call records.
LEMMA CallFacts ==
    /\ NoCall \in Calls
    /\ \A fn \in {"alloc", "incr", "dealloc"}, p \in Pages \cup {NULL},
          n \in 1 .. MaxCount : [fn |-> fn, page |-> p, n |-> n, i |-> 0] \in Calls
    /\ \A c \in Calls, p \in Pages : [c EXCEPT !.page = p] \in Calls
    /\ \A c \in Calls : c.i < c.n => [c EXCEPT !.i = c.i + 1] \in Calls
  BY PageAllocAssumption DEF NoCall, Calls, NULL

\* Every step of the allocator keeps the types: in particular a counter never
\* leaves 0 .. RcMax, because incr_page_ref_count saturates and dealloc_pages
\* stops at zero.
LEMMA TypeInit == Init => TypeOK
<1> SUFFICES ASSUME Init PROVE TypeOK
  OBVIOUS
<1>1. rc \in [Pages -> 0 .. RcMax] /\ held \in [Pages -> Nat]
  BY PageAllocAssumption DEF Init
<1>2. call \in [Harts -> Calls]
  BY CallFacts DEF Init
<1>3. pc \in [Harts -> PcValues] /\ snap \in [Harts -> 0 .. RcMax]
  BY PageAllocAssumption DEF Init, PcValues
<1>4. lock \in BOOLEAN /\ dirty \in [Pages -> BOOLEAN]
  BY DEF Init
<1>5. QED
  BY <1>1, <1>2, <1>3, <1>4 DEF TypeOK

\* Giving references up, as dealloc_pages' caller does, leaves the references typed.
LEMMA TakenType ==
    ASSUME TypeOK, NEW p, NEW n, Owned(p, n)
    PROVE  Taken(Span(p, n)) \in [Pages -> Nat]
  BY DEF TypeOK, Owned, Taken

\* Entering alloc_pages, incr_page_ref_count or dealloc_pages keeps the types.
LEMMA EnterType ==
    ASSUME TypeOK, NEW h \in Harts, NEW fn \in {"alloc", "incr", "dealloc"},
           NEW p \in Pages \cup {NULL}, NEW n \in 1 .. MaxCount,
           Enter(h, fn, p, n), held' \in [Pages -> Nat]
    PROVE  TypeOK'
<1>1. call' \in [Harts -> Calls]
  BY CallFacts DEF TypeOK, Enter
<1>2. pc' \in [Harts -> PcValues]
  BY DEF TypeOK, Enter, PcValues
<1>3. QED
  BY <1>1, <1>2 DEF TypeOK, Enter

\* Every step of the allocator keeps the types: in particular a counter never
\* leaves 0 .. RcMax, because incr_page_ref_count saturates and dealloc_pages
\* stops at zero.
LEMMA TypeNext == TypeOK /\ CallOK /\ [Next]_vars => TypeOK'
<1> SUFFICES ASSUME TypeOK, CallOK, [Next]_vars PROVE TypeOK'
  OBVIOUS
<1>1. ASSUME NEW h \in Harts, NEW n \in 1 .. MaxCount, alloc_pages(h, n)
      PROVE  TypeOK'
  BY <1>1, EnterType DEF alloc_pages, TypeOK
<1>2. ASSUME NEW h \in Harts, NEW p \in Pages, NEW n \in 1 .. MaxCount,
             incr_page_ref_count(h, p, n)
      PROVE  TypeOK'
  BY <1>2, EnterType, TakenType DEF incr_page_ref_count
<1>3. ASSUME NEW h \in Harts, NEW p \in Pages, NEW n \in 1 .. MaxCount,
             dealloc_pages(h, p, n)
      PROVE  TypeOK'
  BY <1>3, EnterType, TakenType DEF dealloc_pages
<1>4. ASSUME NEW h \in Harts, NEW fn \in {"incr", "dealloc"}, OnNull(h, fn)
      PROVE  TypeOK'
  <2>1. 1 \in 1 .. MaxCount
    BY PageAllocAssumption
  <2>2. held' \in [Pages -> Nat]
    BY <1>4 DEF OnNull, TypeOK
  <2>3. QED
    BY <1>4, <2>1, <2>2, EnterType DEF OnNull
<1>5. ASSUME NEW h \in Harts, spin_lock(h) PROVE TypeOK'
  BY <1>5 DEF spin_lock, TypeOK, PcValues
<1>6. ASSUME NEW h \in Harts, Scan(h) PROVE TypeOK'
  <2>1. Starts(call[h].n) \subseteq Pages
    BY PageAllocAssumption DEF TypeOK, Calls, Starts, Pages
  <2>2. call' \in [Harts -> Calls]
    BY <1>6, <2>1, CallFacts DEF Scan, TypeOK
  <2>3. pc' \in [Harts -> PcValues]
    BY <1>6 DEF Scan, TypeOK, PcValues
  <2>4. QED
    BY <1>6, <2>2, <2>3 DEF Scan, TypeOK
<1>7. ASSUME NEW h \in Harts, Claim(h) PROVE TypeOK'
  <2>1. rc' \in [Pages -> 0 .. RcMax]
    BY <1>7, PageAllocAssumption DEF Claim, TypeOK
  <2>2. QED
    BY <1>7, <2>1 DEF Claim, TypeOK, PcValues
<1>8. ASSUME NEW h \in Harts, Zero(h) PROVE TypeOK'
  <2>1. dirty' \in [Pages -> BOOLEAN]
    BY <1>8 DEF Zero, TypeOK
  <2>2. QED
    BY <1>8, <2>1 DEF Zero, TypeOK, PcValues
<1>9. ASSUME NEW h \in Harts, Load(h) PROVE TypeOK'
  <2>1. call[h].page + call[h].i \in Pages
    BY <1>9 DEF Load, CallOK, CallShape
  <2>2. snap' \in [Harts -> 0 .. RcMax]
    BY <1>9, <2>1 DEF Load, TypeOK
  <2>3. QED
    BY <1>9, <2>2 DEF Load, TypeOK, PcValues
<1>10. ASSUME NEW h \in Harts, Store(h) PROVE TypeOK'
  <2>1. rc' \in [Pages -> 0 .. RcMax]
    <3>1. snap[h] \in 0 .. RcMax
      BY DEF TypeOK
    <3>2. Incremented(snap[h]) \in 0 .. RcMax /\ Decremented(snap[h]) \in 0 .. RcMax
      BY <3>1, PageAllocAssumption DEF Incremented, Decremented
    <3>3. QED
      BY <1>10, <3>2 DEF Store, TypeOK
  <2>2. call' \in [Harts -> Calls]
    BY <1>10, CallFacts DEF Store, TypeOK, CallOK, CallShape
  <2>3. pc' \in [Harts -> PcValues]
    BY <1>10 DEF Store, TypeOK, PcValues
  <2>4. QED
    BY <1>10, <2>1, <2>2, <2>3 DEF Store, TypeOK
<1>11. ASSUME NEW h \in Harts, spin_unlock(h) PROVE TypeOK'
  <2>1. held' \in [Pages -> Nat]
    BY <1>11 DEF spin_unlock, Returned, TypeOK
  <2>2. QED
    BY <1>11, <2>1, CallFacts DEF spin_unlock, TypeOK, PcValues
<1>12. ASSUME NEW p \in Pages, Write(p) PROVE TypeOK'
  BY <1>12 DEF Write, TypeOK
<1>13. CASE UNCHANGED vars
  BY <1>13 DEF vars, TypeOK
<1>14. QED
  BY <1>1, <1>2, <1>3, <1>4, <1>5, <1>6, <1>7, <1>8, <1>9, <1>10, <1>11,
     <1>12, <1>13 DEF Next, Begin, Step

\* The call records keep their shape: each action changes that of one hart.
LEMMA CallInit == Init => CallOK
  BY PageAllocAssumption DEF Init, CallOK, CallShape, NoCall

\* A step of hart h that changes only its own call leaves every other hart's call
\* record well formed.
LEMMA CallOthers ==
    ASSUME TypeOK, CallOK, NEW h \in Harts, NEW k, NEW c,
           pc' = [pc EXCEPT ![h] = k], call' = [call EXCEPT ![h] = c],
           CallShape(h)'
    PROVE  CallOK'
  BY DEF TypeOK, CallOK, CallShape

\* A call record is well formed as soon as the function is entered.
LEMMA CallEnter ==
    ASSUME TypeOK, CallOK, NEW h \in Harts, NEW fn \in {"alloc", "incr", "dealloc"},
           NEW p \in Pages \cup {NULL}, NEW n \in 1 .. MaxCount,
           Enter(h, fn, p, n), fn = "alloc" => p = NULL,
           p # NULL => p + n =< NPages
    PROVE  CallOK'
<1> DEFINE c == [fn |-> fn, page |-> p, n |-> n, i |-> 0]
<1>1. pc'[h] = "lock" /\ call'[h] = c
  BY DEF Enter, TypeOK
<1>2. CallShape(h)'
  BY <1>1 DEF CallShape
<1>3. QED
  BY <1>2, CallOthers DEF Enter

\* A run its caller holds references to ends inside the pool, so the loop of
\* dealloc_pages never leaves it.
LEMMA OwnedFits ==
    ASSUME NEW p \in Pages, NEW n \in 1 .. MaxCount, Owned(p, n)
    PROVE  p + n =< NPages
<1>1. p + n - 1 \in Span(p, n)
  BY PageAllocAssumption DEF Span, Pages
<1>2. p + n - 1 \in Pages
  BY <1>1 DEF Owned
<1>3. QED
  BY <1>2, PageAllocAssumption DEF Pages

\* Every step keeps every hart's call record well formed.
LEMMA CallNext == TypeOK /\ CallOK /\ [Next]_vars => CallOK'
<1> SUFFICES ASSUME TypeOK, CallOK, [Next]_vars PROVE CallOK'
  OBVIOUS
<1>0. ASSUME NEW h \in Harts
      PROVE  /\ CallShape(h) /\ call[h] \in Calls /\ pc[h] \in PcValues
             /\ call[h].page \in Pages \cup {NULL}
             /\ call[h].n \in 1 .. MaxCount /\ call[h].i \in 0 .. MaxCount
  BY DEF TypeOK, CallOK, Calls
<1>1. ASSUME NEW h \in Harts, NEW n \in 1 .. MaxCount, alloc_pages(h, n)
      PROVE  CallOK'
  BY <1>1, CallEnter DEF alloc_pages
<1>2. ASSUME NEW h \in Harts, NEW p \in Pages, NEW n \in 1 .. MaxCount,
             incr_page_ref_count(h, p, n)
      PROVE  CallOK'
  BY <1>2, CallEnter, OwnedFits DEF incr_page_ref_count
<1>3. ASSUME NEW h \in Harts, NEW p \in Pages, NEW n \in 1 .. MaxCount,
             dealloc_pages(h, p, n)
      PROVE  CallOK'
  BY <1>3, CallEnter, OwnedFits DEF dealloc_pages
<1>4. ASSUME NEW h \in Harts, NEW fn \in {"incr", "dealloc"}, OnNull(h, fn)
      PROVE  CallOK'
  <2>1. 1 \in 1 .. MaxCount
    BY PageAllocAssumption
  <2>2. QED
    BY <1>4, <2>1, CallEnter DEF OnNull
<1>5. ASSUME NEW h \in Harts, spin_lock(h) PROVE CallOK'
  <2>1. ASSUME call[h].page # NULL PROVE call[h].page + 0 \in Pages
    BY <2>1, <1>0, PageAllocAssumption DEF Pages
  <2>2. CallShape(h)'
    <3>1. /\ call' = call /\ call[h].i = 0 /\ call[h].n > 0
          /\ call[h].fn \in {"alloc", "incr", "dealloc"}
          /\ call[h].fn = "alloc" => call[h].page = NULL
      BY <1>0, <1>5 DEF spin_lock, CallShape, Calls
    <3>2. pc'[h] = IF call[h].fn = "alloc" THEN "scan"
                   ELSE IF call[h].page = NULL THEN "unlock" ELSE "load"
      BY <1>5 DEF spin_lock, TypeOK
    <3>3. QED
      BY <1>0, <2>1, <3>1, <3>2 DEF CallShape
  <2>3. \A g \in Harts \ {h} : pc'[g] = pc[g] /\ call'[g] = call[g]
    BY <1>5 DEF spin_lock, TypeOK
  <2>4. QED
    BY <1>0, <2>2, <2>3 DEF CallOK, CallShape
<1>6. ASSUME NEW h \in Harts, Scan(h) PROVE CallOK'
  <2>1. CASE \E p \in Starts(call[h].n) : call' = [call EXCEPT ![h].page = p]
                                          /\ pc' = [pc EXCEPT ![h] = "claim"]
    <3>1. PICK p \in Starts(call[h].n) : call' = [call EXCEPT ![h].page = p]
                                         /\ pc' = [pc EXCEPT ![h] = "claim"]
      BY <2>1
    <3>2. p + call[h].n =< NPages /\ p \in Nat
      BY <1>0, PageAllocAssumption DEF Starts
    <3>3. /\ pc'[h] = "claim" /\ call'[h].page = p /\ call'[h].fn = call[h].fn
          /\ call'[h].n = call[h].n /\ call'[h].i = call[h].i
      BY <3>1 DEF TypeOK, Calls
    <3>4. CallShape(h)'
      BY <1>0, <1>6, <3>2, <3>3 DEF Scan, CallShape, NULL
    <3>5. \A g \in Harts \ {h} : pc'[g] = pc[g] /\ call'[g] = call[g]
      BY <3>1 DEF TypeOK
    <3>6. QED
      BY <1>0, <3>4, <3>5 DEF CallOK, CallShape
  <2>2. CASE call' = call /\ pc' = [pc EXCEPT ![h] = "unlock"]
    <3>1. CallShape(h)'
      BY <1>0, <1>6, <2>2 DEF Scan, TypeOK, CallShape
    <3>2. \A g \in Harts \ {h} : pc'[g] = pc[g] /\ call'[g] = call[g]
      BY <2>2 DEF TypeOK
    <3>3. QED
      BY <1>0, <3>1, <3>2 DEF CallOK, CallShape
  <2>3. QED
    BY <1>6, <2>1, <2>2 DEF Scan
<1>7. ASSUME NEW h \in Harts, Claim(h) PROVE CallOK'
  BY <1>0, <1>7 DEF Claim, TypeOK, CallOK, CallShape
<1>8. ASSUME NEW h \in Harts, Zero(h) PROVE CallOK'
  BY <1>0, <1>8 DEF Zero, TypeOK, CallOK, CallShape
<1>9. ASSUME NEW h \in Harts, Load(h) PROVE CallOK'
  BY <1>0, <1>9 DEF Load, TypeOK, CallOK, CallShape
<1>10. ASSUME NEW h \in Harts, Store(h) PROVE CallOK'
  <2>1. /\ call'[h].page = call[h].page /\ call'[h].fn = call[h].fn
        /\ call'[h].n = call[h].n /\ call'[h].i = call[h].i + 1
        /\ pc'[h] = IF call[h].i + 1 < call[h].n THEN "load" ELSE "unlock"
    BY <1>10 DEF Store, TypeOK, Calls
  <2>2. /\ call[h].page \in Pages /\ call[h].page + call[h].n =< NPages
        /\ call[h].fn \in {"incr", "dealloc"} /\ call[h].i < call[h].n
    BY <1>0, <1>10 DEF Store, CallShape
  <2>3. CallShape(h)'
    <3>1. CASE call[h].i + 1 < call[h].n
      <4>1. call[h].page + (call[h].i + 1) \in Pages
        BY <1>0, <2>2, <3>1, PageAllocAssumption DEF Pages
      <4>2. pc'[h] = "load" /\ call'[h].page + call'[h].i \in Pages
        BY <2>1, <3>1, <4>1
      <4>3. QED
        BY <2>1, <2>2, <3>1, <4>2 DEF CallShape, Pages, NULL
    <3>2. CASE ~(call[h].i + 1 < call[h].n)
      BY <1>0, <2>1, <2>2, <3>2 DEF CallShape
    <3>3. QED
      BY <3>1, <3>2
  <2>4. \A g \in Harts \ {h} : pc'[g] = pc[g] /\ call'[g] = call[g]
    BY <1>10 DEF Store, TypeOK
  <2>5. QED
    BY <1>0, <2>3, <2>4 DEF CallOK, CallShape
<1>11. ASSUME NEW h \in Harts, spin_unlock(h) PROVE CallOK'
  <2>1. pc'[h] = "idle" /\ call'[h] = NoCall
    BY <1>11 DEF spin_unlock, TypeOK
  <2>2. CallShape(h)'
    BY <2>1 DEF CallShape, NoCall
  <2>3. QED
    BY <1>11, <2>2, CallOthers DEF spin_unlock
<1>12. ASSUME NEW p \in Pages, Write(p) PROVE CallOK'
  BY <1>12 DEF Write, CallOK, CallShape
<1>13. CASE UNCHANGED vars
  BY <1>13 DEF vars, CallOK, CallShape
<1>14. QED
  BY <1>1, <1>2, <1>3, <1>4, <1>5, <1>6, <1>7, <1>8, <1>9, <1>10, <1>11,
     <1>12, <1>13 DEF Next, Begin, Step

-----------------------------------------------------------------------------
\* Mutual exclusion: only spin_lock enters, and it needs the lock clear.
LEMMA MutexInit == Init => MutualExclusion
  BY DEF Init, MutualExclusion, InCritical

\* Every step keeps at most one hart between taking and releasing mutating.
LEMMA MutexNext == TypeOK /\ CallOK /\ MutualExclusion /\ [Next]_vars => MutualExclusion'
<1> SUFFICES ASSUME TypeOK, CallOK, MutualExclusion, [Next]_vars
             PROVE  MutualExclusion'
  OBVIOUS
<1> USE DEF MutualExclusion, InCritical
<1>1. ASSUME NEW h \in Harts, Begin(h) PROVE MutualExclusion'
  BY <1>1 DEF Begin, alloc_pages, incr_page_ref_count, dealloc_pages, OnNull,
              Enter, TypeOK
<1>2. ASSUME NEW h \in Harts, spin_lock(h) PROVE MutualExclusion'
  BY <1>2 DEF spin_lock, TypeOK
<1>3. ASSUME NEW h \in Harts, Scan(h) \/ Claim(h) \/ Zero(h) \/ Load(h) \/ Store(h)
      PROVE  MutualExclusion'
  BY <1>3 DEF Scan, Claim, Zero, Load, Store, TypeOK
<1>4. ASSUME NEW h \in Harts, spin_unlock(h) PROVE MutualExclusion'
  BY <1>4 DEF spin_unlock, TypeOK
<1>5. ASSUME NEW p \in Pages, Write(p) PROVE MutualExclusion'
  BY <1>5 DEF Write
<1>6. CASE UNCHANGED vars
  BY <1>6 DEF vars
<1>7. QED
  BY <1>1, <1>2, <1>3, <1>4, <1>5, <1>6 DEF Next, Step

-----------------------------------------------------------------------------
\* What a hart has read of the counters stays true while it holds the lock.
Checked(h) ==
    /\ pc[h] = "claim" => FirstFit(call[h].page, call[h].n)
    /\ pc[h] = "store" => snap[h] = rc[call[h].page + call[h].i]
    /\ pc[h] = "unlock" /\ call[h].fn = "alloc" /\ call[h].page = NULL
          => \A p \in Starts(call[h].n) : ~Fits(p, call[h].n)

\* CheckedStillTrue, hart by hart.
LEMMA CheckedDef == CheckedStillTrue <=> \A h \in Harts : Checked(h)
  BY DEF CheckedStillTrue, Checked

\* A hart that does not move keeps its facts when the counters stay as they are.
LEMMA CheckedFrame ==
    ASSUME NEW g, Checked(g), rc' = rc, pc'[g] = pc[g], call'[g] = call[g],
           snap'[g] = snap[g]
    PROVE  Checked(g)'
  BY DEF Checked, FirstFit, Fits, Starts

\* A hart outside the critical section has none to keep.
LEMMA CheckedOutside ==
    ASSUME NEW g, pc'[g] \notin {"claim", "store", "unlock"}
    PROVE  Checked(g)'
  BY DEF Checked

\* No hart has checked anything at start.
LEMMA CheckedInit == Init => CheckedStillTrue
  BY DEF Init, CheckedStillTrue

\* What a hart found out under the lock stays true until it acts on it.
LEMMA CheckedNext ==
    TypeOK /\ CallOK /\ MutualExclusion /\ CheckedStillTrue /\ [Next]_vars
       => CheckedStillTrue'
<1> SUFFICES ASSUME TypeOK, CallOK, MutualExclusion, [Next]_vars,
                    \A h \in Harts : Checked(h)
             PROVE  \A g \in Harts : Checked(g)'
  BY CheckedDef DEF CheckedStillTrue, Checked
<1>1. ASSUME NEW h \in Harts, Begin(h) PROVE \A g \in Harts : Checked(g)'
  <2>1. pc'[h] = "lock" /\ rc' = rc /\ snap' = snap
    BY <1>1 DEF Begin, alloc_pages, incr_page_ref_count, dealloc_pages, OnNull,
                Enter, TypeOK
  <2>2. \A g \in Harts \ {h} : pc'[g] = pc[g] /\ call'[g] = call[g]
    BY <1>1 DEF Begin, alloc_pages, incr_page_ref_count, dealloc_pages, OnNull,
                Enter, TypeOK
  <2>3. QED
    BY <2>1, <2>2, CheckedFrame, CheckedOutside
<1>2. ASSUME NEW h \in Harts, spin_lock(h) PROVE \A g \in Harts : Checked(g)'
  <2>1. /\ rc' = rc /\ snap' = snap /\ call' = call
        /\ \A g \in Harts \ {h} : pc'[g] = pc[g]
    BY <1>2 DEF spin_lock, TypeOK
  <2>2. pc'[h] = "unlock" => call[h].fn # "alloc"
    BY <1>2 DEF spin_lock, TypeOK
  <2>3. pc'[h] \in {"scan", "unlock", "load"}
    BY <1>2 DEF spin_lock, TypeOK
  <2>4. Checked(h)'
    BY <2>1, <2>2, <2>3 DEF Checked
  <2>5. QED
    BY <2>1, <2>4, CheckedFrame
<1>3. ASSUME NEW h \in Harts, Scan(h) PROVE \A g \in Harts : Checked(g)'
  <2>1. /\ rc' = rc /\ snap' = snap
        /\ \A g \in Harts \ {h} : pc'[g] = pc[g] /\ call'[g] = call[g]
    BY <1>3 DEF Scan, TypeOK
  <2>2. Checked(h)'
    <3>1. CASE \E p \in Starts(call[h].n) :
                  /\ FirstFit(p, call[h].n)
                  /\ call' = [call EXCEPT ![h].page = p]
                  /\ pc' = [pc EXCEPT ![h] = "claim"]
      <4>1. PICK p \in Starts(call[h].n) :
                  /\ FirstFit(p, call[h].n)
                  /\ call' = [call EXCEPT ![h].page = p]
                  /\ pc' = [pc EXCEPT ![h] = "claim"]
        BY <3>1
      <4>2. pc'[h] = "claim" /\ call'[h].page = p /\ call'[h].n = call[h].n
        BY <4>1 DEF TypeOK, Calls
      <4>3. QED
        BY <2>1, <4>1, <4>2 DEF Checked, FirstFit, Fits
    <3>2. CASE /\ \A p \in Starts(call[h].n) : ~Fits(p, call[h].n)
               /\ pc' = [pc EXCEPT ![h] = "unlock"] /\ call' = call
      <4>1. pc'[h] = "unlock"
        BY <3>2 DEF TypeOK
      <4>2. QED
        BY <2>1, <3>2, <4>1 DEF Checked, Fits, Starts
    <3>3. QED
      BY <1>3, <3>1, <3>2 DEF Scan
  <2>3. QED
    BY <2>1, <2>2, CheckedFrame
<1>4. ASSUME NEW h \in Harts, Zero(h) PROVE \A g \in Harts : Checked(g)'
  <2>1. /\ rc' = rc /\ snap' = snap /\ call' = call /\ pc'[h] = "unlock"
        /\ \A g \in Harts \ {h} : pc'[g] = pc[g]
    BY <1>4 DEF Zero, TypeOK
  <2>2. call[h].page # NULL
    BY <1>4 DEF Zero, CallOK, CallShape
  <2>3. Checked(h)'
    BY <2>1, <2>2 DEF Checked
  <2>4. QED
    BY <2>1, <2>3, CheckedFrame
<1>5. ASSUME NEW h \in Harts, Load(h) PROVE \A g \in Harts : Checked(g)'
  <2>1. /\ rc' = rc /\ call' = call /\ pc'[h] = "store"
        /\ snap'[h] = rc[call[h].page + call[h].i]
        /\ \A g \in Harts \ {h} : pc'[g] = pc[g] /\ snap'[g] = snap[g]
    BY <1>5 DEF Load, TypeOK
  <2>2. Checked(h)'
    BY <2>1 DEF Checked
  <2>3. QED
    BY <2>1, <2>2, CheckedFrame
<1>6. ASSUME NEW h \in Harts, Claim(h) \/ Store(h)
      PROVE \A g \in Harts : Checked(g)'
  <2>1. ASSUME NEW g \in Harts \ {h} PROVE pc'[g] \notin {"claim", "store", "unlock"}
    BY <1>6, <2>1 DEF Claim, Store, TypeOK, MutualExclusion, InCritical
  <2>2. /\ pc'[h] \in {"zero", "load", "unlock"}
        /\ pc'[h] = "unlock" => call'[h].fn # "alloc"
    <3>1. CASE Claim(h)
      BY <3>1 DEF Claim, TypeOK
    <3>2. CASE Store(h)
      <4>1. call'[h].fn = call[h].fn
        BY <3>2 DEF Store, TypeOK, Calls
      <4>2. QED
        BY <3>2, <4>1 DEF Store, TypeOK, CallOK, CallShape
    <3>3. QED
      BY <1>6, <3>1, <3>2
  <2>3. Checked(h)'
    BY <2>2 DEF Checked
  <2>4. QED
    BY <2>1, <2>3, CheckedOutside
<1>7. ASSUME NEW h \in Harts, spin_unlock(h) PROVE \A g \in Harts : Checked(g)'
  <2>1. /\ rc' = rc /\ snap' = snap /\ pc'[h] = "idle"
        /\ \A g \in Harts \ {h} : pc'[g] = pc[g] /\ call'[g] = call[g]
    BY <1>7 DEF spin_unlock, TypeOK
  <2>2. QED
    BY <2>1, CheckedFrame, CheckedOutside
<1>8. ASSUME NEW p \in Pages, Write(p) PROVE \A g \in Harts : Checked(g)'
  BY <1>8, CheckedFrame DEF Write
<1>9. CASE UNCHANGED vars
  BY <1>9, CheckedFrame DEF vars
<1>10. QED
  BY <1>1, <1>2, <1>3, <1>4, <1>5, <1>6, <1>7, <1>8, <1>9 DEF Next, Step

-----------------------------------------------------------------------------
LockInv == TypeOK /\ CallOK /\ MutualExclusion /\ CheckedStillTrue

\* The lock protects the counters for any number of harts: they keep their
\* type, one hart at a time is inside alloc_pages, incr_page_ref_count or
\* dealloc_pages, and what it has checked holds when it acts on it.
THEOREM LockingCorrect ==
    Spec => [](TypeOK /\ CallOK /\ MutualExclusion /\ CheckedStillTrue)
<1>1. Init => LockInv
  BY TypeInit, CallInit, MutexInit, CheckedInit DEF LockInv
<1>2. LockInv /\ [Next]_vars => LockInv'
  BY TypeNext, CallNext, MutexNext, CheckedNext DEF LockInv
<1>3. QED
  BY <1>1, <1>2, PTL DEF Spec, LockInv

\* The lock by itself: mutating_heap is never held by two harts, and it is set
\* exactly while a hart is between spin_lock and spin_unlock.
THEOREM OneHartInside == Spec => []MutualExclusion
<1>1. QED
  BY LockingCorrect, PTL

-----------------------------------------------------------------------------
\* Every step of the code is a step of the abstract pool or leaves the counters
\* alone: Claim is Alloc, a turn of a loop is Share or Drop.
LEMMA PoolStep == LockInv /\ [Next]_vars => [Pool!Next]_rc
<1> SUFFICES ASSUME LockInv, [Next]_vars PROVE [Pool!Next]_rc
  OBVIOUS
<1> USE DEF LockInv
<1>1. ASSUME NEW h \in Harts, Claim(h) PROVE Pool!Next
  <2> DEFINE p == call[h].page
             n == call[h].n
  <2>1. /\ p \in Pages /\ p \in 0 .. NPages - 1 /\ n \in Nat /\ n >= 1
        /\ p + n =< NPages /\ Run(h) = p .. p + n - 1
    BY <1>1, PageAllocAssumption
    DEF Claim, TypeOK, Calls, CallOK, CallShape, Pages, Run, Span, NULL
  <2>2. \A q \in p .. p + n - 1 : rc[q] = 0
    BY <1>1 DEF Claim, CheckedStillTrue, FirstFit, Fits, Span
  <2>3. rc' = [q \in 0 .. NPages - 1 |-> IF q \in p .. p + n - 1 THEN 1 ELSE rc[q]]
    BY <1>1, <2>1 DEF Claim, Pages
  <2>4. Pool!Alloc(p, n)
    BY <2>2, <2>3 DEF Pool!Alloc
  <2>5. n \in 1 .. NPages - p
    BY <2>1, PageAllocAssumption
  <2> HIDE DEF p, n
  <2>6. QED
    BY <2>1, <2>4, <2>5 DEF Pool!Next
<1>2. ASSUME NEW h \in Harts, Store(h) PROVE Pool!Next \/ rc' = rc
  <2> DEFINE q == call[h].page + call[h].i
  <2>1. /\ q \in Pages /\ q \in 0 .. NPages - 1 /\ snap[h] = rc[q]
        /\ rc[q] \in 0 .. RcMax /\ call[h].fn \in {"incr", "dealloc"}
    BY <1>2 DEF Store, TypeOK, CallOK, CallShape, CheckedStillTrue, Pages
  <2>2. rc' = [rc EXCEPT ![q] = IF call[h].fn = "incr" THEN Incremented(rc[q])
                                                       ELSE Decremented(rc[q])]
    BY <1>2, <2>1 DEF Store
  <2> HIDE DEF q
  <2>3. CASE Incremented(rc[q]) = rc[q] /\ call[h].fn = "incr"
    BY <2>1, <2>2, <2>3 DEF TypeOK
  <2>4. CASE Incremented(rc[q]) # rc[q] /\ call[h].fn = "incr"
    <3>1. rc[q] > 0 /\ Incremented(rc[q]) = rc[q] + 1
      BY <2>1, <2>4 DEF Incremented
    <3>2. Pool!Share(q)
      BY <2>2, <2>4, <3>1 DEF Pool!Share
    <3>3. QED
      BY <2>1, <3>2 DEF Pool!Next
  <2>5. CASE Decremented(rc[q]) = rc[q] /\ call[h].fn = "dealloc"
    BY <2>1, <2>2, <2>5 DEF TypeOK
  <2>6. CASE Decremented(rc[q]) # rc[q] /\ call[h].fn = "dealloc"
    <3>1. rc[q] > 0 /\ Decremented(rc[q]) = rc[q] - 1
      BY <2>1, <2>6 DEF Decremented
    <3>2. Pool!Drop(q)
      BY <2>2, <2>6, <3>1 DEF Pool!Drop
    <3>3. QED
      BY <2>1, <3>2 DEF Pool!Next
  <2>7. QED
    BY <2>1, <2>3, <2>4, <2>5, <2>6
<1>3. ASSUME NEW h \in Harts, Begin(h) PROVE rc' = rc
  BY <1>3 DEF Begin, alloc_pages, incr_page_ref_count, dealloc_pages, OnNull, Enter
<1>4. ASSUME NEW h \in Harts,
             spin_lock(h) \/ Scan(h) \/ Zero(h) \/ Load(h) \/ spin_unlock(h)
      PROVE  rc' = rc
  BY <1>4 DEF spin_lock, Scan, Zero, Load, spin_unlock
<1>5. ASSUME NEW p \in Pages, Write(p) PROVE rc' = rc
  BY <1>5 DEF Write
<1>6. CASE UNCHANGED vars
  BY <1>6 DEF vars
<1>7. QED
  BY <1>1, <1>2, <1>3, <1>4, <1>5, <1>6 DEF Next, Step

\* The allocator with its lock, its search and its loops implements the
\* abstract pool of reference-counted pages.
THEOREM ImplementsPool == Spec => PoolSpec
<1>1. Init => Pool!Init
  BY DEF Init, Pool!Init, Pages
<1>2. LockInv /\ [Next]_vars => [Pool!Next]_rc
  BY PoolStep
<1>3. QED
  BY <1>1, <1>2, LockingCorrect, PTL DEF Spec, PoolSpec, Pool!Spec, LockInv

-----------------------------------------------------------------------------
(* RcExact.  The references of one page are counted over sets of harts, of  *)
(* which a step changes the membership of one hart only.                    *)

Exact(q) == rc[q] = held[q] + Cardinality(Pinned(q)) + Cardinality(Shared(q))
Bounded(q) == Promised(q) =< MaxRefs

\* The inductive invariant: the counts are exact, calls in progress will not
\* take a page beyond MaxRefs, and nobody gives a reserved page away.
CountInv ==
    /\ \A q \in Pages : Exact(q) /\ Bounded(q)
    /\ \A q \in Reserved : held[q] > 0

Ind(h, S) == IF h \in S THEN 1 ELSE 0

\* Cardinality of a set of harts with one hart added or removed.
LEMMA CardInd ==
    ASSUME NEW h \in Harts, NEW S \in SUBSET Harts
    PROVE  /\ IsFiniteSet(S) /\ Cardinality(S) \in Nat
           /\ Cardinality(S \ {h}) \in Nat
           /\ Cardinality(S) = Cardinality(S \ {h}) + Ind(h, S)
<1>1. IsFiniteSet(S)
  BY PageAllocAssumption, FS_Subset
<1>2. IsFiniteSet(S \ {h})
  BY <1>1, FS_Subset
<1>3. Cardinality(S) \in Nat /\ Cardinality(S \ {h}) \in Nat
  BY <1>1, <1>2, FS_CardinalityType
<1>4. CASE h \in S
  <2>1. Cardinality(S \ {h}) = Cardinality(S) - 1
    BY <1>1, <1>4, FS_RemoveElement
  <2>2. QED
    BY <1>1, <1>3, <1>4, <2>1 DEF Ind
<1>5. CASE h \notin S
  <2>1. S \ {h} = S
    BY <1>5
  <2>2. QED
    BY <1>1, <1>3, <1>5, <2>1 DEF Ind
<1>6. QED
  BY <1>4, <1>5

\* The sets of harts CountInv counts, as finite sets.
LEMMA CountSets ==
    ASSUME NEW q
    PROVE  /\ Pinned(q) \in SUBSET Harts /\ Shared(q) \in SUBSET Harts
           /\ ToShare(q) \in SUBSET Harts /\ ToShare(q) \subseteq Pinned(q)
           /\ Pinned(q)' \in SUBSET Harts /\ Shared(q)' \in SUBSET Harts
           /\ ToShare(q)' \in SUBSET Harts
  BY DEF Pinned, Shared, ToShare

\* How the three counts of a page change in a step of hart h.
LEMMA CountChange ==
    ASSUME NEW q, NEW h \in Harts,
           \A g \in Harts \ {h} : pc'[g] = pc[g] /\ call'[g] = call[g]
    PROVE  /\ Cardinality(Pinned(q)) \in Nat /\ Cardinality(Pinned(q)') \in Nat
           /\ Cardinality(Shared(q)) \in Nat /\ Cardinality(Shared(q)') \in Nat
           /\ Cardinality(ToShare(q)) \in Nat /\ Cardinality(ToShare(q)') \in Nat
           /\ Cardinality(Pinned(q)) >= Ind(h, Pinned(q))
           /\ Cardinality(ToShare(q)) >= Ind(h, ToShare(q))
           /\ Cardinality(Pinned(q)') =
                 Cardinality(Pinned(q)) - Ind(h, Pinned(q)) + Ind(h, Pinned(q)')
           /\ Cardinality(Shared(q)') =
                 Cardinality(Shared(q)) - Ind(h, Shared(q)) + Ind(h, Shared(q)')
           /\ Cardinality(ToShare(q)') =
                 Cardinality(ToShare(q)) - Ind(h, ToShare(q)) + Ind(h, ToShare(q)')
<1>1. /\ Pinned(q)' \ {h} = Pinned(q) \ {h}
      /\ Shared(q)' \ {h} = Shared(q) \ {h}
      /\ ToShare(q)' \ {h} = ToShare(q) \ {h}
  BY DEF Pinned, Shared, ToShare, Run
<1>2. \A S : Ind(h, S) \in 0 .. 1
  BY DEF Ind
<1>3. /\ Cardinality(Pinned(q)) = Cardinality(Pinned(q) \ {h}) + Ind(h, Pinned(q))
      /\ Cardinality(Pinned(q)') = Cardinality(Pinned(q) \ {h}) + Ind(h, Pinned(q)')
      /\ Cardinality(Pinned(q) \ {h}) \in Nat
  BY <1>1, CountSets, CardInd
<1>4. /\ Cardinality(Shared(q)) = Cardinality(Shared(q) \ {h}) + Ind(h, Shared(q))
      /\ Cardinality(Shared(q)') = Cardinality(Shared(q) \ {h}) + Ind(h, Shared(q)')
      /\ Cardinality(Shared(q) \ {h}) \in Nat
  BY <1>1, CountSets, CardInd
<1>5. /\ Cardinality(ToShare(q)) = Cardinality(ToShare(q) \ {h}) + Ind(h, ToShare(q))
      /\ Cardinality(ToShare(q)') = Cardinality(ToShare(q) \ {h}) + Ind(h, ToShare(q)')
      /\ Cardinality(ToShare(q) \ {h}) \in Nat
  BY <1>1, CountSets, CardInd
<1>6. /\ Cardinality(Pinned(q)) \in Nat /\ Cardinality(Pinned(q)') \in Nat
      /\ Cardinality(Shared(q)) \in Nat /\ Cardinality(Shared(q)') \in Nat
      /\ Cardinality(ToShare(q)) \in Nat /\ Cardinality(ToShare(q)') \in Nat
  BY CountSets, CardInd
<1>7. QED
  BY <1>2, <1>3, <1>4, <1>5, <1>6

\* The step of hart h keeps the count of page q exact if the counter moves as
\* much as the references do.
LEMMA CountStep ==
    ASSUME NEW q \in Pages, NEW h \in Harts, TypeOK, TypeOK', Exact(q),
           \A g \in Harts \ {h} : pc'[g] = pc[g] /\ call'[g] = call[g],
           rc'[q] - rc[q] = held'[q] - held[q]
              + Ind(h, Pinned(q)') - Ind(h, Pinned(q))
              + Ind(h, Shared(q)') - Ind(h, Shared(q))
    PROVE  Exact(q)'
<1>1. rc[q] \in Nat /\ rc'[q] \in Nat /\ held[q] \in Nat /\ held'[q] \in Nat
  BY DEF TypeOK
<1>2. \A S : Ind(h, S) \in 0 .. 1
  BY DEF Ind
<1>3. rc'[q] = held'[q] + Cardinality(Pinned(q)') + Cardinality(Shared(q)')
  BY <1>1, <1>2, CountChange DEF Exact
<1>4. QED
  BY <1>3 DEF Exact

\* The same for the bound.
LEMMA BoundStep ==
    ASSUME NEW q \in Pages, NEW h \in Harts, TypeOK, TypeOK', Bounded(q),
           \A g \in Harts \ {h} : pc'[g] = pc[g] /\ call'[g] = call[g],
           held'[q] - held[q]
              + Ind(h, Pinned(q)') - Ind(h, Pinned(q))
              + Ind(h, Shared(q)') - Ind(h, Shared(q))
              + Ind(h, ToShare(q)') - Ind(h, ToShare(q)) =< 0
    PROVE  Bounded(q)'
<1>1. held[q] \in Nat /\ held'[q] \in Nat
  BY DEF TypeOK
<1>2. \A S : Ind(h, S) \in 0 .. 1
  BY DEF Ind
<1>3. held'[q] + Cardinality(Pinned(q)') + Cardinality(Shared(q)')
               + Cardinality(ToShare(q)') =< MaxRefs
  BY <1>1, <1>2, CountChange, PageAllocAssumption DEF Bounded, Promised
<1>4. QED
  BY <1>3 DEF Bounded, Promised

\* The counters account for the references at start.
LEMMA CountInit == Init => CountInv
<1> SUFFICES ASSUME Init PROVE CountInv
  OBVIOUS
<1>1. ASSUME NEW q \in Pages
      PROVE  Pinned(q) = {} /\ Shared(q) = {} /\ ToShare(q) = {}
  BY DEF Init, Pinned, Shared, ToShare, Run, NoCall
<1>2. Cardinality({}) = 0
  BY FS_EmptySet
<1>3. ASSUME NEW q \in Pages PROVE held[q] \in 0 .. 1 /\ rc[q] = held[q]
  BY DEF Init
<1>4. \A q \in Reserved : held[q] > 0
  BY PageAllocAssumption DEF Init, Reserved, Pages
<1>5. ASSUME NEW q \in Pages
      PROVE  /\ Cardinality(Pinned(q)) = 0 /\ Cardinality(Shared(q)) = 0
             /\ Cardinality(ToShare(q)) = 0
  BY <1>1, <1>2
<1>6. ASSUME NEW q \in Pages PROVE Exact(q) /\ Bounded(q)
  BY <1>3, <1>5, PageAllocAssumption DEF Exact, Bounded, Promised
<1>7. QED
  BY <1>4, <1>6 DEF CountInv

\* Entering incr_page_ref_count or dealloc_pages moves the caller's reference
\* into the call.
LEMMA CountEnter ==
    ASSUME LockInv, CountInv, TypeOK', NEW h \in Harts,
           NEW fn \in {"incr", "dealloc"}, NEW p \in Pages,
           NEW n \in 1 .. MaxCount, Owned(p, n), Enter(h, fn, p, n),
           held' = Taken(Span(p, n)),
           fn = "incr" => \A q \in Span(p, n) : Promised(q) < MaxRefs
    PROVE  CountInv'
<1> USE DEF LockInv
<1>1. /\ pc[h] = "idle" /\ call[h] = NoCall /\ call'[h].fn = fn
      /\ call'[h].page = p /\ call'[h].n = n /\ call'[h].i = 0 /\ rc' = rc
  BY DEF Enter, TypeOK, CallOK, CallShape
<1>2. \A g \in Harts \ {h} : pc'[g] = pc[g] /\ call'[g] = call[g]
  BY DEF Enter, TypeOK
<1>3. Run(h) = {} /\ Run(h)' = Span(p, n)
  BY <1>1 DEF Run, NoCall, Pages, NULL
<1>4. ASSUME NEW q \in Pages PROVE Exact(q)' /\ Bounded(q)'
  <2>1. Ind(h, Pinned(q)) = 0 /\ Ind(h, Shared(q)) = 0 /\ Ind(h, ToShare(q)) = 0
    BY <1>3 DEF Ind, Pinned, Shared, ToShare
  <2>2. Exact(q) /\ Bounded(q) /\ held[q] \in Nat /\ rc[q] \in Nat
    BY DEF CountInv, TypeOK
  <2>3. CASE q \in Span(p, n)
    <3>1. held'[q] = held[q] - 1
      BY <2>3 DEF Taken
    <3>2. q >= p + 0
      BY <2>3 DEF Span, Pages
    <3>3. /\ Ind(h, Pinned(q)') = 1 /\ Ind(h, Shared(q)') = 0
          /\ Ind(h, ToShare(q)') = IF fn = "incr" THEN 1 ELSE 0
      BY <1>1, <1>3, <2>3, <3>2 DEF Ind, Pinned, Shared, ToShare, Pages, Span
    <3>4. Exact(q)'
      BY <1>1, <1>2, <2>1, <2>2, <3>1, <3>3, CountStep
    <3>5. CASE fn = "dealloc"
      BY <1>2, <2>1, <2>2, <3>1, <3>3, <3>4, <3>5, BoundStep
    <3>6. CASE fn = "incr"
      <4>1. held[q] + Cardinality(Pinned(q)) + Cardinality(Shared(q))
               + Cardinality(ToShare(q)) < MaxRefs
        BY <2>3, <3>6 DEF Promised
      <4>2. held'[q] + Cardinality(Pinned(q)') + Cardinality(Shared(q)')
               + Cardinality(ToShare(q)') =< MaxRefs
        BY <1>2, <2>1, <2>2, <3>1, <3>3, <3>6, <4>1, CountChange,
           PageAllocAssumption
      <4>3. QED
        BY <3>4, <4>2 DEF Bounded, Promised
    <3>7. QED
      BY <3>5, <3>6
  <2>4. CASE q \notin Span(p, n)
    <3>1. held'[q] = held[q]
      BY <2>4 DEF Taken
    <3>2. Ind(h, Pinned(q)') = 0 /\ Ind(h, Shared(q)') = 0 /\ Ind(h, ToShare(q)') = 0
      BY <1>3, <2>4 DEF Ind, Pinned, Shared, ToShare
    <3>3. QED
      BY <1>1, <1>2, <2>1, <2>2, <3>1, <3>2, CountStep, BoundStep
  <2>5. QED
    BY <2>3, <2>4
<1>5. \A q \in Reserved : held'[q] > 0
  BY PageAllocAssumption DEF CountInv, Taken, Owned, Reserved, Pages
<1>6. QED
  BY <1>4, <1>5 DEF CountInv

\* A step that changes no counter, no reference and no membership.
LEMMA CountFrame ==
    ASSUME LockInv, CountInv, TypeOK', NEW h \in Harts, rc' = rc, held' = held,
           \A g \in Harts \ {h} : pc'[g] = pc[g] /\ call'[g] = call[g],
           \A q \in Pages : /\ h \in Pinned(q)' <=> h \in Pinned(q)
                            /\ h \in Shared(q)' <=> h \in Shared(q)
                            /\ h \in ToShare(q)' <=> h \in ToShare(q)
    PROVE  CountInv'
<1>1. ASSUME NEW q \in Pages PROVE Exact(q)' /\ Bounded(q)'
  <2>1. /\ Ind(h, Pinned(q)') = Ind(h, Pinned(q)) /\ Ind(h, Pinned(q)) \in 0 .. 1
        /\ Ind(h, Shared(q)') = Ind(h, Shared(q)) /\ Ind(h, Shared(q)) \in 0 .. 1
        /\ Ind(h, ToShare(q)') = Ind(h, ToShare(q)) /\ Ind(h, ToShare(q)) \in 0 .. 1
    BY DEF Ind
  <2>2. Exact(q) /\ Bounded(q) /\ held[q] \in Nat /\ rc[q] \in Nat
    BY DEF CountInv, LockInv, TypeOK
  <2>3. QED
    BY <2>1, <2>2, CountStep, BoundStep DEF LockInv
<1>2. QED
  BY <1>1 DEF CountInv

\* alloc_pages claims pages to which there is no reference.
LEMMA CountClaim ==
    ASSUME LockInv, CountInv, TypeOK', NEW h \in Harts, Claim(h)
    PROVE  CountInv'
<1> USE DEF LockInv
<1>1. \A g \in Harts \ {h} : pc'[g] = pc[g] /\ call'[g] = call[g]
  BY DEF Claim, TypeOK
<1>2. /\ pc[h] = "claim" /\ pc'[h] = "zero" /\ call' = call /\ held' = held
      /\ call[h].fn = "alloc" /\ call[h].page # NULL
  BY DEF Claim, TypeOK, CallOK, CallShape
<1>3. Run(h)' = Run(h) /\ \A q \in Run(h) : rc[q] = 0
  BY <1>2 DEF Run, CheckedStillTrue, FirstFit, Fits
<1>4. ASSUME NEW q \in Pages PROVE Exact(q)' /\ Bounded(q)'
  <2>1. /\ Ind(h, Pinned(q)) = 0 /\ Ind(h, Shared(q)) = 0 /\ Ind(h, ToShare(q)) = 0
        /\ Ind(h, Shared(q)') = 0 /\ Ind(h, ToShare(q)') = 0
    BY <1>2 DEF Ind, Pinned, Shared, ToShare
  <2>2. Exact(q) /\ Bounded(q) /\ held[q] \in Nat /\ rc[q] \in Nat
    BY DEF CountInv, TypeOK
  <2>3. CASE q \in Run(h)
    <3>1. rc[q] = 0 /\ rc'[q] = 1
      BY <1>3, <2>3 DEF Claim
    <3>2. Ind(h, Pinned(q)') = 1
      BY <1>2, <1>3, <2>3 DEF Ind, Pinned
    <3>3. Exact(q)'
      BY <1>1, <1>2, <2>1, <2>2, <3>1, <3>2, CountStep
    <3>4. held[q] = 0 /\ Cardinality(Pinned(q)) = 0 /\ Cardinality(Shared(q)) = 0
      <4>1. Cardinality(Pinned(q)) \in Nat /\ Cardinality(Shared(q)) \in Nat
        BY CountSets, CardInd
      <4>2. QED
        BY <2>2, <3>1, <4>1 DEF Exact
    <3>5. Pinned(q) = {}
      <4>1. IsFiniteSet(Pinned(q))
        BY CountSets, CardInd
      <4>2. QED
        BY <3>4, <4>1, FS_EmptySet
    <3>6. Cardinality(ToShare(q)) = 0
      BY <3>5, CountSets, FS_EmptySet
    <3>7. held'[q] + Cardinality(Pinned(q)') + Cardinality(Shared(q)')
               + Cardinality(ToShare(q)') =< MaxRefs
      BY <1>1, <1>2, <2>1, <2>2, <3>2, <3>4, <3>6, CountChange, PageAllocAssumption
    <3>8. QED
      BY <3>3, <3>7 DEF Bounded, Promised
  <2>4. CASE q \notin Run(h)
    <3>1. rc'[q] = rc[q]
      BY <2>4 DEF Claim
    <3>2. Ind(h, Pinned(q)') = 0
      BY <1>3, <2>4 DEF Ind, Pinned
    <3>3. QED
      BY <1>1, <1>2, <2>1, <2>2, <3>1, <3>2, CountStep, BoundStep
  <2>5. QED
    BY <2>3, <2>4
<1>5. QED
  BY <1>2, <1>4 DEF CountInv

\* A turn of a loop counts the page at the loop index up or down, which stays
\* clear of both ends of the counter.
LEMMA CountStore ==
    ASSUME LockInv, CountInv, TypeOK', NEW h \in Harts, Store(h), MaxRefs =< RcMax
    PROVE  CountInv'
<1> USE DEF LockInv
<1> DEFINE p == call[h].page + call[h].i
<1>1. \A g \in Harts \ {h} : pc'[g] = pc[g] /\ call'[g] = call[g]
  BY DEF Store, TypeOK
<1>2. /\ call'[h].page = call[h].page /\ call'[h].fn = call[h].fn
      /\ call'[h].n = call[h].n /\ call'[h].i = call[h].i + 1
      /\ held' = held
  BY DEF Store, TypeOK, Calls
<1>3. /\ p \in Pages /\ snap[h] = rc[p] /\ call[h].fn \in {"incr", "dealloc"}
      /\ call[h].page # NULL /\ call[h].page \in Int /\ call[h].i \in Nat
      /\ call[h].n \in Nat /\ call[h].i < call[h].n
  BY DEF Store, TypeOK, Calls, CallOK, CallShape, CheckedStillTrue, Pages, NULL
<1>4. Run(h)' = Run(h) /\ p \in Run(h)
  BY <1>2, <1>3 DEF Run, Span
<1>5. rc'[p] = IF call[h].fn = "incr" THEN Incremented(rc[p]) ELSE Decremented(rc[p])
  BY <1>3 DEF Store, TypeOK
<1>6. \A q \in Pages : q # p => rc'[q] = rc[q]
  BY <1>3 DEF Store, TypeOK
<1>7. ASSUME NEW q \in Pages PROVE Exact(q)' /\ Bounded(q)'
  <2>1. Exact(q) /\ Bounded(q) /\ held[q] \in Nat /\ rc[q] \in Nat
    BY DEF CountInv, TypeOK
  <2>2. CASE q # p
    <3>1. (q >= call[h].page + (call[h].i + 1)) <=> (q >= call[h].page + call[h].i)
      BY <1>3, <2>2 DEF Pages
    <3>2. (q < call[h].page + (call[h].i + 1)) <=> (q < call[h].page + call[h].i)
      BY <1>3, <2>2 DEF Pages
    <3>3. /\ Ind(h, Pinned(q)') = Ind(h, Pinned(q)) /\ Ind(h, Pinned(q)) \in 0 .. 1
          /\ Ind(h, Shared(q)') = Ind(h, Shared(q)) /\ Ind(h, Shared(q)) \in 0 .. 1
          /\ Ind(h, ToShare(q)') = Ind(h, ToShare(q))
          /\ Ind(h, ToShare(q)) \in 0 .. 1
      BY <1>2, <1>3, <1>4, <3>1, <3>2 DEF Ind, Pinned, Shared, ToShare
    <3>4. QED
      BY <1>1, <1>2, <1>6, <2>1, <2>2, <3>3, CountStep, BoundStep
  <2>3. CASE q = p
    <3>1. /\ q >= call[h].page + call[h].i /\ ~(q < call[h].page + call[h].i)
          /\ ~(q >= call[h].page + (call[h].i + 1))
          /\ q < call[h].page + (call[h].i + 1)
      BY <1>3, <2>3
    <3>2. CASE call[h].fn = "incr"
      <4>1. /\ Ind(h, Pinned(q)) = 1 /\ Ind(h, Shared(q)) = 0 /\ Ind(h, ToShare(q)) = 1
            /\ Ind(h, Pinned(q)') = 1 /\ Ind(h, Shared(q)') = 1
            /\ Ind(h, ToShare(q)') = 0
        BY <1>2, <1>4, <2>3, <3>1, <3>2 DEF Ind, Pinned, Shared, ToShare
      <4>2. rc[q] >= 1 /\ rc[q] + 1 =< MaxRefs
        BY <1>1, <2>1, <4>1, CountChange, PageAllocAssumption
        DEF Exact, Bounded, Promised
      <4>3. rc'[q] = rc[q] + 1
        BY <1>5, <2>1, <2>3, <3>2, <4>2, PageAllocAssumption DEF Incremented
      <4>4. QED
        BY <1>1, <1>2, <2>1, <4>1, <4>3, CountStep, BoundStep
    <3>3. CASE call[h].fn = "dealloc"
      <4>1. /\ Ind(h, Pinned(q)) = 1 /\ Ind(h, Shared(q)) = 0 /\ Ind(h, ToShare(q)) = 0
            /\ Ind(h, Pinned(q)') = 0 /\ Ind(h, Shared(q)') = 0
            /\ Ind(h, ToShare(q)') = 0
        BY <1>2, <1>4, <2>3, <3>1, <3>3 DEF Ind, Pinned, Shared, ToShare
      <4>2. rc[q] >= 1
        BY <1>1, <2>1, <4>1, CountChange DEF Exact
      <4>3. rc'[q] = rc[q] - 1
        BY <1>5, <2>1, <2>3, <3>3, <4>2 DEF Decremented
      <4>4. QED
        BY <1>1, <1>2, <2>1, <4>1, <4>3, CountStep, BoundStep
    <3>4. QED
      BY <1>3, <3>2, <3>3
  <2>4. QED
    BY <2>2, <2>3
<1>8. QED
  BY <1>2, <1>7 DEF CountInv

\* Returning gives the caller the references the call accounted for.
LEMMA CountUnlock ==
    ASSUME LockInv, CountInv, TypeOK', NEW h \in Harts, spin_unlock(h)
    PROVE  CountInv'
<1> USE DEF LockInv
<1>1. \A g \in Harts \ {h} : pc'[g] = pc[g] /\ call'[g] = call[g]
  BY DEF spin_unlock, TypeOK
<1>2. /\ pc[h] = "unlock" /\ call'[h] = NoCall /\ rc' = rc
      /\ call[h].fn \in {"alloc", "incr", "dealloc"}
      /\ call[h].page \in Int /\ call[h].n \in Nat /\ call[h].i \in Nat
  BY DEF spin_unlock, TypeOK, Calls, CallOK, CallShape, Pages, NULL
<1>3. Run(h)' = {}
  BY <1>2 DEF Run, NoCall
<1>4. ASSUME NEW q \in Pages PROVE Exact(q)' /\ Bounded(q)'
  <2>1. Exact(q) /\ Bounded(q) /\ held[q] \in Nat /\ rc[q] \in Nat
    BY DEF CountInv, TypeOK
  <2>2. Ind(h, Pinned(q)') = 0 /\ Ind(h, Shared(q)') = 0 /\ Ind(h, ToShare(q)') = 0
    BY <1>3 DEF Ind, Pinned, Shared, ToShare
  <2>3. CASE q \notin Run(h)
    <3>1. held'[q] = held[q]
      BY <2>3 DEF spin_unlock
    <3>2. Ind(h, Pinned(q)) = 0 /\ Ind(h, Shared(q)) = 0 /\ Ind(h, ToShare(q)) = 0
      BY <2>3 DEF Ind, Pinned, Shared, ToShare
    <3>3. QED
      BY <1>1, <1>2, <2>1, <2>2, <3>1, <3>2, CountStep, BoundStep
  <2>4. CASE q \in Run(h)
    <3>1. held'[q] = held[q] + Returned(call[h].fn)
      BY <2>4 DEF spin_unlock
    <3>2. call[h].page # NULL /\ q < call[h].page + call[h].n
      BY <1>2, <2>4 DEF Run, Span
    <3>3. CASE call[h].fn = "alloc"
      <4>1. /\ Ind(h, Pinned(q)) = 1 /\ Ind(h, Shared(q)) = 0
            /\ Ind(h, ToShare(q)) = 0 /\ Returned(call[h].fn) = 1
        BY <1>2, <2>4, <3>3 DEF Ind, Pinned, Shared, ToShare, Returned
      <4>2. QED
        BY <1>1, <1>2, <2>1, <2>2, <3>1, <4>1, CountStep, BoundStep
    <3>4. CASE call[h].fn # "alloc"
      <4>1. q < call[h].page + call[h].i /\ ~(q >= call[h].page + call[h].i)
        BY <1>2, <3>2, <3>4 DEF CallOK, CallShape, Pages
      <4>2. CASE call[h].fn = "incr"
        <5>1. /\ Ind(h, Pinned(q)) = 1 /\ Ind(h, Shared(q)) = 1
              /\ Ind(h, ToShare(q)) = 0 /\ Returned(call[h].fn) = 2
          BY <2>4, <4>1, <4>2 DEF Ind, Pinned, Shared, ToShare, Returned
        <5>2. QED
          BY <1>1, <1>2, <2>1, <2>2, <3>1, <5>1, CountStep, BoundStep
      <4>3. CASE call[h].fn = "dealloc"
        <5>1. /\ Ind(h, Pinned(q)) = 0 /\ Ind(h, Shared(q)) = 0
              /\ Ind(h, ToShare(q)) = 0 /\ Returned(call[h].fn) = 0
          BY <2>4, <4>1, <4>3 DEF Ind, Pinned, Shared, ToShare, Returned
        <5>2. QED
          BY <1>1, <1>2, <2>1, <2>2, <3>1, <5>1, CountStep, BoundStep
      <4>4. QED
        BY <1>2, <3>4, <4>2, <4>3
    <3>5. QED
      BY <3>3, <3>4
  <2>5. QED
    BY <2>3, <2>4
<1>5. \A q \in Reserved : held'[q] > 0
  <2>1. Reserved \subseteq Pages /\ Returned(call[h].fn) \in Nat
    BY PageAllocAssumption DEF Reserved, Pages, Returned
  <2>2. QED
    BY <2>1 DEF spin_unlock, CountInv, TypeOK
<1>6. QED
  BY <1>4, <1>5 DEF CountInv

\* Every step keeps counters and references in balance, provided no page is given
\* more references than its 16-bit counter can hold.
LEMMA CountNext ==
    ASSUME MaxRefs =< RcMax
    PROVE  LockInv /\ CountInv /\ [Next]_vars => CountInv'
<1> SUFFICES ASSUME LockInv, CountInv, [Next]_vars PROVE CountInv'
  OBVIOUS
<1> USE DEF LockInv
<1>0. TypeOK'
  BY TypeNext
<1>1. ASSUME NEW h \in Harts, NEW n \in 1 .. MaxCount, alloc_pages(h, n)
      PROVE  CountInv'
  <2>1. /\ rc' = rc /\ held' = held
        /\ \A g \in Harts \ {h} : pc'[g] = pc[g] /\ call'[g] = call[g]
    BY <1>1 DEF alloc_pages, Enter, TypeOK
  <2>2. call[h].page = NULL /\ call'[h].page = NULL
    BY <1>1 DEF alloc_pages, Enter, TypeOK, CallOK, CallShape, NoCall
  <2>3. Run(h) = {} /\ Run(h)' = {}
    BY <2>2 DEF Run
  <2>4. QED
    BY <1>0, <2>1, <2>3, CountFrame DEF Pinned, Shared, ToShare
<1>2. ASSUME NEW h \in Harts, NEW p \in Pages, NEW n \in 1 .. MaxCount,
             incr_page_ref_count(h, p, n)
      PROVE  CountInv'
  BY <1>0, <1>2, CountEnter DEF incr_page_ref_count
<1>3. ASSUME NEW h \in Harts, NEW p \in Pages, NEW n \in 1 .. MaxCount,
             dealloc_pages(h, p, n)
      PROVE  CountInv'
  BY <1>0, <1>3, CountEnter DEF dealloc_pages
<1>4. ASSUME NEW h \in Harts, NEW fn \in {"incr", "dealloc"}, OnNull(h, fn)
      PROVE  CountInv'
  <2>1. /\ rc' = rc /\ held' = held
        /\ \A g \in Harts \ {h} : pc'[g] = pc[g] /\ call'[g] = call[g]
    BY <1>4 DEF OnNull, Enter, TypeOK
  <2>2. call[h].page = NULL /\ call'[h].page = NULL
    BY <1>4 DEF OnNull, Enter, TypeOK, CallOK, CallShape, NoCall
  <2>3. Run(h) = {} /\ Run(h)' = {}
    BY <2>2 DEF Run
  <2>4. QED
    BY <1>0, <2>1, <2>3, CountFrame DEF Pinned, Shared, ToShare
<1>5. ASSUME NEW h \in Harts, spin_lock(h) PROVE CountInv'
  <2>1. /\ rc' = rc /\ held' = held /\ call' = call
        /\ \A g \in Harts \ {h} : pc'[g] = pc[g] /\ call'[g] = call[g]
    BY <1>5 DEF spin_lock, TypeOK
  <2>2. /\ call[h].fn = "alloc" => pc[h] = "lock" /\ pc'[h] = "scan"
        /\ Run(h)' = Run(h)
    BY <1>5, <2>1 DEF spin_lock, TypeOK, Run
  <2>3. QED
    BY <1>0, <2>1, <2>2, CountFrame DEF Pinned, Shared, ToShare
<1>6. ASSUME NEW h \in Harts, Scan(h) PROVE CountInv'
  <2>1. /\ rc' = rc /\ held' = held
        /\ \A g \in Harts \ {h} : pc'[g] = pc[g] /\ call'[g] = call[g]
    BY <1>6 DEF Scan, TypeOK
  <2>2. pc[h] = "scan" /\ call[h].fn = "alloc" /\ Run(h) = {}
    BY <1>6 DEF Scan, CallOK, CallShape, Run
  <2>3. call'[h].fn = "alloc" /\ (pc'[h] = "claim" \/ Run(h)' = {})
    BY <1>6, <2>2 DEF Scan, TypeOK, Calls, Run
  <2>4. \A q \in Pages : /\ h \notin Pinned(q) /\ h \notin Pinned(q)'
                         /\ h \notin Shared(q) /\ h \notin Shared(q)'
                         /\ h \notin ToShare(q) /\ h \notin ToShare(q)'
    BY <2>2, <2>3 DEF Pinned, Shared, ToShare
  <2>5. QED
    BY <1>0, <2>1, <2>4, CountFrame
<1>7. ASSUME NEW h \in Harts, Claim(h) PROVE CountInv'
  BY <1>0, <1>7, CountClaim
<1>8. ASSUME NEW h \in Harts, Zero(h) \/ Load(h) PROVE CountInv'
  <2>1. /\ rc' = rc /\ held' = held /\ call' = call
        /\ \A g \in Harts \ {h} : pc'[g] = pc[g] /\ call'[g] = call[g]
    BY <1>8 DEF Zero, Load, TypeOK
  <2>2. /\ Run(h)' = Run(h)
        /\ \/ pc[h] = "zero" /\ pc'[h] = "unlock"
           \/ call[h].fn # "alloc"
    BY <1>8, <2>1 DEF Zero, Load, TypeOK, Run, CallOK, CallShape
  <2>3. QED
    BY <1>0, <2>1, <2>2, CountFrame DEF Pinned, Shared, ToShare
<1>9. ASSUME NEW h \in Harts, Store(h) PROVE CountInv'
  BY <1>0, <1>9, CountStore
<1>10. ASSUME NEW h \in Harts, spin_unlock(h) PROVE CountInv'
  BY <1>0, <1>10, CountUnlock
<1>11. CASE (\E p \in Pages : Write(p)) \/ UNCHANGED vars
  <2>1. rc' = rc /\ held' = held /\ pc' = pc /\ call' = call
    BY <1>11 DEF Write, vars
  <2>2. \A q : Pinned(q)' = Pinned(q) /\ Shared(q)' = Shared(q) /\ ToShare(q)' = ToShare(q)
    BY <2>1 DEF Pinned, Shared, ToShare, Run
  <2>3. \A q \in Pages : Exact(q)' /\ Bounded(q)'
    BY <2>1, <2>2 DEF CountInv, Exact, Bounded, Promised
  <2>4. QED
    BY <2>1, <2>3 DEF CountInv
<1>12. QED
  BY <1>1, <1>2, <1>3, <1>4, <1>5, <1>6, <1>7, <1>8, <1>9, <1>10, <1>11
  DEF Next, Begin, Step

\* As long as no page has more than UINT16_MAX owners, the counter of every
\* page is the number of references to it, whatever the harts do.
THEOREM CountsAreExact ==
    ASSUME MaxRefs =< RcMax
    PROVE  Spec => []RcExact
<1>1. Init => CountInv
  BY CountInit
<1>2. LockInv /\ CountInv /\ [Next]_vars => CountInv'
  BY CountNext
<1>3. CountInv => RcExact
  BY DEF CountInv, Exact, RcExact
<1>4. QED
  BY <1>1, <1>2, <1>3, LockingCorrect, PTL DEF Spec, LockInv

-----------------------------------------------------------------------------
(* What alloc_pages hands out.                                              *)

\* Hart h is in alloc_pages and has claimed its run.
Claimed(h) == call[h].fn = "alloc" /\ pc[h] \in {"zero", "unlock"}

\* A claimed page has the one reference alloc_pages made, and is zero once it
\* was cleared.
FreshInv ==
    \A h \in Harts : Claimed(h) =>
       \A q \in Run(h) : rc[q] = 1 /\ (pc[h] = "unlock" => ~dirty[q])

\* The run of a call lies in the heap.
LEMMA RunInHeap ==
    ASSUME TypeOK, CallOK, NEW h \in Harts
    PROVE  Run(h) \subseteq Pages
<1>1. call[h].page \in Pages \cup {NULL} /\ call[h].n \in Nat
  BY PageAllocAssumption DEF TypeOK, Calls
<1>2. call[h].page # NULL => call[h].page + call[h].n =< NPages
  BY DEF CallOK, CallShape
<1>3. QED
  BY <1>1, <1>2, PageAllocAssumption DEF Run, Span, Pages, NULL

\* The one reference of a claimed page is that of the call: no caller owns
\* the page, it is not reserved, and no other call is about it.
LEMMA FreshAlone ==
    ASSUME LockInv, CountInv, FreshInv, NEW h \in Harts, Claimed(h), NEW q \in Run(h)
    PROVE  /\ held[q] = 0 /\ q \notin Reserved
           /\ \A g \in Harts \ {h} : q \notin Run(g)
<1> USE DEF LockInv
<1>1. q \in Pages
  BY RunInHeap
<1>2. rc[q] = 1 /\ Exact(q) /\ held[q] \in Nat
  BY <1>1 DEF FreshInv, CountInv, TypeOK
<1>3. h \in Pinned(q)
  BY DEF Pinned, Claimed
<1>4. /\ Cardinality(Pinned(q)) = Cardinality(Pinned(q) \ {h}) + 1
      /\ Cardinality(Pinned(q) \ {h}) \in Nat /\ Cardinality(Shared(q)) \in Nat
  BY <1>3, CountSets, CardInd DEF Ind
<1>5. held[q] = 0 /\ Cardinality(Pinned(q) \ {h}) = 0
  BY <1>2, <1>4 DEF Exact
<1>6. Pinned(q) \ {h} = {}
  <2>1. IsFiniteSet(Pinned(q) \ {h})
    BY CountSets, CardInd, FS_Subset
  <2>2. QED
    BY <1>5, <2>1, FS_EmptySet
<1>7. q \notin Reserved
  BY <1>5 DEF CountInv
<1>8. ASSUME NEW g \in Harts \ {h}, q \in Run(g) PROVE FALSE
  <2>1. InCritical(h) /\ ~InCritical(g)
    BY DEF Claimed, InCritical, MutualExclusion
  <2>2. pc[g] = "lock" /\ call[g].i = 0 /\ call[g].fn \in {"incr", "dealloc"}
    BY <1>8, <2>1 DEF InCritical, CallOK, CallShape, TypeOK, Calls, PcValues, Run, NoCall
  <2>3. q >= call[g].page + call[g].i
    BY <1>1, <1>8, <2>2 DEF Run, Span, TypeOK, Calls, Pages, NULL
  <2>4. g \in Pinned(q)
    BY <1>8, <2>2, <2>3 DEF Pinned
  <2>5. QED
    BY <1>6, <2>4
<1>9. QED
  BY <1>5, <1>7, <1>8

\* No call has claimed a page at start.
LEMMA FreshInit == Init => FreshInv
  BY DEF Init, FreshInv, Claimed, NoCall

\* A step that leaves counters and bytes alone, and takes no other hart into
\* alloc_pages with a run, keeps what is known of the claimed pages.
LEMMA FreshFrame ==
    ASSUME FreshInv, TypeOK, rc' = rc, dirty' = dirty, NEW h \in Harts,
           \A g \in Harts \ {h} : pc'[g] = pc[g] /\ call'[g] = call[g],
           ~Claimed(h)' \/ Run(h)' = {}
    PROVE  FreshInv'
<1> SUFFICES ASSUME NEW g \in Harts, Claimed(g)', NEW q \in Run(g)'
             PROVE  rc'[q] = 1 /\ (pc'[g] = "unlock" => ~dirty'[q])
  BY DEF FreshInv
<1>1. g # h
  OBVIOUS
<1>2. Claimed(g) /\ q \in Run(g) /\ pc'[g] = pc[g]
  BY <1>1 DEF Claimed, Run
<1>3. QED
  BY <1>2 DEF FreshInv

\* Every step keeps the claimed pages fresh: only the hart in the lock changes a
\* counter, and only an owner outside a call writes to a page.
LEMMA FreshNext == LockInv /\ CountInv /\ FreshInv /\ [Next]_vars => FreshInv'
<1> SUFFICES ASSUME LockInv, CountInv, FreshInv, [Next]_vars PROVE FreshInv'
  OBVIOUS
<1> USE DEF LockInv
<1>1. ASSUME NEW h \in Harts, Begin(h) PROVE FreshInv'
  <2>1. /\ pc'[h] = "lock" /\ rc' = rc /\ dirty' = dirty
        /\ \A g \in Harts \ {h} : pc'[g] = pc[g] /\ call'[g] = call[g]
    BY <1>1 DEF Begin, alloc_pages, incr_page_ref_count, dealloc_pages, OnNull, Enter, TypeOK
  <2>2. QED
    BY <2>1, FreshFrame DEF Claimed
<1>2. ASSUME NEW h \in Harts, spin_lock(h) PROVE FreshInv'
  <2>1. /\ rc' = rc /\ dirty' = dirty
        /\ \A g \in Harts \ {h} : pc'[g] = pc[g] /\ call'[g] = call[g]
    BY <1>2 DEF spin_lock, TypeOK
  <2>2. ~Claimed(h)'
    BY <1>2 DEF spin_lock, Claimed, TypeOK
  <2>3. QED
    BY <2>1, <2>2, FreshFrame
<1>3. ASSUME NEW h \in Harts, Scan(h) PROVE FreshInv'
  <2>1. /\ rc' = rc /\ dirty' = dirty
        /\ \A g \in Harts \ {h} : pc'[g] = pc[g] /\ call'[g] = call[g]
    BY <1>3 DEF Scan, TypeOK
  <2>2. call[h].page = NULL
    BY <1>3 DEF Scan, CallOK, CallShape
  <2>3. ~Claimed(h)' \/ Run(h)' = {}
    BY <1>3, <2>2 DEF Scan, Claimed, Run, TypeOK
  <2>4. QED
    BY <2>1, <2>3, FreshFrame
<1>4. ASSUME NEW h \in Harts, Claim(h) PROVE FreshInv'
  <2>1. ASSUME NEW g \in Harts, Claimed(g)' PROVE g = h
    BY <1>4, <2>1 DEF Claim, Claimed, MutualExclusion, InCritical, TypeOK
  <2>2. pc'[h] = "zero" /\ Run(h)' = Run(h) /\ Run(h) \subseteq Pages
    BY <1>4, RunInHeap DEF Claim, Run, TypeOK
  <2>3. \A q \in Run(h) : rc'[q] = 1
    BY <1>4, <2>2 DEF Claim
  <2>4. QED
    BY <2>1, <2>2, <2>3 DEF FreshInv
<1>5. ASSUME NEW h \in Harts, Zero(h) PROVE FreshInv'
  <2>1. ASSUME NEW g \in Harts, Claimed(g)' PROVE g = h
    BY <1>5, <2>1 DEF Zero, Claimed, MutualExclusion, InCritical, TypeOK
  <2>2. rc' = rc /\ Run(h)' = Run(h) /\ Run(h) \subseteq Pages /\ Claimed(h)
    BY <1>5, RunInHeap DEF Zero, Run, CallOK, CallShape, Claimed
  <2>3. \A q \in Run(h) : ~dirty'[q]
    BY <1>5, <2>2 DEF Zero
  <2>4. QED
    BY <2>1, <2>2, <2>3 DEF FreshInv
<1>6. ASSUME NEW h \in Harts, Load(h) \/ Store(h) PROVE FreshInv'
  <2>1. ASSUME NEW g \in Harts \ {h} PROVE ~Claimed(g)'
    BY <1>6, <2>1 DEF Load, Store, Claimed, MutualExclusion, InCritical, TypeOK
  <2>2. ~Claimed(h)'
    BY <1>6 DEF Load, Store, Claimed, CallOK, CallShape, TypeOK, Calls
  <2>3. QED
    BY <2>1, <2>2 DEF FreshInv
<1>7. ASSUME NEW h \in Harts, spin_unlock(h) PROVE FreshInv'
  <2>1. /\ pc'[h] = "idle" /\ rc' = rc /\ dirty' = dirty
        /\ \A g \in Harts \ {h} : pc'[g] = pc[g] /\ call'[g] = call[g]
    BY <1>7 DEF spin_unlock, TypeOK
  <2>2. QED
    BY <2>1, FreshFrame DEF Claimed
<1>8. ASSUME NEW p \in Pages, Write(p) PROVE FreshInv'
  <2>1. rc' = rc /\ pc' = pc /\ call' = call /\ held[p] > 0
    BY <1>8 DEF Write
  <2>2. ASSUME NEW h \in Harts, Claimed(h)', NEW q \in Run(h)'
        PROVE  rc'[q] = 1 /\ (pc'[h] = "unlock" => ~dirty'[q])
    <3>1. Claimed(h) /\ q \in Run(h)
      BY <2>1, <2>2 DEF Claimed, Run
    <3>2. q # p
      BY <2>1, <3>1, FreshAlone
    <3>3. dirty'[q] = dirty[q]
      BY <1>8, <3>2 DEF Write, TypeOK
    <3>4. QED
      BY <2>1, <3>1, <3>3 DEF FreshInv
  <2>3. QED
    BY <2>2 DEF FreshInv
<1>9. CASE UNCHANGED vars
  BY <1>9 DEF vars, FreshInv, Claimed, Run
<1>10. QED
  BY <1>1, <1>2, <1>3, <1>4, <1>5, <1>6, <1>7, <1>8, <1>9 DEF Next, Step

\* FreshInv holds in every reachable state, together with what it rests on.
LEMMA FreshInvariant ==
    ASSUME MaxRefs =< RcMax
    PROVE  Spec => [](LockInv /\ CountInv /\ FreshInv)
<1>1. Init => CountInv /\ FreshInv
  BY CountInit, FreshInit
<1>2. LockInv /\ CountInv /\ FreshInv /\ [Next]_vars => CountInv' /\ FreshInv'
  BY CountNext, FreshNext
<1>3. QED
  BY <1>1, <1>2, LockingCorrect, PTL DEF Spec, LockInv

\* Whatever calls overlap, alloc_pages hands out pages to which nobody else has a
\* reference, and never one reserved at boot.
THEOREM FreshIsExclusive ==
    ASSUME MaxRefs =< RcMax
    PROVE  Spec => []FreshPagesExclusive
<1>1. LockInv /\ CountInv /\ FreshInv => FreshPagesExclusive
  <2> SUFFICES ASSUME LockInv, CountInv, FreshInv, NEW h \in Harts,
                      call[h].fn = "alloc", pc[h] \in {"zero", "unlock"}, NEW q \in Run(h)
               PROVE  /\ q \notin Reserved
                      /\ rc[q] = 1 /\ held[q] = 0
                      /\ \A g \in Harts \ {h} : q \notin Run(g)
    BY DEF FreshPagesExclusive
  <2>1. Claimed(h)
    BY DEF Claimed
  <2>2. QED
    BY <2>1, FreshAlone DEF FreshInv
<1>2. QED
  BY <1>1, FreshInvariant, PTL

\* What alloc_pages returns is zero, although the pages were in use before and
\* the owners of other pages write meanwhile.
THEOREM FreshIsZero ==
    ASSUME MaxRefs =< RcMax
    PROVE  Spec => []FreshPagesZeroed
<1>1. FreshInv => FreshPagesZeroed
  BY DEF FreshInv, FreshPagesZeroed, Claimed
<1>2. QED
  BY <1>1, FreshInvariant, PTL
=============================================================================
