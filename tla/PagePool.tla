------------------------------ MODULE PagePool ------------------------------
(***************************************************************************)
(* What the page allocator promises its callers: a pool of NPages pages,   *)
(* each with a reference count.  A contiguous run of unreferenced pages    *)
(* gets its first references in one step; afterwards every page gains and  *)
(* loses references one at a time, and only while it is referenced.        *)
(***************************************************************************)
EXTENDS Integers

CONSTANTS NPages,   \* pages managed by the pool
          Referenced \* the pages the boot code reserves before the first call

VARIABLE refs

Alloc(p, n) ==
    /\ \A q \in p .. p + n - 1 : refs[q] = 0
    /\ refs' = [q \in 0 .. NPages - 1 |->
                   IF q \in p .. p + n - 1 THEN 1 ELSE refs[q]]

Share(p) == refs[p] > 0 /\ refs' = [refs EXCEPT ![p] = refs[p] + 1]

Drop(p) == refs[p] > 0 /\ refs' = [refs EXCEPT ![p] = refs[p] - 1]

Init == refs = [p \in 0 .. NPages - 1 |-> IF p \in Referenced THEN 1 ELSE 0]

Next == \E p \in 0 .. NPages - 1 :
           \/ \E n \in 1 .. NPages - p : Alloc(p, n)
           \/ Share(p)
           \/ Drop(p)

Spec == Init /\ [][Next]_refs
=============================================================================
