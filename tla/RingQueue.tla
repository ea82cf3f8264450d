------------------------------ MODULE RingQueue ------------------------------
(***************************************************************************)
(* The queue of queue.c: a ring buffer that doubles its capacity when an   *)
(* item arrives and it is full.                                            *)
(***************************************************************************)
EXTENDS Integers, Sequences

CONSTANTS Items,     \* what can be enqueued
          None,      \* no item, and what is in a slot never written
          InitSize,  \* QUEUE_INIT_SIZE
          MaxLen     \* bound: items in the queue at a time

ASSUME RingQueueAssumption ==
    InitSize \in Nat \ {0} /\ MaxLen \in Nat /\ None \notin Items

VARIABLES len, cap, start, end,
          bytes,   \* the slots, 0 .. cap - 1
          result,  \* what the last queue_dequeue stored, None if it was false
          entered  \* the items enqueued and not yet dequeued (not in the code)

vars == <<len, cap, start, end, bytes, result, entered>>

\* create_queue
Init ==
    /\ len = 0 /\ cap = InitSize /\ start = 0 /\ end = 0
    /\ bytes = [i \in 0 .. InitSize - 1 |-> None]
    /\ result = None
    /\ entered = <<>>

\* grow_queue doubles cap; realloc keeps the old bytes where they are.
Grown == [i \in 0 .. 2 * cap - 1 |-> IF i < cap THEN bytes[i] ELSE None]

\* A mistake: end wraps one too late.
PutLateWrap(x, c, slots) ==
    /\ bytes' = [slots EXCEPT ![end] = x]
    /\ cap' = c
    /\ len' = len + 1
    /\ end' = IF end + 1 > c THEN 0 ELSE end + 1
    /\ entered' = Append(entered, x)
    /\ UNCHANGED <<start, result>>

\* The part of queue_enqueue after growing, on a ring of size c.
Put(x, c, slots) ==
    /\ bytes' = [slots EXCEPT ![end] = x]
    /\ cap' = c
    /\ len' = len + 1
    /\ end' = IF end + 1 >= c THEN 0 ELSE end + 1
    /\ entered' = Append(entered, x)
    /\ UNCHANGED <<start, result>>

queue_enqueue(x) ==
    /\ len < MaxLen
    /\ \/ len < cap /\ Put(x, cap, bytes)
       \/ len >= cap /\ Put(x, 2 * cap, Grown)

\* A mistake: start does not move.
DequeueInPlace ==
    /\ len # 0
    /\ result' = bytes[start]
    /\ len' = len - 1
    /\ entered' = Tail(entered)
    /\ UNCHANGED <<cap, start, end, bytes>>

queue_dequeue ==
    \/ /\ len = 0
       /\ result' = None
       /\ UNCHANGED <<len, cap, start, end, bytes, entered>>
    \/ /\ len # 0
       /\ result' = bytes[start]
       /\ start' = IF start + 1 >= cap THEN 0 ELSE start + 1
       /\ len' = len - 1
       /\ entered' = Tail(entered)
       /\ UNCHANGED <<cap, end, bytes>>

Next == (\E x \in Items : queue_enqueue(x)) \/ queue_dequeue

Spec == Init /\ [][Next]_vars

-----------------------------------------------------------------------------
\* Every variable keeps its type, and both indices stay inside the buffer that
\* malloc or realloc returned, also when the queue has grown.
InBounds ==
    /\ bytes \in [0 .. cap - 1 -> Items \cup {None}]
    /\ start \in 0 .. cap - 1 /\ end \in 0 .. cap - 1
    /\ len \in 0 .. cap /\ len = Len(entered)

\* Until the queue first grows it is first in, first out: the items in the ring,
\* from start on and around its end, are those enqueued and not yet dequeued, in
\* order.  grow_queue breaks this: end is 0 when a ring with start 0 is full, and
\* the item that made it grow is written over the oldest one.
Contents == [i \in 1 .. len |-> bytes[(start + i - 1) % cap]]
FifoUntilGrown == cap = InitSize => Contents = entered
=============================================================================
