--------------------------- MODULE ContainersProofs ---------------------------
(***************************************************************************)
(* Theorems about the containers.  The queue of queue.c, for every set of  *)
(* items, every initial size and every length: the indices never leave the *)
(* buffer, and until the buffer first grows the queue is first in, first   *)
(* out.  The hash map of hashmap.c, for every hash and every size of a     *)
(* bucket: no bucket is ever filled beyond its arrays, also when the map   *)
(* grows.                                                                  *)
(***************************************************************************)
EXTENDS Containers, Loops, FiniteSetTheorems

TypeOK ==
    /\ entered \in Seq(Items)
    /\ cap \in Nat /\ cap >= InitSize
    /\ result \in Items \cup {None}
    /\ InBounds

\* The slot of the i-th item of the ring, without the remainder.
Slot(i) == IF start + i - 1 < cap THEN start + i - 1 ELSE start + i - 1 - cap

\* Before the first growth the items lie in order from start on, and end is the
\* slot after the last of them, or start when the ring is full.
RingInv ==
    cap = InitSize =>
        /\ end = Slot(len + 1)
        /\ \A i \in 1 .. len : bytes[Slot(i)] = entered[i]

IInv == TypeOK /\ RingInv

-----------------------------------------------------------------------------
\* The remainder of a number below twice the divisor.
LEMMA Wrap ==
    ASSUME NEW a \in Nat, NEW c \in Nat, c > 0, a < 2 * c
    PROVE  a % c = IF a < c THEN a ELSE a - c
  OBVIOUS

\* What Slot computes is the slot the ring's arithmetic names.
LEMMA SlotIsRemainder ==
    ASSUME TypeOK, NEW i \in 1 .. len
    PROVE  (start + i - 1) % cap = Slot(i)
<1>1. /\ start \in Nat /\ i \in Nat /\ i >= 1 /\ i =< cap /\ start < cap /\ cap \in Nat /\ cap > 0
  BY RingQueueAssumption DEF TypeOK, InBounds
<1>2. start + i - 1 \in Nat /\ start + i - 1 < 2 * cap
  BY <1>1
<1>3. QED
  BY <1>1, <1>2, Wrap, SMTT(30) DEF Slot

\* create_queue establishes the types.
LEMMA TypeInit == Init => TypeOK
  BY RingQueueAssumption DEF Init, TypeOK, InBounds

\* queue_enqueue, growing or not, and queue_dequeue keep the types and the bounds.
LEMMA TypeNext == TypeOK /\ [Next]_vars => TypeOK'
<1> SUFFICES ASSUME TypeOK, [Next]_vars PROVE TypeOK'
  OBVIOUS
<1> USE RingQueueAssumption
<1>1. ASSUME NEW x \in Items, len < cap, Put(x, cap, bytes) PROVE TypeOK'
  <2>1. /\ len' = len + 1 /\ cap' = cap /\ start' = start /\ result' = result
        /\ end' \in 0 .. cap - 1
        /\ bytes' \in [0 .. cap - 1 -> Items \cup {None}]
    BY <1>1 DEF Put, TypeOK, InBounds
  <2>2. entered' \in Seq(Items) /\ Len(entered') = Len(entered) + 1
    BY <1>1 DEF Put, TypeOK
  <2>3. QED
    BY <1>1, <2>1, <2>2 DEF TypeOK, InBounds
<1>2. ASSUME NEW x \in Items, len >= cap, Put(x, 2 * cap, Grown) PROVE TypeOK'
  <2>1. Grown \in [0 .. 2 * cap - 1 -> Items \cup {None}]
    BY DEF Grown, TypeOK, InBounds
  <2>2. /\ len' = len + 1 /\ cap' = 2 * cap /\ start' = start /\ result' = result
        /\ end' \in 0 .. 2 * cap - 1
        /\ bytes' \in [0 .. 2 * cap - 1 -> Items \cup {None}]
    BY <1>2, <2>1 DEF Put, TypeOK, InBounds
  <2>3. entered' \in Seq(Items) /\ Len(entered') = Len(entered) + 1
    BY <1>2 DEF Put, TypeOK
  <2>4. QED
    BY <1>2, <2>2, <2>3 DEF TypeOK, InBounds
<1>3. CASE queue_dequeue
  <2>1. CASE len = 0
    BY <1>3, <2>1 DEF queue_dequeue, TypeOK, InBounds
  <2>2. CASE len # 0
    <3>1. /\ len' = len - 1 /\ start' \in 0 .. cap - 1 /\ cap' = cap /\ end' = end
          /\ bytes' = bytes /\ result' \in Items \cup {None}
      BY <1>3, <2>2 DEF queue_dequeue, TypeOK, InBounds
    <3>2. entered # <<>>
      BY <2>2 DEF TypeOK, InBounds
    <3>3. entered' \in Seq(Items) /\ Len(entered') = Len(entered) - 1
      BY <1>3, <2>2, <3>2 DEF queue_dequeue, TypeOK
    <3>4. QED
      BY <2>2, <3>1, <3>3 DEF TypeOK, InBounds
  <2>3. QED
    BY <2>1, <2>2
<1>4. CASE UNCHANGED vars
  BY <1>4 DEF vars, TypeOK, InBounds
<1>5. QED
  BY <1>1, <1>2, <1>3, <1>4 DEF Next, queue_enqueue

\* Every step that does not grow the ring keeps its items in order; the one that
\* grows it leaves nothing to show, for cap never falls back to InitSize.
LEMMA RingNext == TypeOK /\ RingInv /\ [Next]_vars => RingInv'
<1> SUFFICES ASSUME TypeOK, RingInv, [Next]_vars, cap' = InitSize PROVE RingInv'
  BY DEF RingInv
<1> USE RingQueueAssumption
<1>1. ASSUME NEW x \in Items, len < cap, Put(x, cap, bytes) PROVE RingInv'
  <2>1. /\ len' = len + 1 /\ cap' = cap /\ start' = start /\ cap = InitSize
        /\ end' = (IF end + 1 >= cap THEN 0 ELSE end + 1)
        /\ bytes' = [bytes EXCEPT ![end] = x]
    BY <1>1 DEF Put
  <2>2. end = Slot(len + 1) /\ \A i \in 1 .. len : bytes[Slot(i)] = entered[i]
    BY <2>1 DEF RingInv
  <2>3. \A i : Slot(i)' = Slot(i)
    BY <2>1 DEF Slot
  <2>4. end' = Slot(len + 1)'
    BY <1>1, <2>1, <2>2, <2>3 DEF Slot, TypeOK, InBounds
  <2>5. /\ \A i \in 1 .. len : entered'[i] = entered[i]
        /\ entered'[len + 1] = x
    BY <1>1 DEF Put, TypeOK, InBounds
  <2>6. \A i \in 1 .. len : Slot(i) \in 0 .. cap - 1 /\ Slot(i) # end
    BY <1>1, <2>2 DEF Slot, TypeOK, InBounds
  <2>7. ASSUME NEW i \in 1 .. len + 1 PROVE bytes'[Slot(i)] = entered'[i]
    <3>1. CASE i \in 1 .. len
      BY <2>1, <2>2, <2>5, <2>6, <3>1 DEF TypeOK, InBounds
    <3>2. CASE i = len + 1
      BY <2>1, <2>2, <2>5, <3>2 DEF TypeOK, InBounds
    <3>3. QED
      BY <3>1, <3>2 DEF TypeOK, InBounds
  <2>8. QED
    BY <2>1, <2>3, <2>4, <2>7 DEF RingInv
<1>2. ASSUME NEW x \in Items, len >= cap, Put(x, 2 * cap, Grown) PROVE FALSE
  BY <1>2 DEF Put, TypeOK
<1>3. CASE queue_dequeue
  <2>1. CASE len = 0
    BY <1>3, <2>1 DEF queue_dequeue, RingInv, Slot
  <2>2. CASE len # 0
    <3>1. /\ len' = len - 1 /\ cap' = cap /\ cap = InitSize /\ end' = end /\ bytes' = bytes
          /\ start' = (IF start + 1 >= cap THEN 0 ELSE start + 1)
          /\ entered' = Tail(entered)
      BY <1>3, <2>2 DEF queue_dequeue
    <3>2. end = Slot(len + 1) /\ \A i \in 1 .. len : bytes[Slot(i)] = entered[i]
      BY <3>1 DEF RingInv
    <3>3. \A i \in 1 .. len : Slot(i)' = Slot(i + 1)
      BY <2>2, <3>1 DEF Slot, TypeOK, InBounds
    <3>4. \A i \in 1 .. len - 1 : entered'[i] = entered[i + 1]
      BY <2>2, <3>1 DEF TypeOK, InBounds
    <3>5. end' = Slot(len + 1)'
      BY <2>2, <3>1, <3>2, <3>3 DEF TypeOK, InBounds
    <3>6. ASSUME NEW i \in 1 .. len - 1 PROVE bytes'[Slot(i)'] = entered'[i]
      BY <2>2, <3>1, <3>2, <3>3, <3>4, SMTT(30) DEF TypeOK, InBounds
    <3>7. QED
      BY <3>1, <3>5, <3>6 DEF RingInv
  <2>3. QED
    BY <2>1, <2>2
<1>4. CASE UNCHANGED vars
  BY <1>4 DEF vars, RingInv, Slot
<1>5. QED
  BY <1>1, <1>2, <1>3, <1>4 DEF Next, queue_enqueue

\* IInv is inductive.
LEMMA Invariant == Spec => []IInv
<1>1. Init => IInv
  BY TypeInit, RingQueueAssumption DEF Init, IInv, RingInv, Slot
<1>2. IInv /\ [Next]_vars => IInv'
  BY TypeNext, RingNext DEF IInv
<1>3. QED
  BY <1>1, <1>2, PTL DEF Spec

-----------------------------------------------------------------------------
\* queue_enqueue and queue_dequeue never touch a byte outside the buffer, however
\* often it has grown, and len counts the items in it.
THEOREM IndicesInBounds == Spec => []InBounds
<1>1. IInv => InBounds
  BY DEF IInv, TypeOK
<1>2. QED
  BY <1>1, Invariant, PTL

\* Until the first growth the ring holds exactly the items enqueued and not yet
\* dequeued, in the order they came.
THEOREM FifoBeforeGrowth == Spec => []FifoUntilGrown
<1>1. IInv => FifoUntilGrown
  <2> SUFFICES ASSUME IInv, cap = InitSize PROVE Contents = entered
    BY DEF FifoUntilGrown
  <2>1. entered = [i \in 1 .. len |-> entered[i]]
    BY DEF IInv, TypeOK, InBounds
  <2>2. \A i \in 1 .. len : bytes[(start + i - 1) % cap] = entered[i]
    BY SlotIsRemainder DEF IInv, RingInv
  <2>3. QED
    BY <2>1, <2>2 DEF Contents
<1>2. QED
  BY <1>1, Invariant, PTL

\* What queue_dequeue stores is the oldest item, as long as the ring has not
\* grown.
DequeuesOldest == cap = InitSize /\ queue_dequeue /\ entered # <<>> => result' = Head(entered)

\* Until the first growth queue_dequeue hands out the items in the order they came.
THEOREM DequeueOldest == Spec => [][DequeuesOldest]_vars
<1>1. IInv => DequeuesOldest
  <2> SUFFICES ASSUME IInv, cap = InitSize, queue_dequeue, entered # <<>>
               PROVE  result' = Head(entered)
    BY DEF DequeuesOldest
  <2>1. len # 0 /\ Head(entered) = entered[1] /\ len \in Nat
    BY DEF IInv, TypeOK, InBounds
  <2>2. result' = bytes[start] /\ Slot(1) = start
    BY <2>1 DEF queue_dequeue, Slot, IInv, TypeOK, InBounds
  <2>3. QED
    BY <2>1, <2>2 DEF IInv, RingInv
<1>2. QED
  BY <1>1, Invariant, PTL

-----------------------------------------------------------------------------
(* The hash map.                                                            *)

Unit == (Vals \X Nat) \cup {Junk}
Arrays == UNION {[1 .. n -> Unit] : n \in Nat}
Buckets == [keys : Seq(Keys), values : Arrays]
Rings(c) == [0 .. c - 1 -> Buckets]

\* The keys of bucket i of c belong there.
Belong(b, i, c) == \A j \in 1 .. Len(b.keys) : Hash[b.keys[j]] % c = i

\* A ring of c buckets, none of which is too full.
Sound(r, c) ==
    /\ r \in Rings(c)
    /\ \A i \in 0 .. c - 1 : Len(r[i].keys) =< MaxCollision /\ Belong(r[i], i, c)

MapInv ==
    /\ <<key_size, val_size>> \in Sizes
    /\ pending \in {NoEntry} \cup (Keys \X Vals)
    /\ \E n \in 0 .. MaxCap : Sound(ring, Capacity[n])

\* A capacity is the double of the one before, and grows.
LEMMA CapacityFacts ==
    /\ Capacity[0] = InitialSize
    /\ \A n \in 1 .. MaxCap : Capacity[n] = 2 * Capacity[n - 1]
    /\ \A n \in 0 .. MaxCap : Capacity[n] \in Nat /\ n < Capacity[n]
<1> DEFINE Loop(g) == [n \in 0 .. MaxCap |-> IF n = 0 THEN InitialSize ELSE 2 * g[n - 1]]
           F == [x \in Nat \X (0 .. MaxCap - 1) |-> 2 * x[1]]
<1>1. MaxCap \in Nat /\ InitialSize \in Nat \ {0}
  BY HashMapAssumption
<1>2. \E g : g = Loop(g)
  <2>1. \A x \in Nat, i \in 0 .. MaxCap - 1 : F[<<x, i>>] = 2 * x
    OBVIOUS
  <2> HIDE DEF F
  <2>2. Rounds(F, Nat, MaxCap)
    <3>1. ASSUME NEW x \in Nat, NEW i \in 0 .. MaxCap - 1 PROVE F[<<x, i>>] \in Nat
      BY <2>1
    <3>2. QED
      BY <3>1 DEF Rounds
  <2>3. PICK g : g \in Passes(F, Nat, MaxCap, InitialSize)
    BY <1>1, <2>2, LoopExists
  <2>4. \A n \in 0 .. MaxCap : n # 0 => n \in 1 .. MaxCap /\ n - 1 \in 0 .. MaxCap - 1 /\ g[n - 1] \in Nat
    BY <1>1, <2>3 DEF Passes
  <2>5. \A n \in 0 .. MaxCap : g[n] = Loop(g)[n]
    BY <2>1, <2>3, <2>4 DEF Passes
  <2>6. g = Loop(g)
    BY <2>3, <2>5 DEF Passes
  <2>7. QED
    BY <2>6
<1>3. Capacity = Loop(Capacity)
  BY <1>2 DEF Capacity
<1> HIDE DEF Capacity
<1>4. Capacity[0] = InitialSize /\ \A n \in 1 .. MaxCap : Capacity[n] = 2 * Capacity[n - 1]
  BY <1>1, <1>3
<1>5. ASSUME NEW k \in 0 .. MaxCap PROVE Capacity[k] \in Nat /\ k < Capacity[k]
  <2> DEFINE S == [n \in 0 .. k |-> {x \in Nat : n < x}]
  <2>1. k \in Nat /\ k =< MaxCap
    BY <1>1
  <2>2. Capacity[0] \in S[0]
    BY <1>1, <1>4, <2>1
  <2>3. ASSUME NEW n \in 1 .. k, Capacity[n - 1] \in S[n - 1] PROVE Capacity[n] \in S[n]
    <3>1. n - 1 \in 0 .. k /\ n \in 0 .. k /\ n \in 1 .. MaxCap
      BY <1>1, <2>1
    <3>2. Capacity[n - 1] \in Nat /\ n - 1 < Capacity[n - 1] /\ Capacity[n] = 2 * Capacity[n - 1]
      BY <1>4, <2>3, <3>1
    <3>3. Capacity[n] \in Nat /\ n < Capacity[n]
      BY <3>1, <3>2
    <3>4. QED
      BY <3>1, <3>3
  <2>4. Capacity[k] \in S[k]
    <3> HIDE DEF S
    <3>1. QED
      BY <2>1, <2>2, <2>3, LoopCounts
  <2>5. QED
    BY <2>1, <2>4
<1>6. QED
  BY <1>4, <1>5

\* bucket_count is the length of the ring.
LEMMA RingLength ==
    ASSUME NEW c \in Nat, NEW r \in Rings(c)
    PROVE  Cardinality(DOMAIN r) = c
<1>1. DOMAIN r = 0 .. c - 1
  BY DEF Rings
<1>2. Cardinality(0 .. c - 1) = IF 0 > c - 1 THEN 0 ELSE (c - 1) - 0 + 1
  BY FS_Interval
<1>3. QED
  BY <1>1, <1>2

\* Quotient and remainder.
LEMMA Division ==
    ASSUME NEW a \in Int, NEW b \in Nat \ {0}
    PROVE  /\ a \div b \in Int /\ (a \div b) * b =< a /\ a < (a \div b) * b + b
           /\ a % b = a - (a \div b) * b
  OBVIOUS

\* The bucket of a key in a ring twice as long is one of the two that take the
\* entries of its bucket.
LEMMA HashSplits ==
    ASSUME NEW h \in Nat, NEW c \in Nat \ {0}
    PROVE  h % (2 * c) \in 0 .. 2 * c - 1 /\ (h % (2 * c)) % c = h % c
<1> DEFINE q == h \div (2 * c)
           r == h % (2 * c)
           d == r \div c
           e == h \div c
           f == 2 * q + d - e
           s == r % c
           t == h % c
<1>1. 2 * c \in Nat \ {0} /\ h \in Int
  OBVIOUS
<1>2. q \in Int /\ q * (2 * c) =< h /\ h < q * (2 * c) + 2 * c /\ r = h - q * (2 * c)
  BY <1>1, Division
<1>3. e \in Int /\ e * c =< h /\ h < e * c + c /\ t = h - e * c
  BY <1>1, Division
<1> HIDE DEF q, r, e, t
<1>4. r \in Int /\ 0 =< r /\ r < 2 * c
  BY <1>1, <1>2
<1>5. d \in Int /\ d * c =< r /\ r < d * c + c /\ s = r - d * c
  BY <1>4, Division
<1> HIDE DEF d, s
<1>6. f \in Int /\ f * c = q * (2 * c) + d * c - e * c
  BY <1>2, <1>3, <1>5
<1> HIDE DEF f
<1> DEFINE x == q * (2 * c)
           y == d * c
           z == e * c
           g == f * c
<1>7. /\ x \in Int /\ y \in Int /\ z \in Int /\ g = x + y - z /\ g \in Int
      /\ r = h - x /\ t = h - z /\ s = r - y /\ y =< r /\ r < y + c /\ z =< h /\ h < z + c
  BY <1>2, <1>3, <1>5, <1>6
<1>8. (f > 0 => g >= c) /\ (f < 0 => g =< -c)
  BY <1>6
<1>9. f = 0 => g = 0
  OBVIOUS
<1> HIDE DEF x, y, z, g
<1>10. g = t - s /\ 0 =< s /\ s < c /\ 0 =< t /\ t < c /\ s \in Int /\ t \in Int
  BY <1>1, <1>4, <1>7
<1>11. s = t
  BY <1>6, <1>8, <1>9, <1>10
<1>12. QED
  BY <1>4, <1>11 DEF s, t, r

\* What is read at an offset of an array, inside it or not.
LEMMA SliceType ==
    ASSUME val_size \in Nat, NEW array \in Arrays, NEW offset \in Int
    PROVE  Slice(array, offset) \in [1 .. val_size -> Unit]
<1>1. PICK n \in Nat : array \in [1 .. n -> Unit]
  BY DEF Arrays
<1>2. Junk \in Unit
  BY DEF Unit
<1>3. QED
  BY <1>1, <1>2 DEF Slice

\* A key behind the others.
LEMMA AppendFacts ==
    ASSUME NEW s \in Seq(Keys), NEW k \in Keys
    PROVE  /\ Len(Append(s, k)) = Len(s) + 1 /\ Append(s, k)[Len(s) + 1] = k
           /\ \A j \in 1 .. Len(s) : Append(s, k)[j] = s[j]
  OBVIOUS

\* Push adds a key.
LEMMA PushType ==
    ASSUME val_size \in Nat, NEW b \in Buckets, NEW k \in Keys, NEW units \in [1 .. val_size -> Unit]
    PROVE  Push(b, k, units) \in Buckets /\ Push(b, k, units).keys = Append(b.keys, k)
<1> DEFINE n == Len(b.keys)
           array == IF n = 0 THEN [u \in 1 .. MaxCollision * val_size |-> Junk] ELSE b.values
           filled == [u \in DOMAIN array |-> IF u \in n * val_size + 1 .. (n + 1) * val_size
                                             THEN units[u - n * val_size] ELSE array[u]]
<1>1. Push(b, k, units) = [keys |-> Append(b.keys, k), values |-> filled]
  BY DEF Push
<1>2. n \in Nat /\ b.keys \in Seq(Keys) /\ Append(b.keys, k) \in Seq(Keys)
  BY DEF Buckets
<1>3. array \in Arrays
  <2>1. Junk \in Unit /\ MaxCollision * val_size \in Nat
    BY HashMapAssumption DEF Unit
  <2>2. [u \in 1 .. MaxCollision * val_size |-> Junk] \in [1 .. MaxCollision * val_size -> Unit]
    BY <2>1
  <2>3. [u \in 1 .. MaxCollision * val_size |-> Junk] \in Arrays
    BY <2>1, <2>2 DEF Arrays
  <2>4. b.values \in Arrays
    BY DEF Buckets
  <2>5. QED
    BY <2>3, <2>4
<1> HIDE DEF n, array
<1>4. PICK l \in Nat : array \in [1 .. l -> Unit]
  BY <1>3 DEF Arrays
<1>5. ASSUME NEW u \in 1 .. l, u \in n * val_size + 1 .. (n + 1) * val_size
      PROVE  units[u - n * val_size] \in Unit
  <2> DEFINE w == n * val_size
  <2>1. w \in Nat /\ (n + 1) * val_size = w + val_size
    BY <1>2
  <2> HIDE DEF w
  <2>2. u - w \in 1 .. val_size
    BY <1>5, <2>1 DEF w
  <2>3. QED
    BY <2>2 DEF w
<1>6. filled \in [1 .. l -> Unit]
  BY <1>4, <1>5
<1> HIDE DEF filled
<1>7. filled \in Arrays
  BY <1>6 DEF Arrays
<1>8. QED
  BY <1>1, <1>2, <1>7 DEF Buckets

\* One bucket of a ring is replaced.
LEMMA RingSet ==
    ASSUME NEW c \in Nat, NEW r \in Rings(c), NEW i \in 0 .. c - 1, NEW b \in Buckets
    PROVE  /\ [r EXCEPT ![i] = b] \in Rings(c) /\ [r EXCEPT ![i] = b][i] = b
           /\ \A j \in 0 .. c - 1 : j # i => [r EXCEPT ![i] = b][j] = r[j]
  BY DEF Rings

\* Round n of the inner loop of hashmap_grow: entry n of bucket i goes to the new ring.
MoveTo(r, i, n) ==
    LET keys == ring[i].keys
    IN [r EXCEPT ![Index(keys[n], 2 * bucket_count)] =
          Push(@, keys[n], Slice(ring[i].values, (n - 1) * key_size))]

\* The rounds.
MoveRounds(acc, new, i) ==
    /\ Moved(new, i) = acc[Len(ring[i].keys)] /\ acc[0] = new
    /\ \A n \in 1 .. Len(ring[i].keys) : acc[n] = MoveTo(acc[n - 1], i, n)

\* Key k goes behind the others of its bucket, and ring r becomes ring t.
Joins(t, r, k, c) ==
    LET x == Hash[k] % (2 * c)
    IN /\ x \in 0 .. 2 * c - 1 /\ x % c = Hash[k] % c
       /\ t[x].keys = Append(r[x].keys, k)
       /\ \A j \in 0 .. 2 * c - 1 : j # x => t[j] = r[j]

\* One round of it.
LEMMA MoveStep ==
    ASSUME val_size \in Nat, key_size \in Nat, NEW c \in Nat \ {0}, ring \in Rings(c),
           NEW i \in 0 .. c - 1, NEW r \in Rings(2 * c), NEW n \in 1 .. Len(ring[i].keys)
    PROVE  /\ MoveTo(r, i, n) \in Rings(2 * c) /\ ring[i].keys[n] \in Keys
           /\ Joins(MoveTo(r, i, n), r, ring[i].keys[n], c)
<1> DEFINE k == ring[i].keys[n]
           x == Hash[k] % (2 * c)
           units == Slice(ring[i].values, (n - 1) * key_size)
<1>1. ring[i] \in Buckets
  BY DEF Rings
<1>2. k \in Keys /\ n \in Nat /\ ring[i].values \in Arrays
  BY <1>1 DEF Buckets
<1>3. units \in [1 .. val_size -> Unit]
  <2>1. (n - 1) * key_size \in Int
    BY <1>2
  <2>2. QED
    BY <1>2, <2>1, SliceType
<1>4. Hash[k] \in Nat
  BY <1>2, HashMapAssumption
<1>5. x \in 0 .. 2 * c - 1 /\ x % c = Hash[k] % c
  BY <1>4, HashSplits
<1>6. bucket_count = c
  BY RingLength DEF bucket_count
<1>7. Index(k, 2 * bucket_count) = x
  BY <1>6 DEF Index
<1>8. 2 * c \in Nat
  OBVIOUS
<1> DEFINE b == Push(r[x], k, units)
<1>9. b \in Buckets /\ b.keys = Append(r[x].keys, k)
  <2> HIDE DEF k, x, units
  <2>1. r[x] \in Buckets
    BY <1>5 DEF Rings
  <2>2. QED
    BY <1>2, <1>3, <2>1, PushType
<1> DEFINE t == [r EXCEPT ![x] = b]
<1>10. t \in Rings(2 * c) /\ t[x] = b /\ \A j \in 0 .. 2 * c - 1 : j # x => t[j] = r[j]
  <2> HIDE DEF k, x, units, b
  <2>1. QED
    BY <1>5, <1>8, <1>9, RingSet
<1>11. MoveTo(r, i, n) = t
  <2>1. MoveTo(r, i, n) = [r EXCEPT ![Index(k, 2 * bucket_count)] = Push(@, k, units)]
    BY DEF MoveTo
  <2> HIDE DEF k, x, units
  <2>2. QED
    BY <1>7, <2>1
<1> HIDE DEF t, b
<1>12. t[x].keys = Append(r[x].keys, k)
  BY <1>9, <1>10
<1>13. Joins(t, r, k, c)
  <2> HIDE DEF k
  <2>1. QED
    BY <1>5, <1>10, <1>12 DEF Joins
<1> HIDE DEF x, k, units
<1>14. QED
  BY <1>2, <1>10, <1>11, <1>13 DEF k

\* The loop can be run.
LEMMA MoveRuns ==
    ASSUME val_size \in Nat, key_size \in Nat, NEW c \in Nat \ {0}, ring \in Rings(c),
           NEW i \in 0 .. c - 1, NEW new \in Rings(2 * c)
    PROVE  \E acc : MoveRounds(acc, new, i)
<1> DEFINE S == Rings(2 * c)
           keys == ring[i].keys
           k == Len(keys)
           Step(x, n) == MoveTo(x, i, n)
           Loop(g) == [n \in 0 .. k |-> IF n = 0 THEN new ELSE Step(g[n - 1], n)]
           F == [x \in S \X (0 .. k - 1) |-> Step(x[1], x[2] + 1)]
           acc == CHOOSE g : g = Loop(g)
<1>1. k \in Nat
  BY DEF Rings, Buckets
<1>2. \A x \in S, n \in 1 .. k : Step(x, n) \in S
  BY MoveStep
<1>3. Moved(new, i) = acc[k]
  BY DEF Moved, MoveTo
<1> HIDE DEF S, Step
<1>4. \E g : g = Loop(g)
  <2>0. new \in S
    BY DEF S
  <2> HIDE DEF k
  <2>1. \A x \in S, n \in 0 .. k - 1 : F[<<x, n>>] = Step(x, n + 1)
    OBVIOUS
  <2> HIDE DEF F
  <2>2. Rounds(F, S, k)
    <3>1. \A n \in 0 .. k - 1 : n + 1 \in 1 .. k
      BY <1>1
    <3>2. QED
      BY <1>2, <2>1, <3>1 DEF Rounds
  <2>3. PICK g : g \in Passes(F, S, k, new)
    BY <1>1, <2>0, <2>2, LoopExists
  <2>4. \A n \in 0 .. k : n # 0 => n \in 1 .. k /\ n - 1 \in 0 .. k - 1 /\ (n - 1) + 1 = n /\ g[n - 1] \in S
    BY <1>1, <2>3 DEF Passes
  <2>5. \A n \in 0 .. k : g[n] = Loop(g)[n]
    <3>1. \A n \in 0 .. k : n # 0 => g[n] = F[<<g[n - 1], n - 1>>]
      BY <2>3, <2>4 DEF Passes
    <3>2. \A n \in 0 .. k : n # 0 => F[<<g[n - 1], n - 1>>] = Step(g[n - 1], (n - 1) + 1)
      BY <2>1, <2>4
    <3>3. \A n \in 0 .. k : n # 0 => g[n] = Step(g[n - 1], n)
      BY <2>4, <3>1, <3>2, Zenon
    <3>4. QED
      BY <2>3, <3>3 DEF Passes
  <2>6. g = Loop(g)
    BY <2>3, <2>5 DEF Passes
  <2>7. QED
    BY <2>6
<1>5. acc = Loop(acc)
  BY <1>4
<1> HIDE DEF acc
<1>6. acc[0] = new /\ \A n \in 1 .. k : acc[n] = Step(acc[n - 1], n)
  <2> HIDE DEF k
  <2>1. QED
    BY <1>1, <1>5
<1>7. QED
  BY <1>3, <1>6 DEF MoveRounds, Step

\* It keeps the ring.
LEMMA MovedType ==
    ASSUME val_size \in Nat, key_size \in Nat, NEW c \in Nat \ {0}, ring \in Rings(c),
           NEW i \in 0 .. c - 1, NEW new \in Rings(2 * c)
    PROVE  Moved(new, i) \in Rings(2 * c)
<1> DEFINE k == Len(ring[i].keys)
           S == Rings(2 * c)
<1>1. k \in Nat
  BY DEF Rings, Buckets
<1>2. PICK acc : MoveRounds(acc, new, i)
  BY MoveRuns
<1>3. acc[0] \in S /\ \A n \in 1 .. k : acc[n - 1] \in S => acc[n] \in S
  <2>1. \A n \in 1 .. k, r \in S : MoveTo(r, i, n) \in S
    BY MoveStep
  <2>2. acc[0] \in S /\ \A n \in 1 .. k : acc[n] = MoveTo(acc[n - 1], i, n)
    BY <1>2 DEF MoveRounds
  <2> HIDE DEF S, k
  <2>3. QED
    BY <2>1, <2>2
<1> HIDE DEF S
<1>4. acc[k] \in S
  <2> HIDE DEF k
  <2>1. QED
    BY <1>1, <1>3, LoopStays
<1>5. QED
  BY <1>2, <1>4 DEF S, MoveRounds

\* The two buckets of a new ring for the entries of bucket i are still empty.
Awaits(r, i, c) ==
    \A t \in 0 .. 2 * c - 1 : Belong(r[t], t, 2 * c) /\ (t % c = i => r[t].keys = <<>>)

\* It moves the entries of bucket i to the two buckets with the same remainder, and
\* only there.
LEMMA MoveSpreads ==
    ASSUME val_size \in Nat, key_size \in Nat, NEW c \in Nat \ {0}, ring \in Rings(c),
           NEW i \in 0 .. c - 1, Belong(ring[i], i, c), NEW new \in Rings(2 * c), Awaits(new, i, c)
    PROVE  LET r == Moved(new, i)
           IN \A t \in 0 .. 2 * c - 1 : /\ Belong(r[t], t, 2 * c)
                                        /\ t % c # i => r[t] = new[t]
                                        /\ t % c = i => Len(r[t].keys) =< Len(ring[i].keys)
<1> DEFINE k == Len(ring[i].keys)
           Good(r, n, t) == /\ Belong(r[t], t, 2 * c)
                            /\ t % c # i => r[t] = new[t]
                            /\ t % c = i => Len(r[t].keys) =< n
           After(r, n) == \A t \in 0 .. 2 * c - 1 : Good(r, n, t)
           S == [n \in 0 .. k |-> {r \in Rings(2 * c) : After(r, n)}]
<1>1. k \in Nat /\ \A n \in 1 .. k : ring[i].keys[n] \in Keys
  BY DEF Rings, Buckets
<1>2. PICK acc : MoveRounds(acc, new, i)
  BY MoveRuns
<1>3. acc[0] \in S[0]
  <2>1. After(new, 0)
    BY DEF Awaits
  <2> HIDE DEF After, k
  <2>2. QED
    BY <1>1, <1>2, <2>1 DEF MoveRounds
<1>4. ASSUME NEW n \in 1 .. k, acc[n - 1] \in S[n - 1] PROVE acc[n] \in S[n]
  <2> DEFINE r == acc[n - 1]
             t == acc[n]
             key == ring[i].keys[n]
             x == Hash[key] % (2 * c)
  <2>1. n - 1 \in 0 .. k /\ n \in 0 .. k /\ n \in 1 .. k /\ n - 1 \in Nat
    <3> HIDE DEF k
    <3>1. QED
      BY <1>1
  <2>2. r \in Rings(2 * c) /\ After(r, n - 1)
    <3> HIDE DEF k, After
    <3>1. QED
      BY <1>4, <2>1
  <2>3. t = MoveTo(r, i, n)
    BY <1>2, <2>1 DEF MoveRounds
  <2> HIDE DEF r, t
  <2>4. /\ t \in Rings(2 * c) /\ key \in Keys /\ x \in 0 .. 2 * c - 1 /\ x % c = Hash[key] % c
        /\ t[x].keys = Append(r[x].keys, key)
        /\ \A j \in 0 .. 2 * c - 1 : j # x => t[j] = r[j]
    <3>1. r \in Rings(2 * c) /\ n \in 1 .. Len(ring[i].keys)
      BY <2>1, <2>2
    <3>2. MoveTo(r, i, n) \in Rings(2 * c) /\ key \in Keys /\ Joins(MoveTo(r, i, n), r, key, c)
      BY <3>1, MoveStep, ZenonT(60)
    <3> HIDE DEF key
    <3>3. QED
      BY <2>3, <3>2 DEF Joins
  <2>5. x % c = i
    BY <2>1, <2>4 DEF Belong
  <2>6. x = Hash[key] % (2 * c)
    OBVIOUS
  <2> HIDE DEF key, x
  <2>7. Good(t, n, x)
    <3>1. r[x].keys \in Seq(Keys) /\ Len(r[x].keys) =< n - 1 /\ Belong(r[x], x, 2 * c)
      BY <2>2, <2>4, <2>5 DEF Rings, Buckets
    <3>2. Len(t[x].keys) = Len(r[x].keys) + 1 /\ t[x].keys[Len(r[x].keys) + 1] = key
          /\ \A j \in 1 .. Len(r[x].keys) : t[x].keys[j] = r[x].keys[j]
      <4> DEFINE u == r[x].keys
      <4>1. u \in Seq(Keys) /\ key \in Keys /\ t[x].keys = Append(u, key)
        BY <2>4, <3>1
      <4> HIDE DEF u
      <4>2. Len(t[x].keys) = Len(u) + 1 /\ t[x].keys[Len(u) + 1] = key
            /\ \A j \in 1 .. Len(u) : t[x].keys[j] = u[j]
        BY <4>1, AppendFacts
      <4>3. QED
        BY <4>2 DEF u
    <3>3. Len(r[x].keys) \in Nat
      BY <3>1
    <3>4. Belong(t[x], x, 2 * c)
      <4> SUFFICES ASSUME NEW j \in 1 .. Len(r[x].keys) + 1 PROVE Hash[t[x].keys[j]] % (2 * c) = x
        BY <3>2, SMTT(30) DEF Belong
      <4>1. CASE j = Len(r[x].keys) + 1
        BY <2>6, <3>2, <4>1
      <4>2. CASE j # Len(r[x].keys) + 1
        <5>1. j \in 1 .. Len(r[x].keys)
          <6> DEFINE l == Len(r[x].keys)
          <6>1. l \in Nat /\ j \in 1 .. l + 1 /\ j # l + 1
            BY <3>3, <4>2
          <6> HIDE DEF l
          <6>2. j \in 1 .. l
            BY <6>1
          <6>3. QED
            BY <6>2 DEF l
        <5>2. QED
          BY <3>1, <3>2, <5>1 DEF Belong
      <4>3. QED
        BY <4>1, <4>2
    <3>5. Len(t[x].keys) =< n
      BY <2>1, <3>1, <3>2, <3>3
    <3>6. QED
      BY <2>5, <3>4, <3>5
  <2>8. ASSUME NEW j \in 0 .. 2 * c - 1, j # x PROVE Good(t, n, j)
    <3>1. t[j] = r[j]
      BY <2>4, <2>8
    <3>2. Good(r, n - 1, j)
      BY <2>2
    <3>3. r[j] \in Buckets
      BY <2>2 DEF Rings
    <3>4. Len(r[j].keys) \in Nat
      BY <3>3 DEF Buckets
    <3>5. Len(r[j].keys) =< n - 1 => Len(r[j].keys) =< n
      BY <2>1, <3>4
    <3>6. QED
      BY <3>1, <3>2, <3>5
  <2> HIDE DEF Good
  <2>9. After(t, n)
    BY <2>4, <2>7, <2>8
  <2> HIDE DEF After, k
  <2>10. QED
    BY <2>1, <2>4, <2>9 DEF t
<1>5. acc[k] \in S[k]
  <2> HIDE DEF S, k
  <2>1. QED
    BY <1>1, <1>3, <1>4, LoopCounts
<1>6. After(acc[k], k)
  <2> HIDE DEF After, k
  <2>1. QED
    BY <1>1, <1>5
<1>7. Moved(new, i) = acc[k]
  BY <1>2 DEF MoveRounds
<1>8. QED
  BY <1>6, <1>7

\* The bucket nothing was put into.
LEMMA NoBucketFacts == NoBucket \in Buckets /\ NoBucket.keys = <<>> /\ Len(NoBucket.keys) = 0
<1>1. <<>> \in Seq(Keys) /\ <<>> \in [1 .. 0 -> Unit]
  OBVIOUS
<1>2. <<>> \in Arrays
  BY <1>1 DEF Arrays
<1>3. QED
  BY <1>1, <1>2 DEF NoBucket, Buckets

\* The outer loop of hashmap_grow.
LEMMA RehashRuns ==
    ASSUME val_size \in Nat, key_size \in Nat, NEW c \in Nat \ {0}, ring \in Rings(c)
    PROVE  \E acc : /\ Rehashed = acc[c] /\ acc[0] = EmptyRing(2 * c) /\ EmptyRing(2 * c) \in Rings(2 * c)
                    /\ \A n \in 1 .. c : acc[n] = Moved(acc[n - 1], n - 1)
<1> DEFINE S == Rings(2 * c)
           new == EmptyRing(2 * c)
           Loop(g) == [n \in 0 .. c |-> IF n = 0 THEN new ELSE Moved(g[n - 1], n - 1)]
           F == [x \in S \X (0 .. c - 1) |-> Moved(x[1], x[2])]
           acc == CHOOSE g : g = Loop(g)
<1>1. bucket_count = c
  BY RingLength DEF bucket_count
<1>2. \A x \in S, n \in 0 .. c - 1 : Moved(x, n) \in S
  BY MovedType
<1>3. Rehashed = acc[c]
  BY <1>1 DEF Rehashed
<1>0. new \in S
  BY NoBucketFacts DEF EmptyRing, Rings
<1> HIDE DEF S, new
<1>4. \E g : g = Loop(g)
  <2>1. \A x \in S, n \in 0 .. c - 1 : F[<<x, n>>] = Moved(x, n)
    OBVIOUS
  <2> HIDE DEF F
  <2>2. Rounds(F, S, c)
    BY <1>2, <2>1 DEF Rounds
  <2>3. PICK g : g \in Passes(F, S, c, new)
    BY <1>0, <2>2, LoopExists
  <2>4. \A n \in 0 .. c : n # 0 => n \in 1 .. c /\ n - 1 \in 0 .. c - 1 /\ g[n - 1] \in S
    BY <2>3 DEF Passes
  <2>5. \A n \in 0 .. c : g[n] = Loop(g)[n]
    <3>1. \A n \in 0 .. c : n # 0 => g[n] = F[<<g[n - 1], n - 1>>]
      BY <2>3, <2>4 DEF Passes
    <3>2. \A n \in 0 .. c : n # 0 => g[n] = Moved(g[n - 1], n - 1)
      BY <2>1, <2>4, <3>1
    <3>3. QED
      BY <2>3, <3>2 DEF Passes
  <2>6. g = Loop(g)
    BY <2>3, <2>5 DEF Passes
  <2>7. QED
    BY <2>6
<1>5. acc = Loop(acc)
  BY <1>4
<1> HIDE DEF acc
<1>6. acc[0] = new /\ \A n \in 1 .. c : acc[n] = Moved(acc[n - 1], n - 1)
  BY <1>5
<1>7. QED
  BY <1>0, <1>3, <1>6 DEF S, new

\* A ring that has grown is sound.
LEMMA RehashSpreads ==
    ASSUME val_size \in Nat, key_size \in Nat, NEW c \in Nat \ {0}, Sound(ring, c)
    PROVE  Sound(Rehashed, 2 * c)
<1> DEFINE Good(r, n, t) == /\ Belong(r[t], t, 2 * c) /\ Len(r[t].keys) =< MaxCollision
                            /\ t % c >= n => r[t].keys = <<>>
           After(r, n) == \A t \in 0 .. 2 * c - 1 : Good(r, n, t)
           S == [n \in 0 .. c |-> {r \in Rings(2 * c) : After(r, n)}]
<1>1. ring \in Rings(c) /\ \A i \in 0 .. c - 1 : Len(ring[i].keys) =< MaxCollision /\ Belong(ring[i], i, c)
  BY DEF Sound
<1>2. PICK acc : /\ Rehashed = acc[c] /\ acc[0] = EmptyRing(2 * c) /\ EmptyRing(2 * c) \in Rings(2 * c)
                 /\ \A n \in 1 .. c : acc[n] = Moved(acc[n - 1], n - 1)
  BY <1>1, RehashRuns
<1>3. MaxCollision \in Nat
  BY HashMapAssumption
<1>4. \A t \in 0 .. 2 * c - 1 : t % c \in 0 .. c - 1
  OBVIOUS
<1>5. acc[0] \in S[0]
  <2>1. \A t \in 0 .. 2 * c - 1 : EmptyRing(2 * c)[t].keys = <<>>
    BY DEF EmptyRing, NoBucket
  <2>2. After(EmptyRing(2 * c), 0)
    BY <1>3, <2>1 DEF Belong
  <2> HIDE DEF After
  <2>3. QED
    BY <1>2, <2>2
<1>6. ASSUME NEW n \in 1 .. c, acc[n - 1] \in S[n - 1] PROVE acc[n] \in S[n]
  <2> DEFINE r == acc[n - 1]
             s == acc[n]
             i == n - 1
  <2>1. n - 1 \in 0 .. c /\ n \in 0 .. c /\ i \in 0 .. c - 1 /\ n = i + 1
    OBVIOUS
  <2>2. r \in Rings(2 * c) /\ After(r, i)
    <3> HIDE DEF After
    <3>1. QED
      BY <1>6, <2>1
  <2>3. s = Moved(r, i)
    BY <1>2
  <2> HIDE DEF r, s, i
  <2>4. s \in Rings(2 * c)
    BY <1>1, <2>1, <2>2, <2>3, MovedType
  <2>5. \A t \in 0 .. 2 * c - 1 : /\ Belong(s[t], t, 2 * c)
                                  /\ t % c # i => s[t] = r[t]
                                  /\ t % c = i => Len(s[t].keys) =< Len(ring[i].keys)
    <3>1. Awaits(r, i, c)
      BY <1>4, <2>1, <2>2 DEF Awaits
    <3>2. Belong(ring[i], i, c)
      BY <1>1, <2>1
    <3>3. QED
      BY <1>1, <2>1, <2>2, <2>3, <3>1, <3>2, MoveSpreads
  <2>6. ASSUME NEW t \in 0 .. 2 * c - 1 PROVE Good(s, n, t)
    <3>1. t % c \in Int /\ Len(ring[i].keys) =< MaxCollision
      BY <1>1, <1>4, <2>1
    <3>2. Good(r, i, t)
      BY <2>2
    <3>3. CASE t % c = i
      <4>1. ~(t % c >= n)
        BY <2>1, <3>3
      <4>2. Len(s[t].keys) \in Nat /\ Len(ring[i].keys) \in Nat
        BY <1>1, <2>1, <2>4 DEF Rings, Buckets
      <4>3. Len(s[t].keys) =< Len(ring[i].keys) /\ Belong(s[t], t, 2 * c)
        BY <2>5, <3>3
      <4>4. Len(s[t].keys) =< MaxCollision
        BY <1>3, <3>1, <4>2, <4>3
      <4>5. QED
        BY <4>1, <4>3, <4>4
    <3>4. CASE t % c # i
      <4>1. t % c >= n => t % c >= i
        BY <2>1, <3>1
      <4>2. QED
        BY <2>5, <3>2, <3>4, <4>1
    <3>5. QED
      BY <3>3, <3>4
  <2>7. After(s, n)
    <3> HIDE DEF Good
    <3>1. QED
      BY <2>6
  <2> HIDE DEF After
  <2>8. QED
    BY <2>1, <2>4, <2>7 DEF s
<1>7. acc[c] \in S[c]
  <2> HIDE DEF S
  <2>1. QED
    BY <1>5, <1>6, LoopCounts
<1>8. acc[c] \in Rings(2 * c) /\ After(acc[c], c)
  <2> HIDE DEF After
  <2>1. QED
    BY <1>7
<1>9. QED
  BY <1>2, <1>8 DEF Sound

\* A bucket that has no more than its share and only keys of its own can replace
\* the one that is there.
LEMMA SoundSet ==
    ASSUME NEW c \in Nat \ {0}, NEW r, Sound(r, c), NEW i \in 0 .. c - 1, NEW b \in Buckets,
           Len(b.keys) =< MaxCollision, Belong(b, i, c)
    PROVE  Sound([r EXCEPT ![i] = b], c)
<1> DEFINE t == [r EXCEPT ![i] = b]
<1>1. c \in Nat /\ r \in Rings(c)
      /\ \A j \in 0 .. c - 1 : Len(r[j].keys) =< MaxCollision /\ Belong(r[j], j, c)
  BY DEF Sound
<1>2. t \in Rings(c) /\ t[i] = b /\ \A j \in 0 .. c - 1 : j # i => t[j] = r[j]
  BY <1>1, RingSet
<1> HIDE DEF t
<1>3. \A j \in 0 .. c - 1 : Len(t[j].keys) =< MaxCollision /\ Belong(t[j], j, c)
  BY <1>1, <1>2
<1>4. Sound(t, c)
  BY <1>2, <1>3 DEF Sound
<1>5. QED
  BY <1>4 DEF t

\* A new map is sound.
LEMMA EmptySound == ASSUME NEW c \in Nat PROVE Sound(EmptyRing(c), c)
<1>1. \A i \in 0 .. c - 1 : EmptyRing(c)[i] = NoBucket
  BY DEF EmptyRing
<1>2. EmptyRing(c) \in Rings(c)
  BY NoBucketFacts DEF EmptyRing, Rings
<1>3. MaxCollision \in Nat
  BY HashMapAssumption
<1>4. \A i \in 0 .. c - 1 : Len(EmptyRing(c)[i].keys) =< MaxCollision /\ Belong(EmptyRing(c)[i], i, c)
  BY <1>1, <1>3, NoBucketFacts DEF Belong
<1>5. QED
  BY <1>2, <1>4 DEF Sound

\* An entry taken out of a bucket leaves one entry less, of the same keys.
LEMMA WithoutType ==
    ASSUME val_size \in Nat, NEW b \in Buckets, NEW j \in 0 .. Len(b.keys) - 1
    PROVE  /\ Without(b, j) \in Buckets /\ Len(Without(b, j).keys) = Len(b.keys) - 1
           /\ \A n \in 1 .. Len(b.keys) - 1 : \E m \in 1 .. Len(b.keys) : Without(b, j).keys[n] = b.keys[m]
<1> DEFINE keys == RemoveAt(b.keys, j + 1)
           values == [u \in DOMAIN b.values |->
                        IF u \in j * val_size + 1 .. Len(b.keys) * val_size
                        THEN IF u + val_size \in DOMAIN b.values THEN b.values[u + val_size] ELSE Junk
                        ELSE b.values[u]]
<1>1. Without(b, j) = [keys |-> keys, values |-> values]
  BY DEF Without
<1>2. b.keys \in Seq(Keys) /\ b.values \in Arrays /\ Len(b.keys) \in Nat /\ j \in Nat
  BY DEF Buckets
<1>3. /\ keys \in Seq(Keys) /\ Len(keys) = Len(b.keys) - 1
      /\ \A n \in 1 .. Len(b.keys) - 1 : keys[n] = IF n < j + 1 THEN b.keys[n] ELSE b.keys[n + 1]
  <2> DEFINE s == b.keys
             x == SubSeq(s, 1, (j + 1) - 1)
             y == SubSeq(s, (j + 1) + 1, Len(s))
  <2>1. keys = x \o y
    BY Zenon DEF RemoveAt
  <2>2. x \in Seq(Keys) /\ Len(x) = j /\ \A n \in 1 .. j : x[n] = s[n]
    BY <1>2
  <2>3. y \in Seq(Keys) /\ Len(y) = Len(s) - j - 1 /\ \A n \in 1 .. Len(s) - j - 1 : y[n] = s[n + j + 1]
    BY <1>2
  <2> HIDE DEF keys, x, y
  <2>4. keys \in Seq(Keys) /\ Len(keys) = Len(s) - 1
    BY <1>2, <2>1, <2>2, <2>3
  <2>5. \A n \in 1 .. Len(s) - 1 : keys[n] = IF n =< Len(x) THEN x[n] ELSE y[n - Len(x)]
    BY <1>2, <2>1, <2>2, <2>3
  <2>6. ASSUME NEW n \in 1 .. Len(s) - 1
        PROVE  keys[n] = IF n < j + 1 THEN s[n] ELSE s[n + 1]
    <3> DEFINE l == Len(s)
    <3>1. n \in Nat /\ n >= 1 /\ l \in Nat /\ n =< l - 1
      BY <1>2
    <3> HIDE DEF l
    <3>2. CASE n < j + 1
      BY <1>2, <2>2, <2>5, <3>1, <3>2
    <3>3. CASE ~(n < j + 1)
      <4>1. keys[n] = y[n - j]
        BY <1>2, <2>2, <2>5, <3>1, <3>3
      <4>2. n - j \in 1 .. l - j - 1 /\ (n - j) + j + 1 = n + 1
        BY <1>2, <3>1, <3>3
      <4>3. y[n - j] = s[(n - j) + j + 1]
        BY <2>3, <4>2 DEF l
      <4>4. QED
        BY <3>3, <4>1, <4>2, <4>3
    <3>4. QED
      BY <3>2, <3>3
  <2>7. QED
    BY <2>4, <2>6
<1>4. values \in Arrays
  <2>1. PICK l \in Nat : b.values \in [1 .. l -> Unit]
    BY <1>2 DEF Arrays
  <2>2. Junk \in Unit
    BY DEF Unit
  <2>3. values \in [1 .. l -> Unit]
    BY <2>1, <2>2
  <2> HIDE DEF values
  <2>4. QED
    BY <2>3 DEF Arrays
<1> HIDE DEF keys, values
<1>5. Without(b, j) \in Buckets /\ Without(b, j).keys = keys
  BY <1>1, <1>3, <1>4 DEF Buckets
<1>6. ASSUME NEW n \in 1 .. Len(b.keys) - 1 PROVE \E m \in 1 .. Len(b.keys) : keys[n] = b.keys[m]
  <2>1. n \in 1 .. Len(b.keys) /\ n + 1 \in 1 .. Len(b.keys)
    BY <1>2
  <2>2. QED
    BY <1>3, <2>1
<1>7. QED
  BY <1>3, <1>5, <1>6

\* The search of hashmap_remove ends at an entry.
LEMMA FirstHitIn ==
    ASSUME NEW b \in Buckets, NEW k, Hits(b, k) # {}
    PROVE  FirstHit(b, k) \in 0 .. Len(b.keys) - 1
<1>1. Hits(b, k) \in SUBSET Nat /\ Hits(b, k) \subseteq 0 .. Len(b.keys) - 1
  BY DEF Hits
<1>2. \E j \in Hits(b, k) : \A l \in Hits(b, k) : j =< l
  BY <1>1, LeastNumber
<1>3. FirstHit(b, k) \in Hits(b, k)
  BY <1>2 DEF FirstHit
<1>4. QED
  BY <1>1, <1>3

\* The bucket of a key.
LEMMA BucketOfKey ==
    ASSUME NEW c \in Nat \ {0}, Sound(ring, c), NEW k \in Keys
    PROVE  /\ bucket_count = c /\ Index(k, bucket_count) = Hash[k] % c /\ Hash[k] % c \in 0 .. c - 1
           /\ BucketOf(k) = ring[Hash[k] % c] /\ BucketOf(k) \in Buckets
           /\ Len(BucketOf(k).keys) =< MaxCollision /\ Belong(BucketOf(k), Hash[k] % c, c)
<1>1. bucket_count = c
  BY RingLength DEF bucket_count, Sound
<1>2. Hash[k] \in Nat
  BY HashMapAssumption
<1>3. Hash[k] % c \in 0 .. c - 1
  BY <1>2
<1>4. BucketOf(k) = ring[Hash[k] % c]
  BY <1>1 DEF BucketOf, Index
<1> DEFINE x == Hash[k] % c
<1>5. Index(k, bucket_count) = x
  BY <1>1 DEF Index
<1> HIDE DEF x
<1>6. ring[x] \in Buckets /\ Len(ring[x].keys) =< MaxCollision /\ Belong(ring[x], x, c)
  BY <1>3 DEF Sound, Rings, x
<1>7. QED
  BY <1>1, <1>3, <1>4, <1>5, <1>6 DEF x

\* hashmap_insert puts an entry into a bucket with room for it.
LEMMA InsertKeeps ==
    ASSUME MapInv, Insert, NEW c \in Nat \ {0}, Sound(ring, c)
    PROVE  Sound(ring', c)
<1> DEFINE k == pending[1]
           v == pending[2]
           x == Hash[k] % c
           b == BucketOf(k)
           p == Push(b, k, Units(v))
<1>1. k \in Keys /\ v \in Vals
  BY DEF MapInv, Insert
<1>2. val_size \in Nat /\ MaxCollision \in Nat
  BY HashMapAssumption DEF MapInv
<1>3. /\ Index(k, bucket_count) = x /\ x \in 0 .. c - 1 /\ b = ring[x] /\ b \in Buckets
      /\ Belong(b, x, c)
  BY <1>1, BucketOfKey
<1>4. Len(b.keys) < MaxCollision
  BY DEF Insert, HasRoom
<1>5. ring' = [ring EXCEPT ![x] = p]
  <2>1. ring' = [ring EXCEPT ![Index(k, bucket_count)] = Push(ring[Index(k, bucket_count)], k, Units(v))]
    BY DEF Insert
  <2> HIDE DEF k, v, x, b
  <2>2. QED
    BY <1>3, <2>1
<1>6. Units(v) \in [1 .. val_size -> Unit]
  BY <1>1, <1>2 DEF Units, Unit
<1>7. Hash[k] % c = x
  OBVIOUS
<1> HIDE DEF k, v, x, b
<1>8. p \in Buckets /\ p.keys = Append(b.keys, k)
  BY <1>1, <1>2, <1>3, <1>6, PushType
<1> HIDE DEF p
<1>9. b.keys \in Seq(Keys) /\ Len(b.keys) \in Nat
  BY <1>3 DEF Buckets
<1>10. /\ Len(p.keys) = Len(b.keys) + 1 /\ p.keys[Len(b.keys) + 1] = k
       /\ \A j \in 1 .. Len(b.keys) : p.keys[j] = b.keys[j]
  BY <1>1, <1>8, <1>9, AppendFacts
<1>11. Len(p.keys) =< MaxCollision
  BY <1>2, <1>4, <1>9, <1>10
<1>12. Belong(p, x, c)
  <2> DEFINE l == Len(b.keys)
  <2> SUFFICES ASSUME NEW j \in 1 .. l + 1 PROVE Hash[p.keys[j]] % c = x
    BY <1>10 DEF Belong
  <2>1. CASE j = l + 1
    BY <1>7, <1>10, <2>1
  <2>2. CASE j # l + 1
    <3>1. j \in 1 .. l
      <4>1. l \in Nat
        BY <1>9
      <4> HIDE DEF l
      <4>2. QED
        BY <2>2, <4>1
    <3>2. QED
      BY <1>3, <1>10, <3>1 DEF Belong
  <2>3. QED
    BY <2>1, <2>2
<1>13. QED
  BY <1>3, <1>5, <1>8, <1>11, <1>12, SoundSet

\* hashmap_remove leaves the other entries of the bucket.
LEMMA RemoveKeeps ==
    ASSUME MapInv, NEW k \in Keys, hashmap_remove(k), NEW c \in Nat \ {0}, Sound(ring, c)
    PROVE  Sound(ring', c)
<1> DEFINE x == Hash[k] % c
           b == BucketOf(k)
           p == IF Len(b.keys) = 1 THEN NoBucket ELSE Without(b, FirstHit(b, k))
<1>1. val_size \in Nat /\ MaxCollision \in Nat
  BY HashMapAssumption DEF MapInv
<1>2. /\ Index(k, bucket_count) = x /\ x \in 0 .. c - 1 /\ b \in Buckets
      /\ Belong(b, x, c) /\ Len(b.keys) =< MaxCollision
  BY BucketOfKey
<1>3. ring' = [ring EXCEPT ![x] = p]
  <2> HIDE DEF x
  <2>1. QED
    BY <1>2 DEF hashmap_remove
<1>4. FirstHit(b, k) \in 0 .. Len(b.keys) - 1
  BY <1>2, FirstHitIn DEF hashmap_remove
<1> HIDE DEF x, b
<1>5. CASE Len(b.keys) = 1
  <2>1. p = NoBucket
    BY <1>5
  <2> HIDE DEF p
  <2>2. Belong(p, x, c) /\ Len(p.keys) =< MaxCollision /\ p \in Buckets
    BY <1>1, <2>1, NoBucketFacts DEF Belong
  <2>3. QED
    BY <1>2, <1>3, <2>2, SoundSet
<1>6. CASE Len(b.keys) # 1
  <2>1. p = Without(b, FirstHit(b, k))
    BY <1>6
  <2> HIDE DEF p
  <2>2. /\ p \in Buckets /\ Len(p.keys) = Len(b.keys) - 1
        /\ \A n \in 1 .. Len(b.keys) - 1 : \E m \in 1 .. Len(b.keys) : p.keys[n] = b.keys[m]
    BY <1>1, <1>2, <1>4, <2>1, WithoutType
  <2>3. Len(b.keys) \in Nat
    BY <1>2 DEF Buckets
  <2>4. Len(p.keys) =< MaxCollision
    BY <1>1, <1>2, <2>2, <2>3
  <2>5. Belong(p, x, c)
    <3> SUFFICES ASSUME NEW n \in 1 .. Len(b.keys) - 1 PROVE Hash[p.keys[n]] % c = x
      BY <2>2 DEF Belong
    <3>1. PICK m \in 1 .. Len(b.keys) : p.keys[n] = b.keys[m]
      BY <2>2
    <3>2. QED
      BY <1>2, <3>1 DEF Belong
  <2>6. QED
    BY <1>2, <1>3, <2>2, <2>4, <2>5, SoundSet
<1>7. QED
  BY <1>5, <1>6

\* create_hashmap
LEMMA MapInvInit == MapInit => MapInv
<1> SUFFICES ASSUME MapInit PROVE MapInv
  OBVIOUS
<1>1. <<key_size, val_size>> \in Sizes
  <2>1. PICK s \in Sizes : key_size = s[1] /\ val_size = s[2]
    BY DEF MapInit
  <2>2. s \in Nat \X Nat
    BY HashMapAssumption
  <2>3. QED
    BY <2>1, <2>2
<1>2. InitialSize \in Nat /\ 0 \in 0 .. MaxCap
  BY HashMapAssumption
<1>3. Sound(ring, Capacity[0])
  <2> HIDE DEF Capacity
  <2>1. ring = EmptyRing(Capacity[0])
    BY CapacityFacts DEF MapInit
  <2>2. QED
    BY <1>2, <2>1, CapacityFacts, EmptySound
<1> HIDE DEF Capacity
<1>4. QED
  BY <1>1, <1>2, <1>3 DEF MapInv, MapInit

\* Every operation of the map keeps the ring sound, at the capacity it had or the next.
LEMMA MapInvNext == MapInv /\ MapNext => MapInv'
<1> SUFFICES ASSUME MapInv, MapNext PROVE MapInv'
  OBVIOUS
<1> USE DEF MapInv
<1> HIDE DEF Capacity
<1>1. PICK n \in 0 .. MaxCap : Sound(ring, Capacity[n])
  OBVIOUS
<1> DEFINE c == Capacity[n]
<1>2. c \in Nat \ {0} /\ n \in Nat /\ n < c /\ MaxCap \in Nat
  BY CapacityFacts, HashMapAssumption
<1>3. key_size \in Nat /\ val_size \in Nat
  BY HashMapAssumption
<1>4. ASSUME NEW k \in Keys, NEW v \in Vals, hashmap_insert(k, v) PROVE MapInv'
  <2>1. /\ pending' = <<k, v>> /\ <<k, v>> \in Keys \X Vals /\ ring' = ring
        /\ key_size' = key_size /\ val_size' = val_size
    BY <1>4 DEF hashmap_insert
  <2>2. QED
    BY <1>1, <2>1
<1>5. CASE Insert
  <2>1. Sound(ring', c)
    <3> HIDE DEF MapInv
    <3>1. QED
      BY <1>1, <1>2, <1>5, InsertKeeps
  <2>2. pending' = NoEntry /\ key_size' = key_size /\ val_size' = val_size
    BY <1>5 DEF Insert
  <2>3. QED
    BY <2>1, <2>2
<1>6. CASE hashmap_grow
  <2>1. Sound(ring', 2 * c)
    <3> HIDE DEF c
    <3>1. Sound(Rehashed, 2 * c)
      BY <1>1, <1>2, <1>3, RehashSpreads DEF c
    <3>2. QED
      BY <1>6, <3>1 DEF hashmap_grow
  <2>2. bucket_count = c
    BY <1>1, <1>2, RingLength DEF bucket_count, Sound
  <2>3. n + 1 \in 0 .. MaxCap /\ n + 1 \in 1 .. MaxCap
    BY <1>2, <1>6, <2>2 DEF hashmap_grow
  <2>4. Capacity[n + 1] = 2 * c
    <3>1. Capacity[n + 1] = 2 * Capacity[(n + 1) - 1]
      BY <2>3, CapacityFacts
    <3>2. (n + 1) - 1 = n
      BY <1>2
    <3>3. QED
      BY <3>1, <3>2
  <2>5. pending' = pending /\ key_size' = key_size /\ val_size' = val_size
    BY <1>6 DEF hashmap_grow
  <2>6. \E m \in 0 .. MaxCap : Sound(ring', Capacity[m])
    BY <2>1, <2>3, <2>4
  <2>7. QED
    BY <2>5, <2>6
<1>7. ASSUME NEW k \in Keys, hashmap_remove(k) PROVE MapInv'
  <2>1. Sound(ring', c)
    <3> HIDE DEF MapInv
    <3>1. QED
      BY <1>1, <1>2, <1>7, RemoveKeeps
  <2>2. pending' = pending /\ key_size' = key_size /\ val_size' = val_size
    BY <1>7 DEF hashmap_remove
  <2>3. QED
    BY <2>1, <2>2
<1>8. QED
  BY <1>4, <1>5, <1>6, <1>7 DEF MapNext

\* The invariant says what the property says.
LEMMA MapInvBounds == MapInv => BucketsBounded
<1> SUFFICES ASSUME MapInv PROVE BucketsBounded
  OBVIOUS
<1> HIDE DEF Capacity
<1>1. PICK n \in 0 .. MaxCap : Sound(ring, Capacity[n])
  BY DEF MapInv
<1> DEFINE c == Capacity[n]
<1>2. c \in Nat /\ ring \in Rings(c)
  BY <1>1, CapacityFacts DEF Sound
<1>3. bucket_count = c
  BY <1>2, RingLength DEF bucket_count
<1>4. ASSUME NEW i \in 0 .. c - 1
      PROVE  /\ ring[i].keys \in Seq(Keys) /\ Len(ring[i].keys) =< MaxCollision
             /\ \A k \in Range(ring[i].keys) : i = Hash[k] % c
  <2>1. ring[i].keys \in Seq(Keys)
    BY <1>2 DEF Rings, Buckets
  <2>2. Len(ring[i].keys) =< MaxCollision /\ Belong(ring[i], i, c)
    BY <1>1 DEF Sound
  <2>3. ASSUME NEW k \in Range(ring[i].keys) PROVE i = Hash[k] % c
    <3>1. PICK j \in 1 .. Len(ring[i].keys) : k = ring[i].keys[j]
      BY <2>1, <2>3 DEF Range
    <3>2. QED
      BY <2>2, <3>1 DEF Belong
  <2>4. QED
    BY <2>1, <2>2, <2>3
<1>5. QED
  BY <1>3, <1>4 DEF BucketsBounded, MapInv

\* No bucket of the hash map ever holds more entries than its arrays have room for,
\* every entry stays in the bucket its hash names and the ring has a size that doubling
\* reaches, for every hash function, every bucket size and every mix of insertions,
\* growth and removals: hashmap_grow may skip the check for room that hashmap_insert makes.
THEOREM BucketsStayBounded == ContainersSpec => []BucketsBounded
<1>1. ContainersInit => MapInv
  BY MapInvInit DEF ContainersInit
<1>2. MapInv /\ [ContainersNext]_allVars => MapInv'
  <2> SUFFICES ASSUME MapInv, [ContainersNext]_allVars PROVE MapInv'
    OBVIOUS
  <2>1. CASE used = "map" /\ MapNext
    BY <2>1, MapInvNext
  <2>2. CASE UNCHANGED mapVars
    BY <2>2 DEF mapVars, MapInv, Sound
  <2>3. [ContainersNext]_allVars => (used = "map" /\ MapNext) \/ UNCHANGED mapVars
    BY DEF ContainersNext, allVars
  <2>4. QED
    BY <2>1, <2>2, <2>3
<1>3. QED
  BY <1>1, <1>2, MapInvBounds, PTL DEF ContainersSpec
=============================================================================
