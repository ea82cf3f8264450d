------------------------------- MODULE HashMap -------------------------------
(***************************************************************************)
(* The hash map of hashmap.c: a ring of buckets with room for a few        *)
(* entries each, which doubles until the bucket of a new entry has room.   *)
(* The values of a bucket are one array of units, val_size of them for     *)
(* each entry, as the code copies values at offsets it computes.           *)
(***************************************************************************)
EXTENDS Integers, Sequences, FiniteSets, SequencesExt

CONSTANTS Keys, Vals,
          Hash,          \* hash_write of each key
          Sizes,         \* <<key_size, val_size>> given to create_hashmap
          InitialSize,   \* INITIAL_HASHMAP_SIZE
          MaxCollision,  \* HASHMAP_MAX_COLLISION_COUNT
          MaxEntries,    \* bound: entries at a time
          MaxCap,        \* bound: capacity, where all bits of the hashes are in use
          NoEntry, Junk  \* no key or value, and memory outside an array

ASSUME HashMapAssumption ==
    /\ MaxCap \in Nat /\ Hash \in [Keys -> 0 .. MaxCap - 1] /\ Sizes \subseteq Nat \X Nat
    /\ InitialSize \in 1 .. MaxCap /\ MaxCollision \in Nat \ {0}
    /\ NoEntry \notin Keys \cup Vals

VARIABLES key_size, val_size, ring,
          pending,  \* the key and value hashmap_insert is at work on
          order     \* per key, its values in the order of insertion (not in the code)

mapVars == <<key_size, val_size, ring, pending, order>>

NoBucket == [keys |-> <<>>, values |-> <<>>]
EmptyRing(c) == [i \in 0 .. c - 1 |-> NoBucket]
bucket_count == Cardinality(DOMAIN ring)

\* hash & (bucket_count - 1), for a power of two.
Index(k, c) == Hash[k] % c

Units(v) == [u \in 1 .. val_size |-> <<v, u>>]

\* What memcpy reads at an offset of an array.
Slice(array, offset) ==
    [u \in 1 .. val_size |-> IF offset + u \in DOMAIN array THEN array[offset + u] ELSE Junk]

\* An entry behind the others of its bucket; the first one allocates the arrays.
Push(b, k, units) ==
    LET n == Len(b.keys)
        array == IF n = 0 THEN [u \in 1 .. MaxCollision * val_size |-> Junk] ELSE b.values
    IN [keys |-> Append(b.keys, k),
        values |-> [u \in DOMAIN array |->
                      IF u \in n * val_size + 1 .. (n + 1) * val_size
                      THEN units[u - n * val_size] ELSE array[u]]]

\* create_hashmap
MapInit ==
    /\ \E s \in Sizes : key_size = s[1] /\ val_size = s[2]
    /\ ring = EmptyRing(InitialSize)
    /\ pending = NoEntry
    /\ order = [k \in Keys |-> <<>>]

-----------------------------------------------------------------------------
\* All entries, bucket by bucket.
Entries ==
    FlattenSeq([i \in 1 .. bucket_count |->
      [j \in 1 .. Len(ring[i - 1].keys) |-> [bucket |-> i - 1, j |-> j - 1, key |-> ring[i - 1].keys[j]]]])

\* A mistake: the entries stay in the bucket with the number they had.
RehashedInPlace == [i \in 0 .. 2 * bucket_count - 1 |-> IF i < bucket_count THEN ring[i] ELSE NoBucket]

\* The inner loop of hashmap_grow, over the entries of bucket i; a value is found by
\* the size of a key.
Moved(new, i) ==
    LET keys == ring[i].keys
        acc[n \in 0 .. Len(keys)] ==
          IF n = 0 THEN new
          ELSE [acc[n - 1] EXCEPT ![Index(keys[n], 2 * bucket_count)] =
                  Push(@, keys[n], Slice(ring[i].values, (n - 1) * key_size))]
    IN acc[Len(keys)]

\* The ring hashmap_grow builds.
Rehashed ==
    LET acc[n \in 0 .. bucket_count] ==
          IF n = 0 THEN EmptyRing(2 * bucket_count) ELSE Moved(acc[n - 1], n - 1)
    IN acc[bucket_count]

BucketOf(k) == ring[Index(k, bucket_count)]

\* A mistake: one entry too many.
HasRoomForOneMore(k) == Len(BucketOf(k).keys) =< MaxCollision

HasRoom(k) == Len(BucketOf(k).keys) < MaxCollision

\* The call of hashmap_insert.
hashmap_insert(k, v) ==
    /\ pending = NoEntry
    /\ Len(Entries) < MaxEntries
    /\ pending' = <<k, v>>
    /\ UNCHANGED <<key_size, val_size, ring, order>>

\* Its loop: put the entry into its bucket and return, or grow and try again.
Insert ==
    LET k == pending[1] IN
    /\ pending # NoEntry /\ HasRoom(k)
    /\ ring' = [ring EXCEPT ![Index(k, bucket_count)] = Push(@, k, Units(pending[2]))]
    /\ order' = [order EXCEPT ![k] = Append(@, pending[2])]
    /\ pending' = NoEntry
    /\ UNCHANGED <<key_size, val_size>>

hashmap_grow ==
    /\ pending # NoEntry /\ ~HasRoom(pending[1])
    /\ bucket_count < MaxCap
    /\ ring' = Rehashed
    /\ UNCHANGED <<key_size, val_size, pending, order>>

-----------------------------------------------------------------------------
\* The first entry of bucket b with key k, counted from 0.
Hits(b, k) == {j \in 0 .. Len(b.keys) - 1 : b.keys[j + 1] = k}
FirstHit(b, k) == CHOOSE j \in Hits(b, k) : \A l \in Hits(b, k) : j =< l

hashmap_empty == \A i \in DOMAIN ring : ring[i].keys = <<>>

hashmap_get(k) ==
    IF Hits(BucketOf(k), k) = {} THEN NoEntry
    ELSE Slice(BucketOf(k).values, FirstHit(BucketOf(k), k) * val_size)

\* The value hashmap_find returns, searching from bucket i and, in each bucket,
\* from entry j; fn is the set of keys and values its test accepts.
hashmap_find(fn, i, j) ==
    LET tested == SelectSeq(Entries, LAMBDA e :
                    /\ e.bucket >= i /\ e.j >= j
                    /\ <<e.key, Slice(ring[e.bucket].values, e.j * val_size)>> \in fn)
    IN IF tested = <<>> THEN NoEntry
       ELSE Slice(ring[tested[1].bucket].values, tested[1].j * val_size)

\* A mistake: the values are not moved up with the keys.
WithoutKey(b, j) == [keys |-> RemoveAt(b.keys, j + 1), values |-> b.values]

\* Bucket b without entry j; the loop also reads the entry behind the last one.
Without(b, j) ==
    [keys |-> RemoveAt(b.keys, j + 1),
     values |-> [u \in DOMAIN b.values |->
                   IF u \in j * val_size + 1 .. Len(b.keys) * val_size
                   THEN IF u + val_size \in DOMAIN b.values THEN b.values[u + val_size] ELSE Junk
                   ELSE b.values[u]]]

\* Nothing happens for a key that is not there.
hashmap_remove(k) ==
    /\ pending = NoEntry
    /\ Hits(BucketOf(k), k) # {}
    /\ LET b == BucketOf(k)
       IN ring' = [ring EXCEPT ![Index(k, bucket_count)] =
                     IF Len(b.keys) = 1 THEN NoBucket ELSE Without(b, FirstHit(b, k))]
    /\ order' = [order EXCEPT ![k] = Tail(@)]
    /\ UNCHANGED <<key_size, val_size, pending>>

MapNext ==
    \/ \E k \in Keys, v \in Vals : hashmap_insert(k, v)
    \/ Insert
    \/ hashmap_grow
    \/ \E k \in Keys : hashmap_remove(k)

\* The caller of hashmap_insert runs until it returns.
MapFairness == WF_mapVars(Insert \/ hashmap_grow)

-----------------------------------------------------------------------------
\* The size after growing n times.
Capacity[n \in 0 .. MaxCap] == IF n = 0 THEN InitialSize ELSE 2 * Capacity[n - 1]

\* Every variable keeps its type, and no bucket ever holds more than its arrays
\* have room for: growing spreads the entries of one bucket over two and never
\* fills one from two.
BucketsBounded ==
    /\ \E n \in 0 .. MaxCap : bucket_count = Capacity[n]
    /\ <<key_size, val_size>> \in Sizes
    /\ pending \in {NoEntry} \cup (Keys \X Vals)
    /\ \A i \in 0 .. bucket_count - 1 : /\ ring[i].keys \in Seq(Keys) /\ Len(ring[i].keys) =< MaxCollision
                                        /\ \A k \in Range(ring[i].keys) : i = Hash[k] % bucket_count

\* "Gets the value associated with the given key", "Finds a hashmap value that
\* matches": between calls, hashmap_get returns the oldest value inserted for a key
\* and not removed, through collisions, removals and growth, a search from the start
\* finds a value exactly if some entry has it, and the map says it is empty exactly if
\* no entry is left.  Growing loses values if keys and values have different sizes, as
\* it looks for value j at offset j * key_size.
LookupsAgree ==
    pending = NoEntry /\ (key_size = val_size \/ bucket_count = InitialSize) =>
       /\ \A k \in Keys : hashmap_get(k) = IF order[k] = <<>> THEN NoEntry ELSE Units(order[k][1])
       /\ hashmap_empty <=> \A k \in Keys : order[k] = <<>>
       /\ \A v \in Vals : hashmap_find(Keys \X {Units(v)}, 0, 0) =
                             IF \E k \in Keys : v \in Range(order[k]) THEN Units(v) ELSE NoEntry

\* hashmap_insert returns, unless its bucket is full of entries with the very hash of
\* the new key, which no growth can part.
SameHash(k) == {e \in Range(Entries) : Hash[e.key] = Hash[k]}
InsertEnds ==
    (pending # NoEntry /\ Cardinality(SameHash(pending[1])) < MaxCollision) ~> pending = NoEntry
==============================================================================
