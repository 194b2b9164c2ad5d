----------------------------- MODULE HandlesMap -----------------------------
(***************************************************************************)
(* The chained hash table of store/HandlesMap.c.                           *)
(*                                                                         *)
(* table     map->table: bucket index -> chain, head first, of the entries *)
(*           [key, value];                                                 *)
(* capacity  map->capacity, size map->size, threshold map->threshold;      *)
(* ret       what the last call returning a handle or a size returned;     *)
(* listed    the array the last HandlesMap_keys or HandlesMap_values       *)
(*           returned;                                                     *)
(* phase     "live", "crashed" once an ASSERT failed (CStore_assert        *)
(*           dereferences a null pointer), "disposed" after dispose.       *)
(*                                                                         *)
(* Every call runs to completion: the map has no lock and its callers own  *)
(* it, so the model is a sequence of whole calls.                          *)
(***************************************************************************)
EXTENDS Integers, Sequences, FiniteSets, SequencesExt, Bitwise

CONSTANTS
    Keys,              \* the handles used as keys (non-zero jints)
    Values,            \* the handles stored as values (non-zero jints)
    InitialLoads,      \* the initialLoadSize arguments given to create
    MAXIMUM_CAPACITY,  \* 1 << 30 in the code, scaled down
    MaxSize            \* bound on map->size, so that puts stop

ASSUME MAXIMUM_CAPACITY \in {2^i : i \in 0..16}

VARIABLES table, capacity, size, threshold, ret, listed, phase

vars == <<table, capacity, size, threshold, ret, listed, phase>>

\* MAXIMUM_SIZE: INT_MAX on the non-Windows build.
MAXIMUM_SIZE == 2147483647

(***************************************************************************)
(* The hash_t arithmetic of _indexFor, an unsigned 32-bit word kept as two *)
(* 16-bit halves so that it stays within TLC's integers.                   *)
(***************************************************************************)
Word(k) == [hi |-> (k \div 65536) % 65536, lo |-> k % 65536]

WordAdd(a, b) ==
    LET s == a.lo + b.lo
    IN  [hi |-> (a.hi + b.hi + s \div 65536) % 65536, lo |-> s % 65536]

WordShl(a, n) ==
    [hi |-> (a.hi * 2^n + a.lo \div 2^(16 - n)) % 65536, lo |-> (a.lo * 2^n) % 65536]

WordShr(a, n) ==
    [hi |-> a.hi \div 2^n, lo |-> a.lo \div 2^n + (a.hi % 2^n) * 2^(16 - n)]

WordNot(a) == [hi |-> 65535 - a.hi, lo |-> 65535 - a.lo]

WordXor(a, b) == [hi |-> a.hi ^^ b.hi, lo |-> a.lo ^^ b.lo]

\* The scramble of _indexFor: the key converted to hash_t, then four steps.
Scramble(key) ==
    LET h1 == WordAdd(Word(key), WordNot(WordShl(Word(key), 9)))
        h2 == WordXor(h1, WordShr(h1, 14))
        h3 == WordAdd(h2, WordShl(h2, 4))
    IN  WordXor(h3, WordShr(h3, 10))

\* The low half of every key's hash, computed once.
HashLo == [k \in Keys |-> Scramble(k).lo]

\* hash & (capacity - 1); the capacity is a power of two <= 2^16.
_indexFor(cap, key) == HashLo[key] % cap

\* The entries in the order the loops over buckets and chains visit them.
Entries(tbl, cap) == FlattenSeq([i \in 1..cap |-> tbl[i - 1]])

EmptyTable(cap) == [i \in 0..cap - 1 |-> <<>>]

\* The position of key in chain, 0 when it is not there.
Find(chain, key) == SelectInSeq(chain, LAMBDA e : e.key = key)

\* A mutant of _rehash: entries stay at the index of the old capacity.
_rehashOldIndex(tbl, cap) ==
    IF cap = MAXIMUM_CAPACITY
    THEN [table |-> tbl, capacity |-> cap, threshold |-> MAXIMUM_SIZE]
    ELSE LET push(t, e) == [t EXCEPT ![_indexFor(cap, e.key)] = Cons(e, @)]
         IN  [table |-> FoldLeft(push, EmptyTable(2 * cap), Entries(tbl, cap)),
              capacity |-> 2 * cap, threshold |-> (2 * cap * 3) \div 4]

\* A mutant of _rehash: the capacity is doubled past MAXIMUM_CAPACITY.
_rehashUncapped(tbl, cap) ==
    LET push(t, e) == [t EXCEPT ![_indexFor(2 * cap, e.key)] = Cons(e, @)]
    IN  [table |-> FoldLeft(push, EmptyTable(2 * cap), Entries(tbl, cap)),
         capacity |-> 2 * cap, threshold |-> (2 * cap * 3) \div 4]

(***************************************************************************)
(* _rehash: at MAXIMUM_CAPACITY only the threshold moves; otherwise the    *)
(* capacity doubles and every entry, bucket by bucket and head first, is   *)
(* pushed onto the head of its bucket in the new table.  The old table is  *)
(* not freed.                                                              *)
(***************************************************************************)
_rehash(tbl, cap) ==
    IF cap = MAXIMUM_CAPACITY
    THEN [table |-> tbl, capacity |-> cap, threshold |-> MAXIMUM_SIZE]
    ELSE LET push(t, e) == [t EXCEPT ![_indexFor(2 * cap, e.key)] = Cons(e, @)]
         IN  [table |-> FoldLeft(push, EmptyTable(2 * cap), Entries(tbl, cap)),
              capacity |-> 2 * cap, threshold |-> (2 * cap * 3) \div 4]

\* A mutant of Grown: the size is compared before it is incremented.
GrownPostIncrement(tbl, newSize) ==
    IF newSize - 1 > threshold
    THEN _rehash(tbl, capacity)
    ELSE [table |-> tbl, capacity |-> capacity, threshold |-> threshold]

\* "if (++map->size > map->threshold) _rehash(map);"
Grown(tbl, newSize) ==
    IF newSize > threshold
    THEN _rehash(tbl, capacity)
    ELSE [table |-> tbl, capacity |-> capacity, threshold |-> threshold]

\* The smallest power of two at least n (the loop of HandlesMap_create).
CapacityFor(n) == CHOOSE c \in {2^i : i \in 0..16} : c >= n /\ (c = 1 \/ c \div 2 < n)

(***************************************************************************)
(* HandlesMap_create(initialLoadSize): initialCapacity is                  *)
(* 1 + (int) (initialLoadSize / 0.75); the ASSERT that it is at most       *)
(* MAXIMUM_CAPACITY crashes the process before a map exists, so only the   *)
(* loads that pass it start a map.                                         *)
(***************************************************************************)
Init ==
    \E load \in InitialLoads :
        LET initialCapacity == 1 + (load * 4) \div 3
            cap == CapacityFor(initialCapacity)
        IN  /\ initialCapacity <= MAXIMUM_CAPACITY
            /\ capacity = cap
            /\ size = 0
            /\ threshold = (cap * 3) \div 4
            /\ table = EmptyTable(cap)
            /\ ret = 0
            /\ listed = <<>>
            /\ phase = "live"

\* A mutant of HandlesMap_put: a new entry is added without scanning the chain.
HandlesMap_putNoScan(key, value) ==
    LET index == _indexFor(capacity, key)
        r == Grown([table EXCEPT ![index] = Cons([key |-> key, value |-> value], @)],
                   size + 1)
    IN  /\ phase = "live"
        /\ size < MaxSize
        /\ table' = r.table /\ capacity' = r.capacity /\ threshold' = r.threshold
        /\ size' = size + 1
        /\ ret' = 0
        /\ UNCHANGED <<listed, phase>>

(***************************************************************************)
(* HandlesMap_put: an entry with the key gets the new value and the old   *)
(* one is returned; otherwise a new entry goes at the head of the chain,  *)
(* the size grows and may trigger _rehash, and 0 is returned.             *)
(***************************************************************************)
HandlesMap_put(key, value) ==
    LET index == _indexFor(capacity, key)
        pos == Find(table[index], key)
        r == Grown([table EXCEPT ![index] = Cons([key |-> key, value |-> value], @)],
                   size + 1)
    IN  /\ phase = "live"
        /\ size < MaxSize
        /\ IF pos # 0
           THEN /\ ret' = table[index][pos].value
                /\ table' = [table EXCEPT ![index][pos].value = value]
                /\ UNCHANGED <<capacity, size, threshold>>
           ELSE /\ table' = r.table /\ capacity' = r.capacity /\ threshold' = r.threshold
                /\ size' = size + 1
                /\ ret' = 0
        /\ UNCHANGED <<listed, phase>>

(***************************************************************************)
(* HandlesMap_remove: unlinks the entry with the key and returns its      *)
(* value.  When the entry heads its chain the code sets the bucket to     *)
(* NULL, not to entry->next.                                               *)
(***************************************************************************)
HandlesMap_remove(key) ==
    LET index == _indexFor(capacity, key)
        chain == table[index]
        pos == Find(chain, key)
    IN  /\ phase = "live"
        /\ IF pos # 0
           THEN /\ ret' = chain[pos].value
                /\ table' = [table EXCEPT ![index] =
                                IF pos > 1 THEN RemoveAt(chain, pos) ELSE <<>>]
                /\ size' = size - 1
           ELSE /\ ret' = 0
                /\ UNCHANGED <<table, size>>
        /\ UNCHANGED <<capacity, threshold, listed, phase>>

\* What HandlesMap_get(key) returns in a table of capacity cap.
Lookup(tbl, cap, key) ==
    LET chain == tbl[_indexFor(cap, key)]
        pos == Find(chain, key)
    IN  IF pos # 0 THEN chain[pos].value ELSE 0

HandlesMap_get(key) ==
    /\ phase = "live"
    /\ ret' = Lookup(table, capacity, key)
    /\ UNCHANGED <<table, capacity, size, threshold, listed, phase>>

HandlesMap_size ==
    /\ phase = "live"
    /\ ret' = size
    /\ UNCHANGED <<table, capacity, size, threshold, listed, phase>>

HandlesMap_clear ==
    /\ phase = "live"
    /\ table' = EmptyTable(capacity)
    /\ size' = 0
    /\ UNCHANGED <<capacity, threshold, ret, listed, phase>>

(***************************************************************************)
(* HandlesMap_keys and HandlesMap_values walk every chain into an array   *)
(* of map->size slots.  The ASSERTs that the walk found exactly size      *)
(* entries crash the process when it did not.                             *)
(***************************************************************************)
Listing(field) ==
    LET all == Entries(table, capacity)
    IN  /\ phase = "live"
        /\ IF Len(all) = size
           THEN /\ listed' = [i \in 1..Len(all) |-> all[i][field]]
                /\ UNCHANGED phase
           ELSE /\ phase' = "crashed"
                /\ UNCHANGED listed
        /\ UNCHANGED <<table, capacity, size, threshold, ret>>

HandlesMap_keys == Listing("key")

HandlesMap_values == Listing("value")

\* HandlesMap_dispose: clears the map, then frees the table and the map.
HandlesMap_dispose ==
    /\ phase = "live"
    /\ table' = EmptyTable(capacity)
    /\ size' = 0
    /\ phase' = "disposed"
    /\ UNCHANGED <<capacity, threshold, ret, listed>>

Next ==
    \/ \E k \in Keys, v \in Values : HandlesMap_put(k, v)
    \/ \E k \in Keys : HandlesMap_remove(k) \/ HandlesMap_get(k)
    \/ HandlesMap_size \/ HandlesMap_clear
    \/ HandlesMap_keys \/ HandlesMap_values
    \/ HandlesMap_dispose

Spec == Init /\ [][Next]_vars

-----------------------------------------------------------------------------
(***************************************************************************)
(* The map refines HandlesMapAbstract: the abstract contents of a key is  *)
(* what HandlesMap_get returns for it.                                     *)
(***************************************************************************)
AbsMap == INSTANCE HandlesMapAbstract
              WITH contents <- [k \in Keys |-> Lookup(table, capacity, k)]

\* Every sequence of calls is one the int -> int partial function allows:
\* after remove, get of every other key still returns its last put value.
Refines == AbsMap!AbsSpec

Entry == [key : Keys, value : Values]

\* The table's shape: a power-of-two capacity at most MAXIMUM_CAPACITY,
\* one chain per bucket, and the results drawn from the handles.
TypeOK ==
    /\ capacity \in {2^i : i \in 0..16} /\ capacity <= MAXIMUM_CAPACITY
    /\ table \in [0..capacity - 1 -> Seq(Entry)]
    /\ size \in 0..MaxSize
    /\ ret \in Values \cup {0} \cup 0..MaxSize
    /\ phase \in {"live", "crashed", "disposed"}

\* _indexFor agrees with where put and _rehash placed an entry: every entry
\* sits in the bucket its key hashes to at the current capacity.
BucketPlacement ==
    \A i \in DOMAIN table : \A j \in 1..Len(table[i]) :
        _indexFor(capacity, table[i][j].key) = i

\* No key has two entries, across all buckets, whatever puts, rehashes and
\* removes came before.
NoDuplicateKeys ==
    LET all == Entries(table, capacity)
    IN  \A i, j \in 1..Len(all) : i # j => all[i].key # all[j].key

\* The load factor holds: put rehashes before map->size passes the
\* threshold, as long as the capacity can still grow.
SizeWithinThreshold == size <= threshold
=============================================================================
