------------------------------ MODULE FileCache ------------------------------
(***************************************************************************)
(* src/cache.rs: the LRU file cache of the server, bounded by entry count  *)
(* and by bytes, together with the callers of src/client.rs that make an   *)
(* encoding of a cached file and charge it to the cache.                   *)
(*                                                                         *)
(* Every method of FileCache runs under one mutex, so each is one action.  *)
(* What interleaves is between the calls: a worker takes a CachedFile out  *)
(* (get or insert), makes its gzip encoding in the OnceLock it shares with *)
(* every other holder of that file, and only then calls add_encoding.  In  *)
(* between the entry may have been evicted, replaced, or encoded by        *)
(* someone else.                                                           *)
(*                                                                         *)
(* Contents are abstracted to their length.  An Arc<Encodings> is named by *)
(* the sequence number its insert used, which no other insert ever uses.   *)
(***************************************************************************)
EXTENDS Integers, FiniteSets

CONSTANTS Keys,         \* cache keys
          Workers,      \* threads that serve requests
          Lens,         \* lengths of the files callers store
          EncodedLens,  \* lengths gzip may produce
          MaxSize,      \* max_size: entries
          MaxMemory,    \* max_memory_bytes
          KeepShare,    \* one entry may take 1/KeepShare of the budget (code: 10)
          MaxSeq,       \* bound of the model on next_seq
          MaxMisses     \* bound of the model on misses

ASSUME ConstantsAssumption ==
    /\ Lens \subseteq Nat
    /\ EncodedLens \subseteq Nat \ {0}
    /\ MaxSize \in Nat
    /\ MaxMemory \in Nat
    /\ KeepShare \in Nat /\ KeepShare >= 2
    /\ MaxSeq \in Nat
    /\ MaxMisses \in Nat

VARIABLES map,             \* Inner::map: key -> entry
          order,           \* Inner::order: seq -> key, oldest first
          current_memory,  \* Inner::current_memory
          next_seq,        \* Inner::next_seq
          hits,
          misses,
          slot,            \* the gzip OnceLock of each Arc<Encodings>
          held,            \* the CachedFile a worker holds: none, or one
          made             \* bytes of an encoding made and not yet charged

inner == <<map, order, current_memory, next_seq>>
vars == <<inner, hits, misses, slot, held, made>>

Unset  == -1  \* OnceLock not initialised
NoGain == 0   \* tried, came out no smaller: Some(None)
NoArc  == -1  \* the encodings of a file the cache does not keep

Entry == [arc : Nat, len : Nat, size : Nat, seq : Nat]
File  == [key : Keys, arc : Int, len : Nat]

Init ==
    /\ map = [k \in {} |-> 0]
    /\ order = [s \in {} |-> 0]
    /\ current_memory = 0
    /\ next_seq = 0
    /\ hits = 0
    /\ misses = 0
    /\ slot = [a \in {} |-> 0]
    /\ held = [w \in Workers |-> {}]
    /\ made = [w \in Workers |-> 0]

-----------------------------------------------------------------------------
(* Helpers on partial functions and on the accounting.                     *)

Bind(f, x, v) == [y \in DOMAIN f \cup {x} |-> IF y = x THEN v ELSE f[y]]
Without(f, S) == [y \in DOMAIN f \ S |-> f[y]]

\* The bytes of the entries under the keys of S, each byte named by its key
\* and position, so that they can be counted.
BytesOf(m, S) == UNION {{k} \X (1 .. m[k].size) : k \in S}
MemoryOf(m, S) == Cardinality(BytesOf(m, S))

\* keeps: no single file may own more than its share of the budget.
KeepsAnything(n) == MaxSize # 0
Keeps(n) == MaxSize # 0 /\ KeepShare * n <= MaxMemory

\* evict_oldest, repeated: the keys that are gone once every entry of ord
\* with a sequence number below c has been evicted.
Evicted(ord, c) == {order[s] : s \in {t \in ord : t < c}}

\* A `while !Room { evict_oldest }` loop over ord stops at c: there is room at
\* c, and there was none after any smaller number of evictions.
LoopStops(ord, c, Room(_)) ==
    /\ Room(Evicted(ord, c))
    /\ \A d \in 0 .. c :
          Evicted(ord, d) # Evicted(ord, c) => ~ Room(Evicted(ord, d))

IsIdle(w) == held[w] = {} /\ made[w] = 0

-----------------------------------------------------------------------------
(* The operations.                                                         *)

\* The order after a hit on k.  The first forgets to drop the old position, the
\* second to move the key at all.
StaleTouch(k) == Bind(order, next_seq, k)
NoTouch(k) == order
Touch(k) == Bind(Without(order, {map[k].seq}), next_seq, k)

GetHit(w, k) ==
    /\ IsIdle(w)
    /\ k \in DOMAIN map
    /\ next_seq < MaxSeq
    /\ held' = [held EXCEPT ![w] = {[key |-> k, arc |-> map[k].arc, len |-> map[k].len]}]
    /\ order' = Touch(k)
    /\ map' = [map EXCEPT ![k].seq = next_seq]
    /\ next_seq' = next_seq + 1
    /\ hits' = hits + 1
    /\ UNCHANGED <<current_memory, misses, slot, made>>

GetMiss(k) ==
    /\ k \notin DOMAIN map
    /\ misses < MaxMisses
    /\ misses' = misses + 1
    /\ UNCHANGED <<inner, hits, slot, held, made>>

\* insert, for a file the cache keeps: drop the old entry of the key, evict
\* the oldest until both limits leave room, store.  The first forgets to give
\* the bytes of a replaced entry back.
RemainingLeaky(k) == current_memory
Remaining(k) == current_memory - (IF k \in DOMAIN map THEN map[k].size ELSE 0)

InsertKept(w, k, n) ==
    LET others == DOMAIN map \ {k}
        ord    == DOMAIN order \ (IF k \in DOMAIN map THEN {map[k].seq} ELSE {})
        Room(E) == \/ others \ E = {}
                   \/ /\ Cardinality(others \ E) < MaxSize
                      /\ Remaining(k) - MemoryOf(map, E) + n <= MaxMemory
    IN  /\ IsIdle(w)
        /\ Keeps(n)
        /\ next_seq < MaxSeq
        /\ \E c \in 0 .. next_seq :
              LET E == Evicted(ord, c) IN
              /\ LoopStops(ord, c, Room)
              /\ map' = [j \in (others \ E) \cup {k} |->
                            IF j = k
                            THEN [arc |-> next_seq, len |-> n, size |-> n, seq |-> next_seq]
                            ELSE map[j]]
              /\ order' = [s \in {t \in ord : t >= c} \cup {next_seq} |->
                            IF s = next_seq THEN k ELSE order[s]]
              /\ current_memory' = Remaining(k) - MemoryOf(map, E) + n
        /\ next_seq' = next_seq + 1
        /\ slot' = Bind(slot, next_seq, Unset)
        /\ held' = [held EXCEPT ![w] = {[key |-> k, arc |-> next_seq, len |-> n]}]
        /\ UNCHANGED <<hits, misses, made>>

\* insert, for a file over its share: handed straight back, never cached.
InsertOversized(w, k, n) ==
    /\ IsIdle(w)
    /\ ~ Keeps(n)
    /\ held' = [held EXCEPT ![w] = {[key |-> k, arc |-> NoArc, len |-> n]}]
    /\ UNCHANGED <<inner, hits, misses, slot, made>>

\* Client::encoded, the get_or_init: the worker that finds the slot empty
\* fills it, and only that worker has something to charge (`made`).
Encode(w) ==
    /\ made[w] = 0
    /\ \E f \in held[w] :
          /\ f.arc # NoArc
          /\ slot[f.arc] = Unset
          /\ \/ /\ slot' = [slot EXCEPT ![f.arc] = NoGain]
                /\ held' = [held EXCEPT ![w] = {}]
                /\ UNCHANGED made
             \/ \E b \in EncodedLens :
                   /\ b < f.len
                   /\ slot' = [slot EXCEPT ![f.arc] = b]
                   /\ made' = [made EXCEPT ![w] = b]
                   /\ UNCHANGED held
    /\ UNCHANGED <<inner, hits, misses>>

\* The worker is done with its file: it answers without an encoding, finds the
\* slot already filled, or encodes an oversized file for this answer alone.
Release(w) ==
    /\ held[w] # {} /\ made[w] = 0
    /\ held' = [held EXCEPT ![w] = {}]
    /\ UNCHANGED <<inner, hits, misses, slot, made>>

\* add_encoding charges the bytes only to the entry the encoding was made for.
\* The first compares keys and not the Arc.
SameKey(f) == f.key \in DOMAIN map
StillCached(f) == f.key \in DOMAIN map /\ map[f.key].arc = f.arc

\* The total with the encoding in it.
Grown(bytes) == current_memory + bytes

\* The entry being grown is out of order while room is made, so it cannot be
\* evicted, and goes back at the position it had.
Grow(k, bytes) ==
    LET ord == DOMAIN order \ {map[k].seq}
        Room(E) == \/ DOMAIN map \ (E \cup {k}) = {}
                   \/ Grown(bytes) - MemoryOf(map, E) <= MaxMemory
    IN  \E c \in 0 .. next_seq :
           LET E == Evicted(ord, c) IN
           /\ LoopStops(ord, c, Room)
           /\ map' = [j \in DOMAIN map \ E |->
                         IF j = k THEN [map[k] EXCEPT !.size = @ + bytes] ELSE map[j]]
           /\ order' = [s \in {t \in ord : t >= c} \cup {map[k].seq} |-> order[s]]
           /\ current_memory' = Grown(bytes) - MemoryOf(map, E)
           /\ UNCHANGED next_seq

AddEncoding(w) ==
    /\ made[w] > 0
    /\ \E f \in held[w] :
          \/ StillCached(f) /\ Grow(f.key, made[w])
          \/ ~ StillCached(f) /\ UNCHANGED inner
    /\ held' = [held EXCEPT ![w] = {}]
    /\ made' = [made EXCEPT ![w] = 0]
    /\ UNCHANGED <<hits, misses, slot>>

Next ==
    \/ \E w \in Workers, k \in Keys : GetHit(w, k)
    \/ \E k \in Keys : GetMiss(k)
    \/ \E w \in Workers, k \in Keys, n \in Lens : InsertKept(w, k, n)
    \/ \E w \in Workers, k \in Keys, n \in Lens : InsertOversized(w, k, n)
    \/ \E w \in Workers : Encode(w)
    \/ \E w \in Workers : Release(w)
    \/ \E w \in Workers : AddEncoding(w)

Spec == Init /\ [][Next]_vars

-----------------------------------------------------------------------------
(* Properties.                                                             *)

\* Every variable has its type (the fields of cache.rs, the locals of
\* Client::encoded).  current_memory is a usize: it is never taken below zero.
TypeOK ==
    /\ DOMAIN map \subseteq Keys /\ map \in [DOMAIN map -> Entry]
    /\ DOMAIN order \subseteq Nat /\ order \in [DOMAIN order -> Keys]
    /\ current_memory \in Nat
    /\ next_seq \in Nat /\ hits \in Nat /\ misses \in Nat
    /\ DOMAIN slot \subseteq Nat /\ slot \in [DOMAIN slot -> Int]
    /\ held \in [Workers -> SUBSET File]
    /\ made \in [Workers -> Nat]

\* The two indexes of the cache, map and order, stay inverse to each other, so
\* "take the front of order" always names an entry that exists and evicting it
\* removes both records of it (cache.rs, Inner and evict_oldest).
OrderMatchesMap ==
    /\ \A k \in DOMAIN map : map[k].seq \in DOMAIN order /\ order[map[k].seq] = k
    /\ \A s \in DOMAIN order : order[s] \in DOMAIN map /\ map[order[s]].seq = s
    /\ \A s \in DOMAIN order : s < next_seq

\* current_memory is the number of bytes of the entries in the map, through
\* replacement, eviction and growth: nothing leaks and nothing is counted twice.
MemoryAccounted == current_memory = MemoryOf(map, DOMAIN map)

\* Both limits hold after every operation, the encodings included (the module
\* doc: "counted against the memory budget like the bytes themselves").
WithinLimits ==
    /\ Cardinality(DOMAIN map) <= MaxSize
    /\ MemoryOf(map, DOMAIN map) <= MaxMemory

\* An entry is charged for its data and, exactly once, for its own encoding as
\* soon as the worker that made it has returned from add_encoding, however
\* inserts, evictions and other encoders interleave.
Charging == {f.arc : f \in UNION {held[w] : w \in {v \in Workers : made[v] > 0}}}
EncodingCountedOnce ==
    \A k \in DOMAIN map :
       LET a == map[k].arc IN
       map[k].size = map[k].len + (IF slot[a] <= 0 \/ a \in Charging THEN 0 ELSE slot[a])

\* The cache, seen through its access order and the bytes charged, is an LRU
\* cache that lets go of its oldest entries and of no more of them than the
\* limits require (insert, get, add_encoding and evict_oldest of cache.rs).
Older == {p \in Keys \X Keys : \E s, t \in DOMAIN order : s < t /\ p = <<order[s], order[t]>>}
Charged == [k \in DOMAIN map |-> map[k].size]
Lru == INSTANCE LruCache WITH older <- Older, size <- Charged
ImplementsLru == Lru!LruSpec
=============================================================================
