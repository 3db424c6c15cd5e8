--------------------------- MODULE FileCacheProofs ---------------------------
(***************************************************************************)
(* The invariants of FileCache, for every number of keys and workers and   *)
(* every limit.                                                            *)
(***************************************************************************)
EXTENDS FileCache, FiniteSetTheorems, TLAPS

-----------------------------------------------------------------------------
(* Least elements.                                                         *)

LEMMA Least == ASSUME NEW S, S \subseteq Nat, S # {} PROVE \E i \in S : \A j \in S : i <= j
<1> DEFINE R == OpToRel(<, Nat)
<1>1. IsWellFoundedOn(R, Nat)
  BY NatLessThanWellFounded
<1>2. PICK i \in S : \A j \in S : ~ (<<j, i>> \in R)
  <2> HIDE DEF R
  <2> QED
    BY <1>1, WFMin
<1>3. \A j \in S : ~ (j < i)
  BY <1>2, Zenon DEF OpToRel
<1> QED
  BY <1>3

-----------------------------------------------------------------------------
(* The bytes of a set of entries.                                          *)

Sized(m, S) == \A k \in S : m[k].size \in Nat

LEMMA OneEntry ==
    ASSUME NEW m, NEW k, m[k].size \in Nat
    PROVE  /\ IsFiniteSet({k} \X (1 .. m[k].size))
           /\ Cardinality({k} \X (1 .. m[k].size)) = m[k].size
<1> PICK n \in Nat : n = m[k].size
  OBVIOUS
<1>1. IsFiniteSet({k}) /\ Cardinality({k}) = 1
  BY FS_Singleton
<1>2. /\ IsFiniteSet(1 .. n)
      /\ Cardinality(1 .. n) = IF 1 > n THEN 0 ELSE n - 1 + 1
  BY 1 \in Int, n \in Int, FS_Interval, Zenon
<1>3. Cardinality(1 .. n) = n
  BY <1>2
<1>4. /\ IsFiniteSet({k} \X (1 .. n))
      /\ Cardinality({k} \X (1 .. n)) = Cardinality({k}) * Cardinality(1 .. n)
  BY <1>1, <1>2, FS_Product, Zenon
<1>5. Cardinality({k} \X (1 .. n)) = n
  BY <1>1, <1>3, <1>4
<1> QED
  BY <1>4, <1>5

LEMMA BytesFinite ==
    ASSUME NEW m, NEW S, IsFiniteSet(S), Sized(m, S)
    PROVE  /\ IsFiniteSet(BytesOf(m, S))
           /\ MemoryOf(m, S) \in Nat
<1> DEFINE Piece(k) == {k} \X (1 .. m[k].size)
           T == {Piece(k) : k \in S}
           f == [k \in S |-> Piece(k)]
<1>1. f \in Surjection(S, T)
  BY DEF Surjection
<1>2. IsFiniteSet(T)
  BY <1>1, FS_Surjection
<1>3. \A P \in T : IsFiniteSet(P)
  BY OneEntry DEF Sized
<1>4. IsFiniteSet(UNION T)
  BY <1>2, <1>3, FS_UNION
<1> QED
  BY <1>4, FS_CardinalityType DEF BytesOf, MemoryOf

LEMMA MemoryOfNone ==
    ASSUME NEW m
    PROVE  MemoryOf(m, {}) = 0
BY FS_EmptySet DEF MemoryOf, BytesOf

LEMMA MemoryOfOne ==
    ASSUME NEW m, NEW k, m[k].size \in Nat
    PROVE  MemoryOf(m, {k}) = m[k].size
<1>1. BytesOf(m, {k}) = {k} \X (1 .. m[k].size)
  BY DEF BytesOf
<1> QED
  BY <1>1, OneEntry DEF MemoryOf

LEMMA MemoryOfUnion ==
    ASSUME NEW m, NEW S, NEW T, IsFiniteSet(S), IsFiniteSet(T),
           Sized(m, S), Sized(m, T), S \cap T = {}
    PROVE  MemoryOf(m, S \cup T) = MemoryOf(m, S) + MemoryOf(m, T)
<1> DEFINE A == BytesOf(m, S)
           B == BytesOf(m, T)
<1>1. IsFiniteSet(A) /\ IsFiniteSet(B)
  BY BytesFinite
<1>2. BytesOf(m, S \cup T) = A \cup B
  BY DEF BytesOf
<1>3. A \cap B = {}
  BY DEF BytesOf
<1>4. Cardinality(A \cup B) = Cardinality(A) + Cardinality(B) - Cardinality(A \cap B)
  BY <1>1, FS_Union
<1>5. Cardinality(A) \in Nat /\ Cardinality(B) \in Nat
  BY <1>1, FS_CardinalityType
<1>6. Cardinality(A \cap B) = 0
  BY <1>3, FS_EmptySet
<1>7. Cardinality(A \cup B) = Cardinality(A) + Cardinality(B)
  <2> HIDE DEF A, B
  <2> QED BY <1>4, <1>5, <1>6
<1> QED
  BY <1>2, <1>7, Zenon DEF MemoryOf

LEMMA MemoryOfSame ==
    ASSUME NEW m1, NEW m2, NEW S, \A k \in S : m1[k].size = m2[k].size
    PROVE  MemoryOf(m1, S) = MemoryOf(m2, S)
<1>1. BytesOf(m1, S) = BytesOf(m2, S)
  BY DEF BytesOf
<1> QED
  BY <1>1 DEF MemoryOf

-----------------------------------------------------------------------------
(* The inductive invariant.  What the properties need besides themselves:  *)
(* an Arc names one insert, a holder's file is the cached one whenever the *)
(* Arcs agree, and an encoding not yet charged is in the slot of its Arc,  *)
(* smaller than the file, with one worker to charge it.                    *)

EntriesFresh ==
    /\ IsFiniteSet(DOMAIN map)
    /\ \A a \in DOMAIN slot : a < next_seq
    /\ \A k \in DOMAIN map : map[k].arc \in DOMAIN slot /\ Keeps(map[k].len)
    /\ \A j, k \in DOMAIN map : map[j].arc = map[k].arc => j = k

HeldMatches ==
    \A w \in Workers : \A f \in held[w] :
       /\ held[w] = {f}
       /\ f.arc = NoArc \/ f.arc \in DOMAIN slot
       /\ \A k \in DOMAIN map : map[k].arc = f.arc => k = f.key /\ map[k].len = f.len

ChargePending ==
    \A w \in Workers : made[w] > 0 =>
       /\ \E f \in held[w] :
             /\ held[w] = {f} /\ f.arc \in DOMAIN slot
             /\ slot[f.arc] = made[w] /\ made[w] < f.len
       /\ \A v \in Workers : made[v] > 0 =>
             \A f \in held[w], g \in held[v] : f.arc = g.arc => v = w

IInv ==
    /\ TypeOK
    /\ OrderMatchesMap
    /\ MemoryAccounted
    /\ WithinLimits
    /\ EncodingCountedOnce
    /\ EntriesFresh
    /\ HeldMatches
    /\ ChargePending

LEMMA KeptTwiceFits ==
    ASSUME NEW n \in Nat, Keeps(n)
    PROVE  n + n <= MaxMemory /\ MaxSize >= 1
<1>1. (KeepShare - 2) * n >= 0
  BY ConstantsAssumption
<1>2. KeepShare * n = n + n + (KeepShare - 2) * n
  BY ConstantsAssumption
<1>3. KeepShare * n <= MaxMemory /\ MaxSize # 0
  BY DEF Keeps
<1>4. KeepShare * n \in Nat /\ (KeepShare - 2) * n \in Int
  BY ConstantsAssumption
<1> QED
  BY <1>1, <1>2, <1>3, <1>4, ConstantsAssumption

LEMMA EvictedKeys ==
    ASSUME TypeOK, OrderMatchesMap,
           NEW ord \in SUBSET DOMAIN order, NEW c \in Nat
    PROVE  /\ Evicted(ord, c) \subseteq DOMAIN map
           /\ \A j \in DOMAIN map :
                 j \in Evicted(ord, c) <=> map[j].seq \in ord /\ map[j].seq < c
BY DEF TypeOK, OrderMatchesMap, Evicted

LEMMA InitIInv == Init => IInv
<1> SUFFICES ASSUME Init PROVE IInv
  OBVIOUS
<1>1. DOMAIN map = {} /\ DOMAIN order = {} /\ DOMAIN slot = {}
  BY DEF Init
<1>2. TypeOK
  BY <1>1 DEF Init, TypeOK
<1>3. MemoryOf(map, DOMAIN map) = 0
  BY <1>1, MemoryOfNone
<1>4. Cardinality(DOMAIN map) = 0 /\ IsFiniteSet(DOMAIN map)
  BY <1>1, FS_EmptySet
<1>5. MemoryAccounted /\ WithinLimits
  BY <1>3, <1>4, ConstantsAssumption DEF Init, MemoryAccounted, WithinLimits
<1>6. OrderMatchesMap /\ EncodingCountedOnce /\ EntriesFresh
  BY <1>1, <1>4 DEF OrderMatchesMap, EncodingCountedOnce, EntriesFresh
<1>7. HeldMatches /\ ChargePending
  BY DEF Init, HeldMatches, ChargePending
<1> QED
  BY <1>2, <1>5, <1>6, <1>7 DEF IInv

-----------------------------------------------------------------------------
(* Steps that leave the entries alone.                                     *)

LEMMA GetHitKeepsIInv ==
    ASSUME IInv, NEW w \in Workers, NEW k \in Keys, GetHit(w, k)
    PROVE  IInv'
<1> DEFINE f == [key |-> k, arc |-> map[k].arc, len |-> map[k].len]
<1>1. /\ DOMAIN map' = DOMAIN map /\ k \in DOMAIN map
      /\ map'[k] = [map[k] EXCEPT !.seq = next_seq]
      /\ \A j \in DOMAIN map : j # k => map'[j] = map[j]
      /\ map[k] \in Entry /\ map'[k] \in Entry
  BY DEF IInv, TypeOK, GetHit, Entry
<1>2. \A j \in DOMAIN map : /\ map'[j].size = map[j].size
                             /\ map'[j].arc = map[j].arc /\ map'[j].len = map[j].len
  BY <1>1 DEF Entry
<1>3. MemoryOf(map', DOMAIN map') = MemoryOf(map, DOMAIN map)
  BY <1>1, <1>2, MemoryOfSame
<1>4. /\ DOMAIN order' = (DOMAIN order \ {map[k].seq}) \cup {next_seq}
      /\ order'[next_seq] = k
      /\ \A s \in DOMAIN order \ {map[k].seq} : order'[s] = order[s]
  BY DEF IInv, GetHit, Touch, Bind, Without, OrderMatchesMap, TypeOK
<1>5. TypeOK'
  <2>1. map' \in [DOMAIN map' -> Entry] /\ DOMAIN map' \subseteq Keys
    BY <1>1 DEF IInv, TypeOK, GetHit
  <2>2. order' \in [DOMAIN order' -> Keys] /\ DOMAIN order' \subseteq Nat
    <3>1. order' = [s \in DOMAIN order' |-> order'[s]]
      BY DEF GetHit, Touch, Bind
    <3>2. \A s \in DOMAIN order' : order'[s] \in Keys
      BY <1>4 DEF IInv, TypeOK
    <3> QED
      BY <1>4, <3>1, <3>2 DEF IInv, TypeOK
  <2>3. f \in File
    BY <1>1 DEF File, Entry
  <2> QED
    BY <2>1, <2>2, <2>3 DEF IInv, TypeOK, GetHit
<1>6. OrderMatchesMap'
  <2>1. map'[k].seq = next_seq /\ \A j \in DOMAIN map : j # k => map'[j].seq = map[j].seq
    BY <1>1 DEF Entry
  <2> QED
    BY <1>1, <1>4, <2>1 DEF IInv, OrderMatchesMap, TypeOK, GetHit
<1>7. MemoryAccounted' /\ WithinLimits'
  BY <1>1, <1>3 DEF IInv, MemoryAccounted, WithinLimits, GetHit
<1>8. made[w] = 0 /\ UNCHANGED <<made, slot>> /\ held[w] = {}
  BY DEF GetHit, IsIdle
<1>9. /\ held' = [held EXCEPT ![w] = {f}]
      /\ \A v \in Workers : v # w => held'[v] = held[v]
      /\ held'[w] = {f}
  BY DEF IInv, TypeOK, GetHit
<1>10. Charging' = Charging
  BY <1>8, <1>9 DEF Charging
<1>11. EncodingCountedOnce'
  BY <1>1, <1>2, <1>8, <1>10 DEF IInv, EncodingCountedOnce
<1>12. EntriesFresh'
  BY <1>1, <1>2, <1>8 DEF IInv, EntriesFresh, GetHit, Keeps, TypeOK
<1>13. HeldMatches'
  <2> HIDE DEF f
  <2>1. f.arc = map[k].arc /\ f.key = k /\ f.len = map[k].len
    BY DEF f
  <2> QED
    BY <1>1, <1>2, <1>8, <1>9, <2>1 DEF IInv, HeldMatches, EntriesFresh
<1>14. ChargePending'
  BY <1>8, <1>9 DEF IInv, ChargePending
<1> QED
  BY <1>5, <1>6, <1>7, <1>11, <1>12, <1>13, <1>14 DEF IInv

LEMMA GetMissKeepsIInv ==
    ASSUME IInv, NEW k \in Keys, GetMiss(k)
    PROVE  IInv'
<1>1. TypeOK'
  BY DEF IInv, TypeOK, GetMiss, inner
<1>2. OrderMatchesMap' /\ MemoryAccounted' /\ WithinLimits'
  BY DEF IInv, OrderMatchesMap, MemoryAccounted, WithinLimits, GetMiss, inner
<1>3. EncodingCountedOnce' /\ EntriesFresh' /\ HeldMatches' /\ ChargePending'
  BY DEF IInv, EncodingCountedOnce, Charging, EntriesFresh, HeldMatches, ChargePending,
         GetMiss, inner
<1> QED
  BY <1>1, <1>2, <1>3 DEF IInv

\* A worker that has nothing to charge takes a file the cache does not keep,
\* or puts its file away.
LEMMA HeldOnlyKeepsIInv ==
    ASSUME IInv, NEW w \in Workers, made[w] = 0,
           NEW H \in SUBSET File, \A f \in H : H = {f} /\ f.arc = NoArc,
           held' = [held EXCEPT ![w] = H],
           UNCHANGED <<inner, hits, misses, slot, made>>
    PROVE  IInv'
<1>1. /\ held' \in [Workers -> SUBSET File]
      /\ held'[w] = H /\ \A v \in Workers : v # w => held'[v] = held[v]
  BY DEF IInv, TypeOK
<1>2. TypeOK'
  BY <1>1 DEF IInv, TypeOK, inner
<1>3. OrderMatchesMap' /\ MemoryAccounted' /\ WithinLimits' /\ EntriesFresh'
  BY DEF IInv, OrderMatchesMap, MemoryAccounted, WithinLimits, EntriesFresh, inner
<1>4. Charging' = Charging
  BY <1>1 DEF Charging
<1>5. EncodingCountedOnce'
  BY <1>4 DEF IInv, EncodingCountedOnce, inner
<1>6. HeldMatches'
  <2>1. \A k \in DOMAIN map : map[k].arc # NoArc
    BY DEF IInv, EntriesFresh, TypeOK, NoArc
  <2> QED
    BY <1>1, <2>1 DEF IInv, HeldMatches, inner
<1>7. ChargePending'
  BY <1>1 DEF IInv, ChargePending
<1> QED
  BY <1>2, <1>3, <1>5, <1>6, <1>7 DEF IInv

LEMMA InsertOversizedKeepsIInv ==
    ASSUME IInv, NEW w \in Workers, NEW k \in Keys, NEW n \in Lens,
           InsertOversized(w, k, n)
    PROVE  IInv'
<1> DEFINE H == {[key |-> k, arc |-> NoArc, len |-> n]}
<1>1. H \in SUBSET File /\ \A f \in H : H = {f} /\ f.arc = NoArc
  BY ConstantsAssumption DEF File, NoArc
<1>2. made[w] = 0 /\ held' = [held EXCEPT ![w] = H]
  BY DEF InsertOversized, IsIdle
<1>3. UNCHANGED <<inner, hits, misses, slot, made>>
  BY DEF InsertOversized
<1> HIDE DEF H
<1> QED
  BY <1>1, <1>2, <1>3, HeldOnlyKeepsIInv

LEMMA ReleaseKeepsIInv ==
    ASSUME IInv, NEW w \in Workers, Release(w)
    PROVE  IInv'
<1>1. /\ made[w] = 0 /\ held' = [held EXCEPT ![w] = {}]
      /\ UNCHANGED <<inner, hits, misses, slot, made>>
  BY DEF Release
<1> QED
  BY <1>1, HeldOnlyKeepsIInv

LEMMA EncodeKeepsIInv ==
    ASSUME IInv, NEW w \in Workers, Encode(w)
    PROVE  IInv'
<1> PICK f \in held[w] :
          /\ f.arc # NoArc
          /\ slot[f.arc] = Unset
          /\ \/ /\ slot' = [slot EXCEPT ![f.arc] = NoGain]
                /\ held' = [held EXCEPT ![w] = {}]
                /\ UNCHANGED made
             \/ \E b \in EncodedLens :
                   /\ b < f.len
                   /\ slot' = [slot EXCEPT ![f.arc] = b]
                   /\ made' = [made EXCEPT ![w] = b]
                   /\ UNCHANGED held
  BY DEF Encode
<1>1. f.arc \in DOMAIN slot /\ made[w] = 0 /\ f \in File
  BY DEF IInv, HeldMatches, TypeOK, Encode
<1>2. UNCHANGED <<map, order, current_memory, next_seq, hits, misses>>
  BY DEF Encode, inner
<1>3. OrderMatchesMap' /\ MemoryAccounted' /\ WithinLimits'
  BY <1>2 DEF IInv, OrderMatchesMap, MemoryAccounted, WithinLimits
<1>4. \A v \in Workers : made[v] > 0 => v # w /\ \A g \in held[v] : g.arc # f.arc
  BY <1>1, ConstantsAssumption DEF IInv, ChargePending, Unset, TypeOK
<1>5. CASE /\ slot' = [slot EXCEPT ![f.arc] = NoGain]
           /\ held' = [held EXCEPT ![w] = {}]
           /\ UNCHANGED made
  <2>1. /\ held' \in [Workers -> SUBSET File]
        /\ held'[w] = {} /\ \A v \in Workers : v # w => held'[v] = held[v]
    BY <1>5 DEF IInv, TypeOK
  <2>2. /\ DOMAIN slot' = DOMAIN slot /\ slot'[f.arc] = NoGain
        /\ \A a \in DOMAIN slot : a # f.arc => slot'[a] = slot[a]
        /\ slot' \in [DOMAIN slot -> Int]
    BY <1>1, <1>5 DEF IInv, TypeOK, NoGain
  <2>3. TypeOK'
    BY <1>2, <1>5, <2>1, <2>2 DEF IInv, TypeOK
  <2>4. Charging' = Charging
    BY <1>1, <1>5, <2>1 DEF Charging
  <2>5. EncodingCountedOnce'
    BY <1>2, <2>2, <2>4 DEF IInv, EncodingCountedOnce, EntriesFresh, NoGain, Unset
  <2>6. EntriesFresh' /\ HeldMatches'
    BY <1>2, <2>1, <2>2 DEF IInv, EntriesFresh, HeldMatches, Keeps
  <2>7. ChargePending'
    BY <1>1, <1>4, <1>5, <2>1, <2>2 DEF IInv, ChargePending
  <2> QED
    BY <1>3, <2>3, <2>5, <2>6, <2>7 DEF IInv
<1>6. CASE \E b \in EncodedLens :
              /\ b < f.len
              /\ slot' = [slot EXCEPT ![f.arc] = b]
              /\ made' = [made EXCEPT ![w] = b]
              /\ UNCHANGED held
  <2> PICK b \in EncodedLens :
              /\ b < f.len
              /\ slot' = [slot EXCEPT ![f.arc] = b]
              /\ made' = [made EXCEPT ![w] = b]
              /\ UNCHANGED held
    BY <1>6
  <2>1. b \in Nat /\ b > 0
    BY ConstantsAssumption
  <2>2. /\ DOMAIN slot' = DOMAIN slot /\ slot'[f.arc] = b
        /\ \A a \in DOMAIN slot : a # f.arc => slot'[a] = slot[a]
        /\ slot' \in [DOMAIN slot -> Int]
    BY <1>1, <2>1 DEF IInv, TypeOK
  <2>3. /\ made' \in [Workers -> Nat]
        /\ made'[w] = b /\ \A v \in Workers : v # w => made'[v] = made[v]
    BY <2>1 DEF IInv, TypeOK
  <2>4. TypeOK'
    BY <1>2, <2>2, <2>3 DEF IInv, TypeOK
  <2>5. Charging' = Charging \cup {f.arc}
    <3>1. held[w] = {f}
      BY DEF IInv, HeldMatches
    <3> QED
      BY <1>1, <2>1, <2>3, <3>1 DEF Charging
  <2>6. EncodingCountedOnce'
    BY <1>2, <2>2, <2>5 DEF IInv, EncodingCountedOnce, EntriesFresh, Unset
  <2>7. EntriesFresh' /\ HeldMatches'
    BY <1>2, <2>2 DEF IInv, EntriesFresh, HeldMatches, Keeps
  <2>8. ChargePending'
    <3>1. held[w] = {f} /\ UNCHANGED held
      BY DEF IInv, HeldMatches
    <3>2. ASSUME NEW v \in Workers, made'[v] > 0
          PROVE  \E g \in held'[v] :
                   /\ held'[v] = {g} /\ g.arc \in DOMAIN slot'
                   /\ slot'[g.arc] = made'[v] /\ made'[v] < g.len
      BY <1>1, <1>4, <2>1, <2>2, <2>3, <3>1, <3>2 DEF IInv, ChargePending
    <3>3. ASSUME NEW u \in Workers, made'[u] > 0, NEW v \in Workers, made'[v] > 0,
                 NEW g \in held'[u], NEW h \in held'[v], g.arc = h.arc
          PROVE  v = u
      BY <1>4, <2>3, <3>1, <3>3 DEF IInv, ChargePending
    <3> QED
      BY <3>2, <3>3 DEF ChargePending
  <2> QED
    BY <1>3, <2>4, <2>6, <2>7, <2>8 DEF IInv
<1> QED
  BY <1>5, <1>6

-----------------------------------------------------------------------------
(* Steps that evict.                                                       *)

\* Once the old entry of k is gone the total is that of the other entries.
LEMMA RemainingIsMemory ==
    ASSUME IInv, NEW k
    PROVE  Remaining(k) = MemoryOf(map, DOMAIN map \ {k})
<1> PICK others : others = DOMAIN map \ {k}
  OBVIOUS
<1>0. Sized(map, DOMAIN map) /\ IsFiniteSet(DOMAIN map)
  BY DEF Sized, IInv, TypeOK, Entry, EntriesFresh
<1>1. CASE k \in DOMAIN map
  <2>1. DOMAIN map = others \cup {k} /\ others \cap {k} = {} /\ IsFiniteSet(others) /\ IsFiniteSet({k})
    BY <1>0, <1>1, FS_RemoveElement, FS_Singleton
  <2>2. Sized(map, others) /\ Sized(map, {k}) /\ map[k].size \in Nat
    BY <1>0, <1>1 DEF Sized
  <2>3. MemoryOf(map, DOMAIN map) = MemoryOf(map, others) + MemoryOf(map, {k})
    BY <2>1, <2>2, MemoryOfUnion
  <2>4. MemoryOf(map, {k}) = map[k].size /\ MemoryOf(map, others) \in Nat
    BY <2>1, <2>2, BytesFinite, MemoryOfOne
  <2>5. current_memory = MemoryOf(map, DOMAIN map) /\ Remaining(k) = current_memory - map[k].size
    BY <1>1 DEF Remaining, IInv, MemoryAccounted
  <2> QED
    BY <2>2, <2>3, <2>4, <2>5
<1>2. CASE k \notin DOMAIN map
  <2>1. others = DOMAIN map
    BY <1>2
  <2>2. current_memory \in Nat /\ Remaining(k) = current_memory - 0
    BY <1>2 DEF Remaining, IInv, TypeOK
  <2> QED
    BY <2>1, <2>2 DEF IInv, MemoryAccounted
<1> QED
  BY <1>1, <1>2

LEMMA InsertKeptKeepsIInv ==
    ASSUME IInv, NEW w \in Workers, NEW k \in Keys, NEW n \in Lens,
           InsertKept(w, k, n)
    PROVE  IInv'
<1> DEFINE others == DOMAIN map \ {k}
           ord == DOMAIN order \ (IF k \in DOMAIN map THEN {map[k].seq} ELSE {})
           new == [arc |-> next_seq, len |-> n, size |-> n, seq |-> next_seq]
           f == [key |-> k, arc |-> next_seq, len |-> n]
<1>a. PICK c \in 0 .. next_seq :
       LET E == Evicted(ord, c) IN
       /\ \/ others \ E = {}
          \/ /\ Cardinality(others \ E) < MaxSize
             /\ Remaining(k) - MemoryOf(map, E) + n <= MaxMemory
       /\ map' = [j \in (others \ E) \cup {k} |-> IF j = k THEN new ELSE map[j]]
       /\ order' = [s \in {t \in ord : t >= c} \cup {next_seq} |->
                       IF s = next_seq THEN k ELSE order[s]]
       /\ current_memory' = Remaining(k) - MemoryOf(map, E) + n
  BY DEF InsertKept, LoopStops
<1> DEFINE E == Evicted(ord, c)
<1>0. PICK left : left = others \ E
  OBVIOUS
<1>1. n \in Nat /\ next_seq \in Nat /\ c \in Nat /\ Keeps(n)
  BY ConstantsAssumption DEF InsertKept, IInv, TypeOK
<1>2. /\ E \subseteq others
      /\ \A j \in others : j \in E <=> map[j].seq < c
  <2>1. ord \in SUBSET DOMAIN order
    OBVIOUS
  <2>2. /\ E \subseteq DOMAIN map
        /\ \A j \in DOMAIN map : j \in E <=> map[j].seq \in ord /\ map[j].seq < c
    BY <1>1, <2>1, EvictedKeys DEF IInv
  <2>3. \A j \in DOMAIN map : map[j].seq \in ord <=> j # k
    BY DEF IInv, OrderMatchesMap
  <2> QED
    BY <2>2, <2>3
<1>3. IsFiniteSet(DOMAIN map) /\ IsFiniteSet(left) /\ IsFiniteSet(E)
  BY <1>0, <1>2, FS_Subset DEF IInv, EntriesFresh
<1>4. Sized(map, DOMAIN map) /\ Sized(map, left) /\ Sized(map, E)
  BY <1>0, <1>2 DEF Sized, IInv, TypeOK, Entry
<1>5. /\ DOMAIN map' = left \cup {k} /\ k \notin left
      /\ map'[k] = new /\ new \in Entry
      /\ \A j \in left : map'[j] = map[j] /\ j \in DOMAIN map
  BY <1>a, <1>0, <1>1 DEF Entry
<1>6. /\ DOMAIN order' = {t \in ord : t >= c} \cup {next_seq}
      /\ order'[next_seq] = k
      /\ \A s \in ord : s >= c => order'[s] = order[s]
  BY <1>a DEF IInv, OrderMatchesMap, TypeOK
<1> HIDE DEF E
<1>7. Remaining(k) = MemoryOf(map, left) + MemoryOf(map, E)
  <2>1. others = left \cup E /\ left \cap E = {}
    BY <1>0, <1>2
  <2>2. MemoryOf(map, left \cup E) = MemoryOf(map, left) + MemoryOf(map, E)
    BY <1>3, <1>4, <2>1, MemoryOfUnion
  <2> QED
    BY <2>1, <2>2, RemainingIsMemory
<1>8. current_memory' = MemoryOf(map, left) + n
  <2>1. MemoryOf(map, left) \in Nat /\ MemoryOf(map, E) \in Nat
    BY <1>3, <1>4, BytesFinite
  <2>2. current_memory' = Remaining(k) - MemoryOf(map, E) + n
    BY <1>a DEF E
  <2> QED
    BY <1>1, <1>7, <2>1, <2>2
<1>9. MemoryOf(map', DOMAIN map') = current_memory'
  <2>1. MemoryOf(map', left) = MemoryOf(map, left)
    <3>1. \A j \in left : map'[j].size = map[j].size
      BY <1>5
    <3> QED
      BY <3>1, MemoryOfSame
  <2>2. MemoryOf(map', {k}) = n
    BY <1>1, <1>5, MemoryOfOne
  <2>3. Sized(map', left) /\ Sized(map', {k})
    BY <1>1, <1>4, <1>5 DEF Sized
  <2>4. left \cap {k} = {} /\ IsFiniteSet({k})
    BY <1>5, FS_Singleton
  <2>5. MemoryOf(map', left \cup {k}) = MemoryOf(map', left) + MemoryOf(map', {k})
    BY <1>3, <2>3, <2>4, MemoryOfUnion
  <2> QED
    BY <1>5, <1>8, <2>1, <2>2, <2>5
<1>10. MemoryAccounted'
  BY <1>9 DEF MemoryAccounted
<1>11. WithinLimits'
  <2>1. /\ Cardinality(left \cup {k}) = Cardinality(left) + 1
        /\ Cardinality(left) \in Nat
    BY <1>3, <1>5, FS_AddElement, FS_CardinalityType
  <2>2. \/ left = {}
        \/ Cardinality(left) < MaxSize /\ current_memory' <= MaxMemory
    BY <1>a, <1>0 DEF E
  <2>3. n + n <= MaxMemory /\ MaxSize >= 1
    BY <1>1, KeptTwiceFits
  <2>4. CASE left = {}
    <3>1. Cardinality(left) = 0 /\ MemoryOf(map, left) = 0
      BY <2>4, FS_EmptySet, MemoryOfNone
    <3> QED
      <4>1. Cardinality(DOMAIN map') = 1
        BY <1>5, <2>1, <3>1
      <4>2. MemoryOf(map', DOMAIN map') = n
        BY <1>1, <1>8, <1>9, <3>1
      <4> QED
        BY <1>1, <2>3, <4>1, <4>2, ConstantsAssumption DEF WithinLimits
  <2>5. CASE Cardinality(left) < MaxSize /\ current_memory' <= MaxMemory
    <3>1. Cardinality(DOMAIN map') = Cardinality(left) + 1
      BY <1>5, <2>1
    <3> QED
      BY <1>9, <2>1, <2>5, <3>1, ConstantsAssumption DEF WithinLimits
  <2> QED
    BY <2>2, <2>4, <2>5
<1>12. /\ held' = [held EXCEPT ![w] = {f}] /\ f \in File
       /\ held'[w] = {f} /\ \A v \in Workers : v # w => held'[v] = held[v]
       /\ made[w] = 0 /\ UNCHANGED made /\ next_seq' = next_seq + 1
       /\ UNCHANGED <<hits, misses>>
  BY <1>1 DEF IInv, TypeOK, InsertKept, IsIdle, File
<1>13. /\ DOMAIN slot' = DOMAIN slot \cup {next_seq} /\ next_seq \notin DOMAIN slot
       /\ slot'[next_seq] = Unset /\ slot' \in [DOMAIN slot' -> Int]
       /\ \A a \in DOMAIN slot : slot'[a] = slot[a]
  BY <1>1 DEF IInv, TypeOK, EntriesFresh, InsertKept, Bind, Unset
<1>14. TypeOK'
  <2>1. map' \in [DOMAIN map' -> Entry] /\ DOMAIN map' \subseteq Keys
    <3>1. \A j \in DOMAIN map' : map'[j] \in Entry
      BY <1>5 DEF IInv, TypeOK
    <3> QED
      BY <1>a, <1>0, <1>5, <3>1 DEF IInv, TypeOK, E
  <2>2. order' \in [DOMAIN order' -> Keys] /\ DOMAIN order' \subseteq Nat
    <3>1. \A s \in DOMAIN order' : order'[s] \in Keys
      BY <1>6 DEF IInv, TypeOK
    <3> QED
      BY <1>a, <1>1, <1>6, <3>1 DEF IInv, TypeOK
  <2>3. current_memory' \in Nat
    BY <1>1, <1>3, <1>4, <1>8, BytesFinite
  <2>4. held' \in [Workers -> SUBSET File]
    BY <1>12 DEF IInv, TypeOK
  <2> QED
    BY <1>1, <1>12, <1>13, <2>1, <2>2, <2>3, <2>4 DEF IInv, TypeOK
<1>15. OrderMatchesMap'
  <2>1. \A j \in left : /\ map[j].seq \in ord /\ map[j].seq >= c
                         /\ order[map[j].seq] = j
    BY <1>0, <1>1, <1>2 DEF IInv, OrderMatchesMap, TypeOK
  <2>2. \A s \in ord : s >= c => order[s] \in left /\ map[order[s]].seq = s
    BY <1>0, <1>1, <1>2 DEF IInv, OrderMatchesMap, TypeOK
  <2>3. \A s \in ord : s < next_seq
    BY DEF IInv, OrderMatchesMap
  <2>4. \A j \in DOMAIN map' : map'[j].seq \in DOMAIN order' /\ order'[map'[j].seq] = j
    BY <1>5, <1>6, <2>1
  <2>5. \A s \in DOMAIN order' : order'[s] \in DOMAIN map' /\ map'[order'[s]].seq = s
    BY <1>5, <1>6, <2>2
  <2>6. \A s \in DOMAIN order' : s < next_seq'
    BY <1>1, <1>6, <1>12, <2>3 DEF IInv, TypeOK
  <2> QED
    BY <2>4, <2>5, <2>6 DEF OrderMatchesMap
<1>16. EntriesFresh'
  <2>1. IsFiniteSet(DOMAIN map')
    BY <1>3, <1>5, FS_AddElement
  <2>2. \A a \in DOMAIN slot' : a < next_seq'
    BY <1>1, <1>12, <1>13 DEF IInv, EntriesFresh, TypeOK
  <2>3. \A j \in DOMAIN map' : map'[j].arc \in DOMAIN slot' /\ Keeps(map'[j].len)
    BY <1>1, <1>5, <1>13 DEF IInv, EntriesFresh
  <2>4. \A i, j \in DOMAIN map' : map'[i].arc = map'[j].arc => i = j
    BY <1>5, <1>13 DEF IInv, EntriesFresh
  <2> QED
    BY <2>1, <2>2, <2>3, <2>4 DEF EntriesFresh, Keeps
<1>17. Charging' = Charging
  BY <1>12 DEF Charging
<1>18. EncodingCountedOnce'
  <2>1. ASSUME NEW j \in left
        PROVE  /\ map'[j] = map[j] /\ j \in DOMAIN map
               /\ slot'[map[j].arc] = slot[map[j].arc]
    BY <1>5, <1>13 DEF IInv, EntriesFresh
  <2>2. ASSUME NEW j \in left
        PROVE  map'[j].size = map'[j].len +
                  (IF slot'[map'[j].arc] <= 0 \/ map'[j].arc \in Charging'
                   THEN 0 ELSE slot'[map'[j].arc])
    BY <1>17, <2>1 DEF IInv, EncodingCountedOnce
  <2>3. map'[k].size = map'[k].len +
                  (IF slot'[map'[k].arc] <= 0 \/ map'[k].arc \in Charging'
                   THEN 0 ELSE slot'[map'[k].arc])
    BY <1>1, <1>5, <1>13 DEF Unset
  <2> QED
    BY <1>5, <2>2, <2>3 DEF EncodingCountedOnce
<1>19. HeldMatches'
  <2>1. \A v \in Workers : \A g \in held[v] : g.arc # next_seq
    BY <1>1, <1>13 DEF IInv, HeldMatches, NoArc
  <2>2. \A j \in left : map[j].arc # next_seq
    BY <1>5, <1>13 DEF IInv, EntriesFresh
  <2>3. ASSUME NEW v \in Workers, NEW g \in held'[v]
        PROVE  /\ held'[v] = {g}
               /\ g.arc = NoArc \/ g.arc \in DOMAIN slot'
    BY <1>12, <1>13, <2>3 DEF IInv, HeldMatches
  <2>4. ASSUME NEW v \in Workers, NEW g \in held'[v],
               NEW j \in DOMAIN map', map'[j].arc = g.arc
        PROVE  j = g.key /\ map'[j].len = g.len
    <3>1. CASE v = w
      <4>1. g = f
        BY <1>12, <2>4, <3>1
      <4>2. j = k
        BY <1>5, <2>2, <2>4, <4>1
      <4> QED
        BY <1>5, <4>1, <4>2
    <3>2. CASE v # w
      <4>1. g \in held[v] /\ g.arc # next_seq
        BY <1>12, <2>1, <2>4, <3>2
      <4>2. j \in left /\ map'[j] = map[j] /\ j \in DOMAIN map
        BY <1>5, <2>4, <4>1
      <4> QED
        BY <2>4, <4>1, <4>2 DEF IInv, HeldMatches
    <3> QED
      BY <3>1, <3>2
  <2> QED
    BY <2>3, <2>4 DEF HeldMatches
<1>20. ChargePending'
  BY <1>12, <1>13 DEF IInv, ChargePending
<1> QED
  BY <1>10, <1>11, <1>14, <1>15, <1>16, <1>18, <1>19, <1>20 DEF IInv

\* A worker that puts its encoding away was the only one to charge its Arc.
LEMMA DischargedArc ==
    ASSUME IInv, NEW w \in Workers, made[w] > 0, NEW f \in held[w],
           held' = [held EXCEPT ![w] = {}],
           made' = [made EXCEPT ![w] = 0]
    PROVE  Charging' = Charging \ {f.arc}
<1>1. held[w] = {f}
  BY DEF IInv, HeldMatches
<1>2. \A v \in Workers : v # w /\ made[v] > 0 => \A g \in held[v] : g.arc # f.arc
  BY DEF IInv, ChargePending
<1>3. /\ \A v \in Workers : v # w => held'[v] = held[v] /\ made'[v] = made[v]
      /\ held'[w] = {} /\ made'[w] = 0
  BY DEF IInv, TypeOK
<1> QED
  BY <1>1, <1>2, <1>3 DEF Charging

LEMMA GrowKeepsIInv ==
    ASSUME IInv, NEW w \in Workers, made[w] > 0,
           NEW f \in held[w], StillCached(f), Grow(f.key, made[w]),
           held' = [held EXCEPT ![w] = {}],
           made' = [made EXCEPT ![w] = 0],
           UNCHANGED <<hits, misses, slot>>
    PROVE  IInv'
<1>0. PICK k : k = f.key
  OBVIOUS
<1>1. PICK b : b = made[w]
  OBVIOUS
<1> DEFINE ord == DOMAIN order \ {map[k].seq}
<1>a. PICK c \in 0 .. next_seq :
       LET E == Evicted(ord, c) IN
       /\ \/ DOMAIN map \ (E \cup {k}) = {}
          \/ Grown(b) - MemoryOf(map, E) <= MaxMemory
       /\ map' = [j \in DOMAIN map \ E |->
                     IF j = k THEN [map[k] EXCEPT !.size = @ + b] ELSE map[j]]
       /\ order' = [s \in {t \in ord : t >= c} \cup {map[k].seq} |-> order[s]]
       /\ current_memory' = Grown(b) - MemoryOf(map, E)
       /\ UNCHANGED next_seq
  BY <1>0, <1>1 DEF Grow, LoopStops
<1>e. PICK E : E = Evicted(ord, c)
  OBVIOUS
<1>l. PICK left : left = DOMAIN map \ (E \cup {k})
  OBVIOUS
<1>2. /\ k \in DOMAIN map /\ map[k].arc = f.arc /\ map[k] \in Entry
      /\ held[w] = {f} /\ slot[f.arc] = b /\ b \in Nat /\ b > 0 /\ b < f.len
      /\ f.len = map[k].len /\ f.arc \in DOMAIN slot
  BY <1>0, <1>1 DEF IInv, TypeOK, StillCached, HeldMatches, ChargePending
<1>3. /\ E \subseteq DOMAIN map /\ k \notin E
      /\ \A j \in DOMAIN map : j # k => (j \in E <=> map[j].seq < c)
  <2>1. ord \in SUBSET DOMAIN order /\ c \in Nat
    BY DEF IInv, TypeOK
  <2>2. /\ E \subseteq DOMAIN map
        /\ \A j \in DOMAIN map : j \in E <=> map[j].seq \in ord /\ map[j].seq < c
    BY <1>e, <2>1, EvictedKeys DEF IInv
  <2>3. \A j \in DOMAIN map : map[j].seq \in ord <=> j # k
    BY <1>2 DEF IInv, OrderMatchesMap
  <2> QED
    BY <1>2, <2>2, <2>3
<1>4. /\ DOMAIN map = (left \cup E) \cup {k}
      /\ left \cap E = {} /\ (left \cup E) \cap {k} = {} /\ k \notin left
      /\ DOMAIN map \ E = left \cup {k}
  BY <1>l, <1>2, <1>3
<1>5. /\ IsFiniteSet(DOMAIN map) /\ IsFiniteSet(left) /\ IsFiniteSet(E)
      /\ IsFiniteSet(left \cup E) /\ IsFiniteSet({k})
  BY <1>4, FS_Subset DEF IInv, EntriesFresh
<1>6. /\ Sized(map, DOMAIN map) /\ Sized(map, left) /\ Sized(map, E)
      /\ Sized(map, left \cup E) /\ Sized(map, {k})
  BY <1>4 DEF Sized, IInv, TypeOK, Entry
<1>7. /\ DOMAIN map' = left \cup {k}
      /\ map'[k] = [map[k] EXCEPT !.size = @ + b]
      /\ \A j \in left : map'[j] = map[j] /\ j \in DOMAIN map
  BY <1>a, <1>e, <1>4
<1>8. /\ map'[k] \in Entry /\ map'[k].size = map[k].size + b
      /\ map'[k].arc = map[k].arc /\ map'[k].len = map[k].len
      /\ map'[k].seq = map[k].seq
  BY <1>2, <1>7 DEF Entry
<1>9. /\ DOMAIN order' = {t \in ord : t >= c} \cup {map[k].seq}
      /\ \A s \in DOMAIN order' : order'[s] = order[s]
  BY <1>a
<1>10. current_memory = MemoryOf(map, left) + MemoryOf(map, E) + map[k].size
  <2>1. MemoryOf(map, DOMAIN map) = MemoryOf(map, left \cup E) + MemoryOf(map, {k})
    BY <1>4, <1>5, <1>6, MemoryOfUnion
  <2>2. MemoryOf(map, left \cup E) = MemoryOf(map, left) + MemoryOf(map, E)
    BY <1>4, <1>5, <1>6, MemoryOfUnion
  <2>3. MemoryOf(map, {k}) = map[k].size
    BY <1>6, MemoryOfOne DEF Sized
  <2> QED
    BY <2>1, <2>2, <2>3 DEF IInv, MemoryAccounted
<1>11. /\ MemoryOf(map, left) \in Nat /\ MemoryOf(map, E) \in Nat
       /\ map[k].size \in Nat /\ map[k].len \in Nat
  BY <1>2, <1>5, <1>6, BytesFinite DEF Entry
<1>12. current_memory' = MemoryOf(map, left) + map[k].size + b
  <2>1. current_memory' = current_memory + b - MemoryOf(map, E)
    <3>1. current_memory' = Grown(b) - MemoryOf(map, E)
      BY <1>a, <1>e
    <3> QED
      BY <1>2, <1>11, <3>1 DEF Grown, IInv, TypeOK
  <2> QED
    BY <1>2, <1>10, <1>11, <2>1
<1>13. MemoryOf(map', DOMAIN map') = current_memory'
  <2>1. MemoryOf(map', left) = MemoryOf(map, left)
    <3>1. \A j \in left : map'[j].size = map[j].size
      BY <1>7
    <3> QED
      BY <3>1, MemoryOfSame
  <2>n. map'[k].size \in Nat
    BY <1>2, <1>8, <1>11
  <2>2. MemoryOf(map', {k}) = map[k].size + b
    BY <1>8, <2>n, MemoryOfOne
  <2>3. Sized(map', left) /\ Sized(map', {k})
    BY <1>6, <1>7, <2>n DEF Sized
  <2>4. MemoryOf(map', left \cup {k}) = MemoryOf(map', left) + MemoryOf(map', {k})
    BY <1>4, <1>5, <2>3, MemoryOfUnion
  <2> QED
    BY <1>2, <1>7, <1>11, <1>12, <2>1, <2>2, <2>4
<1>14. MemoryAccounted'
  BY <1>13 DEF MemoryAccounted
<1>15. f.arc \in Charging /\ map[k].size = map[k].len
  <2>1. f.arc \in Charging
    BY DEF Charging
  <2> QED
    BY <1>2, <1>11, <2>1 DEF IInv, EncodingCountedOnce
<1>16. WithinLimits'
  <2>1. Cardinality(left \cup {k}) <= Cardinality(DOMAIN map)
    BY <1>2, <1>4, <1>5, FS_Subset
  <2>2. Cardinality(left \cup {k}) \in Nat /\ Cardinality(DOMAIN map) \in Nat
    BY <1>4, <1>5, FS_CardinalityType, FS_Union
  <2>3. Cardinality(DOMAIN map') <= MaxSize
    BY <1>7, <2>1, <2>2, ConstantsAssumption DEF IInv, WithinLimits
  <2>4. CASE left = {}
    <3>1. MemoryOf(map, left) = 0
      BY <2>4, MemoryOfNone
    <3>2. map[k].len + map[k].len <= MaxMemory
      BY <1>2, <1>11, KeptTwiceFits DEF IInv, EntriesFresh
    <3>3. current_memory' <= MaxMemory
      BY <1>2, <1>11, <1>12, <1>15, <3>1, <3>2, ConstantsAssumption
    <3> QED
      BY <1>13, <2>3, <3>3 DEF WithinLimits
  <2>5. CASE left # {}
    <3>1. current_memory' <= MaxMemory
      BY <1>a, <1>e, <1>l, <2>5
    <3> QED
      BY <1>13, <2>3, <3>1 DEF WithinLimits
  <2> QED
    BY <2>4, <2>5
<1>17. /\ held'[w] = {} /\ \A v \in Workers : v # w => held'[v] = held[v]
       /\ held' \in [Workers -> SUBSET File]
       /\ made'[w] = 0 /\ \A v \in Workers : v # w => made'[v] = made[v]
       /\ made' \in [Workers -> Nat]
  BY DEF IInv, TypeOK
<1>18. Charging' = Charging \ {f.arc}
  BY <1>2, <1>17, DischargedArc
<1>19. TypeOK'
  <2>1. map' \in [DOMAIN map' -> Entry] /\ DOMAIN map' \subseteq Keys
    <3>1. \A j \in DOMAIN map' : map'[j] \in Entry /\ j \in DOMAIN map
      BY <1>2, <1>7, <1>8 DEF IInv, TypeOK
    <3> QED
      BY <1>a, <1>7, <3>1 DEF IInv, TypeOK
  <2>2. order' \in [DOMAIN order' -> Keys] /\ DOMAIN order' \subseteq Nat
    <3>1. \A s \in DOMAIN order' : order'[s] \in Keys /\ s \in Nat
      BY <1>2, <1>9 DEF IInv, TypeOK, OrderMatchesMap
    <3> QED
      BY <1>a, <1>9, <3>1
  <2>3. current_memory' \in Nat
    BY <1>2, <1>11, <1>12
  <2> QED
    BY <1>a, <1>17, <2>1, <2>2, <2>3 DEF IInv, TypeOK
<1>20. OrderMatchesMap'
  <2>1. \A j \in left : /\ map[j].seq \in ord /\ map[j].seq >= c
                         /\ order[map[j].seq] = j
    BY <1>l, <1>2, <1>3 DEF IInv, OrderMatchesMap, TypeOK, Entry
  <2>2. \A s \in ord : s >= c => order[s] \in left /\ map[order[s]].seq = s
    BY <1>l, <1>2, <1>3 DEF IInv, OrderMatchesMap, TypeOK, Entry
  <2>3. ASSUME NEW j \in DOMAIN map'
        PROVE  map'[j].seq \in DOMAIN order' /\ order'[map'[j].seq] = j
    <3>1. CASE j = k
      BY <1>2, <1>8, <1>9, <3>1 DEF IInv, OrderMatchesMap
    <3>2. CASE j # k
      BY <1>7, <1>9, <2>1, <2>3, <3>2
    <3> QED
      BY <3>1, <3>2
  <2>4. ASSUME NEW s \in DOMAIN order'
        PROVE  order'[s] \in DOMAIN map' /\ map'[order'[s]].seq = s
    <3>1. CASE s = map[k].seq
      <4>1. order'[s] = k
        BY <1>2, <1>9, <3>1 DEF IInv, OrderMatchesMap
      <4> QED
        BY <1>7, <1>8, <3>1, <4>1
    <3>2. CASE s # map[k].seq
      BY <1>7, <1>9, <2>2, <2>4, <3>2
    <3> QED
      BY <3>1, <3>2
  <2>5. \A s \in DOMAIN order' : s < next_seq'
    BY <1>a, <1>2, <1>9 DEF IInv, OrderMatchesMap
  <2> QED
    BY <2>3, <2>4, <2>5 DEF OrderMatchesMap
<1>21. \A j \in DOMAIN map' : /\ j \in DOMAIN map
                               /\ map'[j].arc = map[j].arc /\ map'[j].len = map[j].len
  BY <1>2, <1>7, <1>8
<1>22. EncodingCountedOnce'
  <2>1. ASSUME NEW j \in left
        PROVE  /\ map'[j] = map[j] /\ j \in DOMAIN map /\ map[j].arc # f.arc
               /\ slot'[map[j].arc] = slot[map[j].arc]
    BY <1>2, <1>4, <1>7 DEF IInv, EntriesFresh
  <2>2. ASSUME NEW j \in left
        PROVE  map'[j].size = map'[j].len +
                  (IF slot'[map'[j].arc] <= 0 \/ map'[j].arc \in Charging'
                   THEN 0 ELSE slot'[map'[j].arc])
    BY <1>18, <2>1 DEF IInv, EncodingCountedOnce
  <2>3. map'[k].size = map'[k].len +
                  (IF slot'[map'[k].arc] <= 0 \/ map'[k].arc \in Charging'
                   THEN 0 ELSE slot'[map'[k].arc])
    <3>1. slot'[map'[k].arc] = b /\ map'[k].arc \notin Charging'
      BY <1>2, <1>8, <1>18
    <3> QED
      BY <1>2, <1>8, <1>11, <1>15, <3>1
  <2> QED
    BY <1>7, <2>2, <2>3 DEF EncodingCountedOnce
<1>23. EntriesFresh'
  <2>1. IsFiniteSet(DOMAIN map')
    BY <1>5, <1>7, FS_AddElement
  <2> QED
    BY <1>a, <1>21, <2>1 DEF IInv, EntriesFresh, Keeps
<1>24. HeldMatches'
  BY <1>17, <1>21 DEF IInv, HeldMatches
<1>25. ChargePending'
  BY <1>17 DEF IInv, ChargePending
<1> QED
  BY <1>14, <1>16, <1>19, <1>20, <1>22, <1>23, <1>24, <1>25 DEF IInv

LEMMA AddEncodingKeepsIInv ==
    ASSUME IInv, NEW w \in Workers, AddEncoding(w)
    PROVE  IInv'
<1>1. PICK f \in held[w] : \/ StillCached(f) /\ Grow(f.key, made[w])
                           \/ ~ StillCached(f) /\ UNCHANGED inner
  BY DEF AddEncoding
<1>2. /\ made[w] > 0 /\ held' = [held EXCEPT ![w] = {}]
      /\ made' = [made EXCEPT ![w] = 0] /\ UNCHANGED <<hits, misses, slot>>
  BY DEF AddEncoding
<1>3. CASE StillCached(f) /\ Grow(f.key, made[w])
  BY <1>2, <1>3, GrowKeepsIInv
<1>4. CASE ~ StillCached(f) /\ UNCHANGED inner
  <2>1. UNCHANGED <<map, order, current_memory, next_seq>>
    BY <1>4 DEF inner
  <2>2. /\ held'[w] = {} /\ \A v \in Workers : v # w => held'[v] = held[v]
        /\ held' \in [Workers -> SUBSET File]
        /\ made'[w] = 0 /\ \A v \in Workers : v # w => made'[v] = made[v]
        /\ made' \in [Workers -> Nat]
    BY <1>2 DEF IInv, TypeOK
  <2>3. Charging' = Charging \ {f.arc}
    BY <1>2, <2>2, DischargedArc
  <2>4. TypeOK'
    BY <1>2, <2>1, <2>2 DEF IInv, TypeOK
  <2>5. OrderMatchesMap' /\ MemoryAccounted' /\ WithinLimits'
    BY <2>1 DEF IInv, OrderMatchesMap, MemoryAccounted, WithinLimits
  <2>6. \A k \in DOMAIN map : map[k].arc # f.arc
    BY <1>4 DEF IInv, HeldMatches, StillCached
  <2>7. EncodingCountedOnce'
    BY <1>2, <2>1, <2>3, <2>6 DEF IInv, EncodingCountedOnce
  <2>8. EntriesFresh' /\ HeldMatches'
    BY <1>2, <2>1, <2>2 DEF IInv, EntriesFresh, HeldMatches, Keeps
  <2>9. ChargePending'
    BY <1>2, <2>2 DEF IInv, ChargePending
  <2> QED
    BY <2>4, <2>5, <2>7, <2>8, <2>9 DEF IInv
<1> QED
  BY <1>1, <1>3, <1>4

-----------------------------------------------------------------------------
(* The theorems.                                                           *)

LEMMA NextKeepsIInv == IInv /\ [Next]_vars => IInv'
<1> SUFFICES ASSUME IInv, [Next]_vars PROVE IInv'
  OBVIOUS
<1>1. CASE UNCHANGED vars
  <2>1. UNCHANGED <<map, order, current_memory, next_seq, hits, misses, slot, held, made>>
    BY <1>1 DEF vars, inner
  <2>2. TypeOK' /\ OrderMatchesMap' /\ MemoryAccounted' /\ WithinLimits'
    BY <2>1 DEF IInv, TypeOK, OrderMatchesMap, MemoryAccounted, WithinLimits
  <2>3. EncodingCountedOnce' /\ EntriesFresh' /\ HeldMatches' /\ ChargePending'
    BY <2>1 DEF IInv, EncodingCountedOnce, Charging, EntriesFresh, HeldMatches,
                ChargePending, Keeps
  <2> QED
    BY <2>2, <2>3 DEF IInv
<1>2. CASE \E w \in Workers, k \in Keys : GetHit(w, k)
  BY <1>2, GetHitKeepsIInv
<1>3. CASE \E k \in Keys : GetMiss(k)
  BY <1>3, GetMissKeepsIInv
<1>4. CASE \E w \in Workers, k \in Keys, n \in Lens : InsertKept(w, k, n)
  BY <1>4, InsertKeptKeepsIInv
<1>5. CASE \E w \in Workers, k \in Keys, n \in Lens : InsertOversized(w, k, n)
  BY <1>5, InsertOversizedKeepsIInv
<1>6. CASE \E w \in Workers : Encode(w)
  BY <1>6, EncodeKeepsIInv
<1>7. CASE \E w \in Workers : Release(w)
  BY <1>7, ReleaseKeepsIInv
<1>8. CASE \E w \in Workers : AddEncoding(w)
  BY <1>8, AddEncodingKeepsIInv
<1> QED
  BY <1>1, <1>2, <1>3, <1>4, <1>5, <1>6, <1>7, <1>8 DEF Next

LEMMA Invariance == Spec => []IInv
BY InitIInv, NextKeepsIInv, PTL DEF Spec

\* Type correctness; current_memory, a usize of the code, never underflows.
THEOREM CacheTypeCorrect == Spec => []TypeOK
<1>1. IInv => TypeOK
  BY DEF IInv
<1> QED
  BY <1>1, Invariance, PTL

\* The two indexes of the cache are inverse to each other.
THEOREM CacheOrderMatchesMap == Spec => []OrderMatchesMap
<1>1. IInv => OrderMatchesMap
  BY DEF IInv
<1> QED
  BY <1>1, Invariance, PTL

\* No byte of an entry is lost or counted twice.
THEOREM CacheMemoryAccounted == Spec => []MemoryAccounted
<1>1. IInv => MemoryAccounted
  BY DEF IInv
<1> QED
  BY <1>1, Invariance, PTL

\* The cache is within both of its limits, the encodings included.
THEOREM CacheWithinLimits == Spec => []WithinLimits
<1>1. IInv => WithinLimits
  BY DEF IInv
<1> QED
  BY <1>1, Invariance, PTL

\* An encoding is charged once, to the entry it was made for and no other.
THEOREM CacheEncodingCountedOnce == Spec => []EncodingCountedOnce
<1>1. IInv => EncodingCountedOnce
  BY DEF IInv
<1> QED
  BY <1>1, Invariance, PTL

-----------------------------------------------------------------------------
(* What client.rs needs of the cache: FileCache implements KeyedCache.     *)

Arcs == [k \in DOMAIN map |-> map[k].arc]

Keyed == INSTANCE KeyedCache WITH Values <- Nat, stored <- Arcs

LEMMA SameArcs ==
    ASSUME map' = map
    PROVE  UNCHANGED Arcs
BY DEF Arcs

LEMMA GetHitKeepsArcs ==
    ASSUME TypeOK, NEW w \in Workers, NEW k \in Keys, GetHit(w, k)
    PROVE  UNCHANGED Arcs
<1>1. map' = [map EXCEPT ![k].seq = next_seq] /\ k \in DOMAIN map
  BY DEF GetHit
<1>2. map \in [DOMAIN map -> Entry]
  BY DEF TypeOK
<1>3. DOMAIN map' = DOMAIN map
  BY <1>1, <1>2
<1>4. ASSUME NEW j \in DOMAIN map
      PROVE  map'[j].arc = map[j].arc
  BY <1>1, <1>2 DEF Entry
<1> QED
  BY <1>3, <1>4 DEF Arcs

LEMMA InsertKeptPuts ==
    ASSUME TypeOK, NEW w \in Workers, NEW k \in Keys, NEW n \in Lens, InsertKept(w, k, n)
    PROVE  Keyed!Put(k, next_seq)
<1>1. PICK E : map' = [j \in ((DOMAIN map \ {k}) \ E) \cup {k} |->
                         IF j = k
                         THEN [arc |-> next_seq, len |-> n, size |-> n, seq |-> next_seq]
                         ELSE map[j]]
  BY DEF InsertKept
<1> PICK kept : kept = (DOMAIN map \ {k}) \ E
  OBVIOUS
<1>2. Arcs' = [j \in kept \cup {k} |-> IF j = k THEN next_seq ELSE Arcs[j]]
  BY <1>1 DEF Arcs
<1>3. kept \in SUBSET (DOMAIN Arcs \ {k})
  BY DEF Arcs
<1> QED
  BY <1>2, <1>3 DEF Keyed!Put

LEMMA AddEncodingDrops ==
    ASSUME TypeOK, NEW w \in Workers, AddEncoding(w)
    PROVE  Keyed!Drop \/ UNCHANGED Arcs
<1>1. CASE inner' = inner
  BY <1>1, SameArcs DEF inner
<1>2. ASSUME NEW f \in held[w], StillCached(f), Grow(f.key, made[w])
      PROVE  Keyed!Drop
  <2> PICK k : k = f.key
    OBVIOUS
  <2>1. k \in DOMAIN map
    BY <1>2 DEF StillCached
  <2>2. PICK E : map' = [j \in DOMAIN map \ E |->
                           IF j = k THEN [map[k] EXCEPT !.size = @ + made[w]] ELSE map[j]]
    BY <1>2 DEF Grow
  <2> PICK kept : kept = DOMAIN map \ E
    OBVIOUS
  <2>3. [map[k] EXCEPT !.size = @ + made[w]].arc = map[k].arc
    BY <2>1 DEF TypeOK, Entry
  <2>4. Arcs' = [j \in kept |-> Arcs[j]]
    BY <2>2, <2>3 DEF Arcs
  <2>5. kept \in SUBSET DOMAIN Arcs
    BY DEF Arcs
  <2> QED
    BY <2>4, <2>5 DEF Keyed!Drop
<1> QED
  BY <1>1, <1>2 DEF AddEncoding

LEMMA StepIsKeyed ==
    ASSUME TypeOK, [Next]_vars
    PROVE  [Keyed!KeyedNext]_Arcs
<1>1. CASE \E w \in Workers, k \in Keys : GetHit(w, k)
  BY <1>1, GetHitKeepsArcs
<1>2. CASE \E w \in Workers, k \in Keys, n \in Lens : InsertKept(w, k, n)
  <2>1. next_seq \in Nat
    BY DEF TypeOK
  <2>2. \E k \in Keys : Keyed!Put(k, next_seq)
    BY <1>2, InsertKeptPuts
  <2> QED
    BY <2>1, <2>2 DEF Keyed!KeyedNext
<1>3. CASE \E w \in Workers : AddEncoding(w)
  BY <1>3, AddEncodingDrops DEF Keyed!KeyedNext
<1>4. CASE map' = map
  BY <1>4, SameArcs
<1> QED
  BY <1>1, <1>2, <1>3, <1>4
  DEF Next, vars, inner, GetMiss, InsertOversized, Encode, Release

\* Under a key the cache holds what was last inserted there, or nothing: no
\* eviction, growth or hit ever leaves another file's bytes under a key.
THEOREM CacheIsKeyed == Spec => Keyed!KeyedSpec
<1>1. Init => Keyed!KeyedInit
  BY DEF Init, Keyed!KeyedInit, Arcs
<1>2. TypeOK /\ [Next]_vars => [Keyed!KeyedNext]_Arcs
  BY StepIsKeyed
<1> QED
  BY <1>1, <1>2, CacheTypeCorrect, PTL DEF Spec, Keyed!KeyedSpec

-----------------------------------------------------------------------------
(* The cache is an LRU cache.                                              *)

\* What an encoding costs is one of the lengths gzip produces.
MadeByGzip == \A w \in Workers : made[w] > 0 => made[w] \in EncodedLens

LEMMA MadeInvariance == Spec => []MadeByGzip
<1>1. Init => MadeByGzip
  BY DEF Init, MadeByGzip
<1>2. TypeOK /\ MadeByGzip /\ [Next]_vars => MadeByGzip'
  <2> SUFFICES ASSUME TypeOK, MadeByGzip, [Next]_vars
               PROVE  MadeByGzip'
    OBVIOUS
  <2>1. ASSUME NEW w \in Workers, Encode(w)
        PROVE  MadeByGzip'
    <3>1. made' = made \/ \E b \in EncodedLens : made' = [made EXCEPT ![w] = b]
      BY <2>1 DEF Encode
    <3> QED
      BY <3>1 DEF MadeByGzip, TypeOK
  <2>2. ASSUME NEW w \in Workers, AddEncoding(w)
        PROVE  MadeByGzip'
    BY <2>2 DEF AddEncoding, MadeByGzip, TypeOK
  <2>3. CASE UNCHANGED made
    BY <2>3 DEF MadeByGzip
  <2> QED
    BY <2>1, <2>2, <2>3
       DEF Next, vars, GetHit, GetMiss, InsertKept, InsertOversized, Release
<1> QED
  BY <1>1, <1>2, CacheTypeCorrect, PTL DEF Spec

\* The order of the keys is that of the sequence numbers of their entries.
OrderedBySeq ==
    /\ Older \subseteq Keys \X Keys
    /\ \A i, j \in Keys : <<i, j>> \in Older <=>
          i \in DOMAIN map /\ j \in DOMAIN map /\ map[i].seq < map[j].seq

LEMMA OlderBySeq == TypeOK /\ OrderMatchesMap => OrderedBySeq
<1> SUFFICES ASSUME TypeOK, OrderMatchesMap PROVE OrderedBySeq
  OBVIOUS
<1>1. ASSUME NEW i \in Keys, NEW j \in Keys, <<i, j>> \in Older
      PROVE  i \in DOMAIN map /\ j \in DOMAIN map /\ map[i].seq < map[j].seq
  <2>1. PICK s \in DOMAIN order, t \in DOMAIN order : s < t /\ i = order[s] /\ j = order[t]
    BY <1>1 DEF Older
  <2> QED
    BY <2>1 DEF OrderMatchesMap
<1>2. ASSUME NEW i \in Keys, NEW j \in Keys, i \in DOMAIN map, j \in DOMAIN map, map[i].seq < map[j].seq
      PROVE  <<i, j>> \in Older
  <2>1. /\ map[i].seq \in DOMAIN order /\ order[map[i].seq] = i
        /\ map[j].seq \in DOMAIN order /\ order[map[j].seq] = j
    BY <1>2 DEF OrderMatchesMap
  <2> QED
    BY <1>2, <2>1 DEF Older
<1>3. Older \subseteq Keys \X Keys
  BY Zenon DEF Older
<1> QED
  BY <1>1, <1>2, <1>3 DEF OrderedBySeq

LEMMA SamePairs ==
    ASSUME NEW A, NEW B, A \subseteq Keys \X Keys, B \subseteq Keys \X Keys,
           \A i, j \in Keys : <<i, j>> \in A <=> <<i, j>> \in B
    PROVE  A = B
OBVIOUS

\* The instance counts with the same operator.
LEMMA SameCount == \A S : Lru!Cardinality(S) = Cardinality(S)
BY Zenon DEF Lru!Cardinality, Cardinality

LEMMA BytesAreMemory ==
    ASSUME NEW S, S \subseteq DOMAIN map
    PROVE  Lru!Bytes(S) = MemoryOf(map, S)
<1>1. \A k \in S : Charged[k] = map[k].size
  BY DEF Charged
<1>2. {{k} \X (1 .. Charged[k]) : k \in S} = {{k} \X (1 .. map[k].size) : k \in S}
  BY <1>1
<1>3. Lru!Bytes(S) = Cardinality(UNION {{k} \X (1 .. Charged[k]) : k \in S})
  BY SameCount DEF Lru!Bytes
<1>4. MemoryOf(map, S) = Cardinality(UNION {{k} \X (1 .. map[k].size) : k \in S})
  BY DEF MemoryOf, BytesOf
<1> QED
  BY <1>2, <1>3, <1>4

\* The entries of S and those that are evicted of them make up S.
LEMMA MemoryLeft ==
    ASSUME IInv, NEW S, S \subseteq DOMAIN map, NEW E, E \subseteq S
    PROVE  /\ MemoryOf(map, S \ E) \in Nat /\ MemoryOf(map, E) \in Nat
           /\ MemoryOf(map, S) = MemoryOf(map, S \ E) + MemoryOf(map, E)
<1>1. IsFiniteSet(S \ E) /\ IsFiniteSet(E)
  <2>1. S \ E \in SUBSET DOMAIN map /\ E \in SUBSET DOMAIN map
    OBVIOUS
  <2> QED
    BY <2>1, FS_Subset DEF IInv, EntriesFresh
<1>2. Sized(map, S \ E) /\ Sized(map, E)
  BY DEF Sized, IInv, TypeOK, Entry
<1>3. (S \ E) \cup E = S /\ (S \ E) \cap E = {}
  OBVIOUS
<1> QED
  BY <1>1, <1>2, <1>3, MemoryOfUnion, BytesFinite

\* What is left of the entries of S when the loop stops at c is what is newest
\* of them, and anything more of them is what was left at some d before.
CutIsRest(S, ord, c, left) ==
    /\ left \in Lru!Rests(S)
    /\ \A d \in Nat : Evicted(ord, d) \subseteq S
    /\ \A T \in Lru!Rests(S) : left \subseteq T /\ T # left =>
          \E d \in 0 .. c : Evicted(ord, d) # Evicted(ord, c) /\ T = S \ Evicted(ord, d)

LEMMA CutsAreRests ==
    ASSUME IInv, NEW ord \in SUBSET DOMAIN order, NEW S \in SUBSET DOMAIN map,
           \A j \in DOMAIN map : map[j].seq \in ord <=> j \in S,
           NEW c \in Nat, NEW left, left = S \ Evicted(ord, c)
    PROVE  CutIsRest(S, ord, c, left)
<1>1. \A d \in Nat : /\ Evicted(ord, d) \subseteq S
                     /\ \A j \in S : j \in Evicted(ord, d) <=> map[j].seq < d
  BY EvictedKeys DEF IInv
<1>2. /\ \A i, j \in S : <<i, j>> \in Older <=> map[i].seq < map[j].seq
      /\ \A i \in S : map[i].seq \in Nat
  <2>1. S \subseteq Keys
    BY DEF IInv, TypeOK
  <2>2. \A i \in S : map[i].seq \in Nat
    BY DEF IInv, TypeOK, Entry
  <2> QED
    BY <2>1, <2>2, OlderBySeq DEF IInv, OrderedBySeq
<1>3. left \in Lru!Rests(S)
  <2> SUFFICES ASSUME NEW i \in left, NEW j \in S, <<i, j>> \in Older
               PROVE  j \in left
    BY DEF Lru!Rests
  <2>1. ~ (map[i].seq < c) /\ map[i].seq < map[j].seq
    BY <1>1, <1>2
  <2>2. ~ (map[j].seq < c)
    BY <1>2, <2>1
  <2> QED
    BY <1>1, <2>2
<1>4. ASSUME NEW T \in Lru!Rests(S), left \subseteq T, T # left
      PROVE  \E d \in 0 .. c : Evicted(ord, d) # Evicted(ord, c) /\ T = S \ Evicted(ord, d)
  <2>0. T \subseteq S /\ \A i \in T, j \in S : map[i].seq < map[j].seq => j \in T
    BY <1>2, <1>4 DEF Lru!Rests
  <2> DEFINE N == {map[j].seq : j \in T}
  <2>1. PICK x \in T : x \notin left
    BY <1>4
  <2>2. N \subseteq Nat /\ N # {}
    BY <1>2, <2>0, <2>1
  <2>3. PICK d \in N : \A e \in N : d <= e
    BY <2>2, Least
  <2>4. PICK y \in T : d = map[y].seq
    BY <2>3
  <2>5. map[x].seq < c /\ d <= map[x].seq
    BY <1>1, <2>0, <2>1, <2>3
  <2>6. d \in 0 .. c
    BY <1>2, <2>0, <2>1, <2>2, <2>3, <2>5
  <2>7. \A j \in S : j \in T <=> ~ (map[j].seq < d)
    <3>1. \A j \in T : d <= map[j].seq
      BY <2>3
    <3>2. \A j \in S : map[j].seq = d => j = y
      BY <2>0, <2>4 DEF IInv, OrderMatchesMap
    <3> QED
      BY <1>2, <2>0, <2>4, <3>1, <3>2
  <2>8. T = S \ Evicted(ord, d)
    BY <1>1, <2>0, <2>6, <2>7
  <2> QED
    BY <2>6, <2>8, <1>4
<1> QED
  BY <1>1, <1>3, <1>4 DEF CutIsRest

LEMMA GetHitUses ==
    ASSUME IInv, OrderedBySeq, OrderedBySeq', NEW w \in Workers, NEW k \in Keys, GetHit(w, k)
    PROVE  Lru!Use(k)
<1>1. /\ k \in DOMAIN map /\ DOMAIN map' = DOMAIN map
      /\ \A j \in DOMAIN map : /\ map'[j].size = map[j].size
                                /\ map'[j].seq = IF j = k THEN next_seq ELSE map[j].seq
  BY DEF GetHit, IInv, TypeOK, Entry
<1>2. \A j \in DOMAIN map : map[j].seq \in Nat /\ map[j].seq < next_seq /\ next_seq \in Nat
  BY DEF IInv, TypeOK, Entry, OrderMatchesMap
<1>3. DOMAIN map \subseteq Keys
  BY DEF IInv, TypeOK
<1> DEFINE others == DOMAIN map \ {k}
           Then == (Older \cap (others \X others)) \cup (others \X {k})
<1>4. Older' = Then
  <2>1. Then \subseteq Keys \X Keys /\ Older' \subseteq Keys \X Keys
    BY <1>3 DEF OrderedBySeq
  <2>2. ASSUME NEW i \in Keys, NEW j \in Keys
        PROVE  <<i, j>> \in Older' <=> <<i, j>> \in Then
    <3>1. <<i, j>> \in Older' <=> i \in DOMAIN map /\ j \in DOMAIN map /\ map'[i].seq < map'[j].seq
      BY <1>1 DEF OrderedBySeq
    <3>2. <<i, j>> \in Then <=>
             \/ i \in others /\ j \in others /\ map[i].seq < map[j].seq
             \/ i \in others /\ j = k
      BY DEF OrderedBySeq
    <3> QED
      BY <1>1, <1>2, <3>1, <3>2
  <2> HIDE DEF Then
  <2> QED
    BY <2>1, <2>2, SamePairs
<1>5. Charged' = Charged
  BY <1>1 DEF Charged
<1>6. Lru!cached = DOMAIN map
  BY DEF Lru!cached, Charged
<1> QED
  BY <1>1, <1>4, <1>5, <1>6 DEF Lru!Use, Lru!Among


LEMMA InsertKeptStores ==
    ASSUME IInv, OrderedBySeq, OrderedBySeq',
           NEW w \in Workers, NEW k \in Keys, NEW n \in Lens, InsertKept(w, k, n)
    PROVE  Lru!Store(k, n)
<1> DEFINE others == DOMAIN map \ {k}
           ord == DOMAIN order \ (IF k \in DOMAIN map THEN {map[k].seq} ELSE {})
           Room(E) == \/ others \ E = {}
                      \/ /\ Cardinality(others \ E) < MaxSize
                         /\ Remaining(k) - MemoryOf(map, E) + n <= MaxMemory
           Fits(S) == Lru!Cardinality(S) < MaxSize /\ Lru!Bytes(S) + n <= MaxMemory
           new == [arc |-> next_seq, len |-> n, size |-> n, seq |-> next_seq]
<1>1. PICK c \in 0 .. next_seq :
         /\ Room(Evicted(ord, c))
         /\ \A d \in 0 .. c : Evicted(ord, d) # Evicted(ord, c) => ~ Room(Evicted(ord, d))
         /\ map' = [j \in (others \ Evicted(ord, c)) \cup {k} |-> IF j = k THEN new ELSE map[j]]
  BY DEF InsertKept, LoopStops
<1>2. PICK left : left = others \ Evicted(ord, c)
  OBVIOUS
<1>3. n \in Nat /\ next_seq \in Nat /\ c \in Nat /\ Keeps(n)
  BY ConstantsAssumption DEF InsertKept, IInv, TypeOK
<1>4. CutIsRest(others, ord, c, left)
  <2>1. \A j \in DOMAIN map : map[j].seq \in ord <=> j \in others
    BY DEF IInv, OrderMatchesMap
  <2>2. ord \in SUBSET DOMAIN order /\ others \in SUBSET DOMAIN map
    OBVIOUS
  <2> HIDE DEF ord, others
  <2> QED
    BY <1>2, <1>3, <2>1, <2>2, CutsAreRests
<1>5. \A d \in Nat : Room(Evicted(ord, d)) <=>
         others \ Evicted(ord, d) = {} \/ Fits(others \ Evicted(ord, d))
  <2> SUFFICES ASSUME NEW d \in Nat
               PROVE  Room(Evicted(ord, d)) <=>
                         others \ Evicted(ord, d) = {} \/ Fits(others \ Evicted(ord, d))
    OBVIOUS
  <2> PICK E : E = Evicted(ord, d)
    OBVIOUS
  <2>1. E \subseteq others /\ others \subseteq DOMAIN map /\ others \ E \subseteq DOMAIN map
    BY <1>4 DEF CutIsRest
  <2>2. Remaining(k) = MemoryOf(map, others)
    BY RemainingIsMemory
  <2>3. /\ MemoryOf(map, others \ E) \in Nat /\ MemoryOf(map, E) \in Nat
        /\ MemoryOf(map, others) = MemoryOf(map, others \ E) + MemoryOf(map, E)
    BY <2>1, MemoryLeft
  <2>4. Lru!Bytes(others \ E) = MemoryOf(map, others \ E)
    BY <2>1, BytesAreMemory
  <2>5. Remaining(k) - MemoryOf(map, E) + n = Lru!Bytes(others \ E) + n
    BY <1>3, <2>2, <2>3, <2>4
  <2>6. Lru!Cardinality(others \ E) = Cardinality(others \ E)
    BY SameCount
  <2> QED
    BY <2>5, <2>6
<1>6. Lru!Trimmed(others, left, Fits)
  <2>1. left = {} \/ Fits(left)
    BY <1>1, <1>2, <1>3, <1>5
  <2>2. ASSUME NEW T \in Lru!Rests(others), left \subseteq T, Fits(T), T # left
        PROVE  FALSE
    <3>1. PICK d \in 0 .. c : Evicted(ord, d) # Evicted(ord, c) /\ T = others \ Evicted(ord, d)
      BY <1>4, <2>2 DEF CutIsRest
    <3>2. ~ Room(Evicted(ord, d))
      <4> HIDE DEF Room, ord, others
      <4> QED
        BY <1>1, <3>1
    <3>3. d \in Nat
      BY <1>3, <3>1
    <3> HIDE DEF Room, Fits
    <3> QED
      BY <1>5, <2>2, <3>1, <3>2, <3>3
  <2> HIDE DEF Fits
  <2> QED
    BY <1>4, <2>1, <2>2 DEF Lru!Trimmed, CutIsRest
<1>7. /\ DOMAIN map' = left \cup {k} /\ k \notin left /\ left \subseteq DOMAIN map
      /\ map'[k] = new /\ \A j \in left : map'[j] = map[j]
  BY <1>1, <1>2
<1>8. Older' = Lru!Among(left) \cup (left \X {k})
  <2> DEFINE Then == (Older \cap (left \X left)) \cup (left \X {k})
  <2>1. /\ map'[k].seq = next_seq
        /\ \A j \in left : map'[j].seq = map[j].seq /\ map[j].seq \in Nat /\ map[j].seq < next_seq
    BY <1>7 DEF IInv, TypeOK, Entry, OrderMatchesMap
  <2>2. left \subseteq Keys
    BY <1>7 DEF IInv, TypeOK
  <2>3. Then \subseteq Keys \X Keys /\ Older' \subseteq Keys \X Keys
    BY <2>2 DEF OrderedBySeq
  <2>4. ASSUME NEW i \in Keys, NEW j \in Keys
        PROVE  <<i, j>> \in Older' <=> <<i, j>> \in Then
    <3>1. <<i, j>> \in Older' <=>
             i \in DOMAIN map' /\ j \in DOMAIN map' /\ map'[i].seq < map'[j].seq
      BY DEF OrderedBySeq
    <3>2. <<i, j>> \in Then <=>
             \/ i \in left /\ j \in left /\ map[i].seq < map[j].seq
             \/ i \in left /\ j = k
      BY <1>7 DEF OrderedBySeq
    <3> QED
      BY <1>3, <1>7, <2>1, <3>1, <3>2
  <2> HIDE DEF Then
  <2>5. Older' = Then
    BY <2>3, <2>4, SamePairs
  <2> QED
    BY <2>5 DEF Then, Lru!Among
<1>9. Charged' = [j \in left \cup {k} |-> IF j = k THEN n ELSE Charged[j]]
  <2>1. map'[k].size = n /\ \A j \in left : map'[j].size = Charged[j]
    BY <1>7 DEF Charged
  <2> QED
    BY <1>7, <2>1 DEF Charged
<1>10. Lru!cached = DOMAIN map /\ left \in SUBSET others
  BY <1>2 DEF Lru!cached, Charged
<1>11. MaxSize # 0 /\ KeepShare * n <= MaxMemory
  BY <1>3 DEF Keeps
<1> HIDE DEF Fits
<1> QED
  BY <1>6, <1>8, <1>9, <1>10, <1>11 DEF Lru!Store, Fits

LEMMA GrowEnlarges ==
    ASSUME IInv, OrderedBySeq, OrderedBySeq',
           NEW k \in DOMAIN map, NEW b \in Nat, Grow(k, b)
    PROVE  Lru!Enlarge(k, b)
<1> DEFINE others == DOMAIN map \ {k}
           ord == DOMAIN order \ {map[k].seq}
           Room(E) == \/ DOMAIN map \ (E \cup {k}) = {}
                      \/ Grown(b) - MemoryOf(map, E) <= MaxMemory
           Fits(S) == Lru!Bytes(S) + Charged[k] + b <= MaxMemory
           bigger == [map[k] EXCEPT !.size = @ + b]
<1>1. PICK c \in 0 .. next_seq :
         /\ Room(Evicted(ord, c))
         /\ \A d \in 0 .. c : Evicted(ord, d) # Evicted(ord, c) => ~ Room(Evicted(ord, d))
         /\ map' = [j \in DOMAIN map \ Evicted(ord, c) |-> IF j = k THEN bigger ELSE map[j]]
  BY DEF Grow, LoopStops
<1>2. PICK left : left = others \ Evicted(ord, c)
  OBVIOUS
<1>3. c \in Nat /\ map[k] \in Entry /\ map[k].size \in Nat /\ Charged[k] = map[k].size
  BY DEF IInv, TypeOK, Entry, Charged
<1>4. CutIsRest(others, ord, c, left)
  <2>1. \A j \in DOMAIN map : map[j].seq \in ord <=> j \in others
    BY DEF IInv, OrderMatchesMap
  <2>2. ord \in SUBSET DOMAIN order /\ others \in SUBSET DOMAIN map
    OBVIOUS
  <2> HIDE DEF ord, others
  <2> QED
    BY <1>2, <1>3, <2>1, <2>2, CutsAreRests
<1>5. \A d \in Nat : Room(Evicted(ord, d)) <=>
         others \ Evicted(ord, d) = {} \/ Fits(others \ Evicted(ord, d))
  <2> SUFFICES ASSUME NEW d \in Nat
               PROVE  Room(Evicted(ord, d)) <=>
                         others \ Evicted(ord, d) = {} \/ Fits(others \ Evicted(ord, d))
    OBVIOUS
  <2> PICK E : E = Evicted(ord, d)
    OBVIOUS
  <2>1. E \subseteq others /\ others \subseteq DOMAIN map /\ others \ E \subseteq DOMAIN map
    BY <1>4 DEF CutIsRest
  <2>2. current_memory = MemoryOf(map, others) + map[k].size /\ current_memory \in Nat
    <3>1. Remaining(k) = MemoryOf(map, others)
      BY RemainingIsMemory
    <3>2. Remaining(k) = current_memory - map[k].size /\ current_memory \in Nat
      BY DEF Remaining, IInv, TypeOK
    <3> QED
      BY <1>3, <3>1, <3>2
  <2>3. /\ MemoryOf(map, others \ E) \in Nat /\ MemoryOf(map, E) \in Nat
        /\ MemoryOf(map, others) = MemoryOf(map, others \ E) + MemoryOf(map, E)
    BY <2>1, MemoryLeft
  <2>4. Lru!Bytes(others \ E) = MemoryOf(map, others \ E)
    BY <2>1, BytesAreMemory
  <2>5. Grown(b) - MemoryOf(map, E) = Lru!Bytes(others \ E) + Charged[k] + b
    <3>1. Grown(b) = current_memory + b
      BY DEF Grown
    <3> QED
      BY <1>3, <2>2, <2>3, <2>4, <3>1
  <2>6. DOMAIN map \ (E \cup {k}) = others \ E
    OBVIOUS
  <2> HIDE DEF others
  <2> QED
    BY <2>5, <2>6
<1>6. Lru!Trimmed(others, left, Fits)
  <2>1. left = {} \/ Fits(left)
    BY <1>1, <1>2, <1>3, <1>5
  <2>2. ASSUME NEW T \in Lru!Rests(others), left \subseteq T, Fits(T), T # left
        PROVE  FALSE
    <3>1. PICK d \in 0 .. c : Evicted(ord, d) # Evicted(ord, c) /\ T = others \ Evicted(ord, d)
      BY <1>4, <2>2 DEF CutIsRest
    <3>2. ~ Room(Evicted(ord, d))
      <4> HIDE DEF Room, ord, others
      <4> QED
        BY <1>1, <3>1
    <3>3. d \in Nat
      BY <1>3, <3>1
    <3> HIDE DEF Room, Fits
    <3> QED
      BY <1>5, <2>2, <3>1, <3>2, <3>3
  <2> HIDE DEF Fits
  <2> QED
    BY <1>4, <2>1, <2>2 DEF Lru!Trimmed, CutIsRest
<1>7. /\ DOMAIN map' = left \cup {k} /\ k \notin left /\ left \subseteq DOMAIN map
      /\ map'[k] = bigger /\ \A j \in left : map'[j] = map[j]
  <2>1. Evicted(ord, c) \subseteq others
    BY <1>3, <1>4 DEF CutIsRest
  <2>2. DOMAIN map \ Evicted(ord, c) = left \cup {k} /\ k \notin left
    BY <1>2, <2>1
  <2> QED
    BY <1>1, <2>2
<1>8. Older' = Lru!Among(left \cup {k})
  <2> DEFINE Then == Older \cap ((left \cup {k}) \X (left \cup {k}))
  <2>1. \A j \in left \cup {k} : map'[j].seq = map[j].seq
    BY <1>3, <1>7 DEF Entry
  <2>2. left \cup {k} \subseteq Keys
    BY <1>7 DEF IInv, TypeOK
  <2>3. Then \subseteq Keys \X Keys /\ Older' \subseteq Keys \X Keys
    BY DEF OrderedBySeq
  <2>4. ASSUME NEW i \in Keys, NEW j \in Keys
        PROVE  <<i, j>> \in Older' <=> <<i, j>> \in Then
    <3>1. <<i, j>> \in Older' <=>
             i \in DOMAIN map' /\ j \in DOMAIN map' /\ map'[i].seq < map'[j].seq
      BY DEF OrderedBySeq
    <3>2. <<i, j>> \in Then <=>
             i \in left \cup {k} /\ j \in left \cup {k} /\ map[i].seq < map[j].seq
      BY <1>7 DEF OrderedBySeq
    <3> QED
      BY <1>7, <2>1, <3>1, <3>2
  <2> HIDE DEF Then
  <2>5. Older' = Then
    BY <2>3, <2>4, SamePairs
  <2> QED
    BY <2>5 DEF Then, Lru!Among
<1>9. Charged' = [j \in left \cup {k} |-> IF j = k THEN Charged[k] + b ELSE Charged[j]]
  <2>1. map'[k].size = Charged[k] + b /\ \A j \in left : map'[j].size = Charged[j]
    BY <1>3, <1>7 DEF Charged, Entry
  <2> QED
    BY <1>7, <2>1 DEF Charged
<1>10. Lru!cached = DOMAIN map /\ left \in SUBSET others
  BY <1>2 DEF Lru!cached, Charged
<1> HIDE DEF Fits
<1> QED
  BY <1>6, <1>8, <1>9, <1>10 DEF Lru!Enlarge, Fits

LEMMA SameEntries ==
    ASSUME UNCHANGED <<map, order>>
    PROVE  UNCHANGED Lru!lruVars
BY DEF Older, Charged, Lru!lruVars

LEMMA StepIsLru ==
    ASSUME IInv, OrderedBySeq, OrderedBySeq', MadeByGzip, [Next]_vars
    PROVE  [Lru!LruNext]_(Lru!lruVars)
<1>1. CASE \E w \in Workers, k \in Keys : GetHit(w, k)
  BY <1>1, GetHitUses DEF Lru!LruNext
<1>2. CASE \E w \in Workers, k \in Keys, n \in Lens : InsertKept(w, k, n)
  BY <1>2, InsertKeptStores DEF Lru!LruNext
<1>3. ASSUME NEW w \in Workers, AddEncoding(w)
      PROVE  [Lru!LruNext]_(Lru!lruVars)
  <2>1. PICK f \in held[w] : \/ StillCached(f) /\ Grow(f.key, made[w])
                             \/ ~ StillCached(f) /\ UNCHANGED inner
    BY <1>3 DEF AddEncoding
  <2>2. CASE UNCHANGED inner
    BY <2>2, SameEntries DEF inner
  <2>3. CASE StillCached(f) /\ Grow(f.key, made[w])
    <3>1. f.key \in DOMAIN map /\ DOMAIN map \subseteq Keys
      BY <2>3 DEF StillCached, IInv, TypeOK
    <3>2. made[w] \in EncodedLens /\ made[w] \in Nat
      BY <1>3 DEF AddEncoding, MadeByGzip, IInv, TypeOK
    <3>3. Lru!Enlarge(f.key, made[w])
      BY <2>3, <3>1, <3>2, GrowEnlarges
    <3> QED
      BY <3>1, <3>2, <3>3 DEF Lru!LruNext
  <2> QED
    BY <2>1, <2>2, <2>3
<1>4. CASE UNCHANGED <<map, order>>
  BY <1>4, SameEntries
<1> QED
  BY <1>1, <1>2, <1>3, <1>4
  DEF Next, vars, inner, GetMiss, InsertOversized, Encode, Release

\* The cache keeps what was used last: whatever the keys, the lengths and the
\* limits, every step of it is a step of an LRU cache, or changes neither the
\* order of the keys nor their bytes (insert, get, add_encoding).
THEOREM CacheIsLru == Spec => ImplementsLru
<1>1. Init => Lru!LruInit
  <2> SUFFICES ASSUME Init PROVE Lru!LruInit
    OBVIOUS
  <2>1. DOMAIN map = {} /\ DOMAIN order = {}
    BY DEF Init
  <2>2. Older = {} /\ Charged = [k \in {} |-> 0]
    BY <2>1 DEF Older, Charged
  <2> QED
    BY <2>2 DEF Lru!LruInit
<1>2. IInv => OrderedBySeq
  BY OlderBySeq DEF IInv
<1>3. IInv /\ OrderedBySeq /\ OrderedBySeq' /\ MadeByGzip /\ [Next]_vars => [Lru!LruNext]_(Lru!lruVars)
  BY StepIsLru
<1> QED
  BY <1>1, <1>2, <1>3, Invariance, MadeInvariance, PTL DEF Spec, ImplementsLru, Lru!LruSpec
=============================================================================
