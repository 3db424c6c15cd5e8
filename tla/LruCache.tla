------------------------------- MODULE LruCache -------------------------------
(***************************************************************************)
(* What a cache bounded by entry count and by bytes promises, without the  *)
(* sequence numbers and the two indexes of src/cache.rs: the cached keys   *)
(* are ordered by their last use; an access makes a key the newest; room   *)
(* is made from the oldest on and no further than needed.                  *)
(***************************************************************************)
EXTENDS Integers, FiniteSets

CONSTANTS Keys, Lens, EncodedLens, MaxSize, MaxMemory, KeepShare

VARIABLES older,  \* the pairs of cached keys of which the first was used before the second
          size    \* bytes charged to each cached key

lruVars == <<older, size>>
cached == DOMAIN size

LruInit == older = {} /\ size = [k \in {} |-> 0]

Among(S) == older \cap (S \X S)
Bytes(S) == Cardinality(UNION {{k} \X (1 .. size[k]) : k \in S})

\* What there can be of S after keys have gone, the oldest first.
Rests(S) == {T \in SUBSET S : \A i \in T, j \in S : <<i, j>> \in older => j \in T}

\* What there is of S when the fewest have gone for the rest to fit, or all.
Trimmed(S, left, Fits(_)) ==
    /\ left \in Rests(S)
    /\ left = {} \/ Fits(left)
    /\ \A T \in Rests(S) : left \subseteq T /\ Fits(T) => T = left

Use(k) ==
    /\ k \in cached
    /\ older' = Among(cached \ {k}) \cup ((cached \ {k}) \X {k})
    /\ UNCHANGED size

Store(k, n) ==
    LET Fits(S) == Cardinality(S) < MaxSize /\ Bytes(S) + n <= MaxMemory IN
    /\ MaxSize # 0 /\ KeepShare * n <= MaxMemory
    /\ \E left \in SUBSET (cached \ {k}) :
          /\ Trimmed(cached \ {k}, left, Fits)
          /\ older' = Among(left) \cup (left \X {k})
          /\ size' = [j \in left \cup {k} |-> IF j = k THEN n ELSE size[j]]

\* Growing is not a use: the key keeps its place in the order.
Enlarge(k, b) ==
    LET Fits(S) == Bytes(S) + size[k] + b <= MaxMemory IN
    /\ k \in cached
    /\ \E left \in SUBSET (cached \ {k}) :
          /\ Trimmed(cached \ {k}, left, Fits)
          /\ older' = Among(left \cup {k})
          /\ size' = [j \in left \cup {k} |-> IF j = k THEN size[k] + b ELSE size[j]]

LruNext ==
    \/ \E k \in Keys : Use(k)
    \/ \E k \in Keys, n \in Lens : Store(k, n)
    \/ \E k \in Keys, b \in EncodedLens : Enlarge(k, b)

LruSpec == LruInit /\ [][LruNext]_lruVars
=============================================================================
