------------------------------ MODULE KeyedCache ------------------------------
(***************************************************************************)
(* What src/client.rs relies on in the file cache: under a key it finds    *)
(* the value last put there, or nothing.  Which entries go, and when, is   *)
(* left open; FileCache decides that and implements this module (theorem   *)
(* CacheIsKeyed), and AssetStore is built on it.                           *)
(***************************************************************************)
CONSTANTS Keys, Values

VARIABLE stored  \* key -> value, for the keys that have one

KeyedInit == stored = [k \in {} |-> k]

\* insert: v is under k afterwards and any other entry may have gone.
Put(k, v) ==
    \E kept \in SUBSET (DOMAIN stored \ {k}) :
       stored' = [j \in kept \cup {k} |-> IF j = k THEN v ELSE stored[j]]

\* Room was made, or a value too large to keep was handed straight back.
Drop ==
    \E kept \in SUBSET DOMAIN stored :
       stored' = [j \in kept |-> stored[j]]

KeyedNext == (\E k \in Keys, v \in Values : Put(k, v)) \/ Drop

KeyedSpec == KeyedInit /\ [][KeyedNext]_stored
=============================================================================
