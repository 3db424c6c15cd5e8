---------------------------- MODULE MCAssetStore ----------------------------
(***************************************************************************)
(* TLC instances of AssetStore.                                            *)
(***************************************************************************)
EXTENDS AssetStore, TLC

\* One key per path: the requests spell each path one way.
MCKeyOf == [p \in Paths |-> p]
MCWorkerSymmetry == Permutations(Workers) \cup Permutations(Slots)
=============================================================================
