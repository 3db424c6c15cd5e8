----------------------------- MODULE MCFileCache -----------------------------
(***************************************************************************)
(* TLC instances of FileCache.                                             *)
(***************************************************************************)
EXTENDS FileCache, TLC

MCSymmetry == Permutations(Keys) \cup Permutations(Workers)
=============================================================================
