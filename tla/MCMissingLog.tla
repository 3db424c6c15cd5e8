----------------------------- MODULE MCMissingLog -----------------------------
(***************************************************************************)
(* TLC instances of MissingLog.                                            *)
(***************************************************************************)
EXTENDS MissingLog, TLC

\* The paths are alike, and so are the tasks.
Alike == Permutations(Paths) \cup Permutations(Tasks)
=============================================================================
