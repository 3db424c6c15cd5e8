-------------------------- MODULE MCManagedProcess --------------------------
(***************************************************************************)
(* TLC instances of ManagedProcess.                                        *)
(***************************************************************************)
EXTENDS ManagedProcess

\* The parent's two requests, and one message for each check that fails: no
\* end of line, not signed, and for a launch that is over.
Request(launch, action) == [whole |-> TRUE, signed |-> TRUE, launch |-> launch, action |-> action]
MCMessages ==
    {Request("this", "status"), Request("this", "shutdown"), Request("other", "shutdown"),
     [Request("this", "shutdown") EXCEPT !.whole = FALSE],
     [Request("this", "shutdown") EXCEPT !.signed = FALSE]}
=============================================================================
