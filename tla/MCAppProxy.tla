------------------------------ MODULE MCAppProxy ------------------------------
(***************************************************************************)
(* TLC instances of AppProxy.                                              *)
(***************************************************************************)
EXTENDS AppProxy

\* One request each that is refused for its method, its path and its size, and
\* two that are handed on.
MCRequests ==
    {[post |-> FALSE, allowed |-> TRUE, size |-> 0], [post |-> TRUE, allowed |-> FALSE, size |-> 0]}
    \cup {[post |-> TRUE, allowed |-> TRUE, size |-> n] : n \in {0, 1, 2}}

\* A final answer with each way to announce a length: none, the right one, one
\* too short and one too long for what follows, one so long that adding the head
\* to it wraps, two that differ either way, and one that is no number; and an answer for each reason to refuse one.
Final(lengths, rest) ==
    [status |-> "final", head |-> 1, chunked |-> FALSE, lengths |-> lengths, rest |-> rest]
MCAnswers ==
    {Final(l, 2) : l \in {<<>>, <<0>>, <<1>>, <<2>>, <<3>>, <<7>>, <<1, 2>>, <<2, 1>>, <<Unreadable, 2>>}}
    \cup {Final(<<>>, 4), Final(<<4>>, 4), [Final(<<>>, 1) EXCEPT !.chunked = TRUE]}
    \cup {[Final(<<1>>, 1) EXCEPT !.status = s] : s \in {"refused", "garbled"}}
=============================================================================
