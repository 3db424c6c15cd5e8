-------------------------------- MODULE Stream --------------------------------
(***************************************************************************)
(* What one direction of a proxied connection promises: the receiver is    *)
(* handed the sender's bytes in their order, what it has been handed is    *)
(* never taken back, and a stretch of the stream may be given up only      *)
(* before the first byte is handed over.  Bytes are numbered as sent.      *)
(***************************************************************************)
EXTENDS Integers, Sequences

VARIABLES sent,  \* how many bytes the sender has sent
          got,   \* the bytes handed to the receiver
          lost   \* the bytes given up

streamVars == <<sent, got, lost>>

StreamInit == sent = 0 /\ got = <<>> /\ lost = {}

\* The bytes g are the first of those sent, but for the lost ones.
Intact(g) ==
    /\ \A i, j \in 1 .. Len(g) : i < j => g[i] < g[j]
    /\ \A i \in 1 .. Len(g) :
          /\ g[i] \in (1 .. sent) \ lost
          /\ \A b \in 1 .. g[i] : b \in lost \/ \E j \in 1 .. i : g[j] = b

Send ==
    /\ sent' \in Nat /\ sent' > sent
    /\ UNCHANGED <<got, lost>>

HandOver ==
    /\ Len(got') > Len(got)
    /\ \A i \in 1 .. Len(got) : got'[i] = got[i]
    /\ Intact(got')
    /\ UNCHANGED <<sent, lost>>

\* What is given up is one stretch, behind what was given up before.
GiveUp ==
    /\ got = <<>>
    /\ \E a, b \in 1 .. sent :
          /\ \A x \in lost : x < a
          /\ lost' = lost \cup (a .. b)
    /\ UNCHANGED <<sent, got>>

StreamNext == Send \/ HandOver \/ GiveUp

StreamSpec == StreamInit /\ [][StreamNext]_streamVars
=============================================================================
