------------------------------- MODULE AppProxy -------------------------------
(***************************************************************************)
(* src/appproxy.rs, relay(): one POST handed on to a loopback service (the *)
(* target), and its answer handed back.  The request's body is read first; *)
(* connecting, writing and reading the answer then share five seconds.     *)
(*                                                                         *)
(* The answer arrives in pieces of any size, and the relay itself must     *)
(* tell when it is whole: it stops reading once the announced length is    *)
(* there, because the target need not close.  An answer is abstracted to   *)
(* the bytes of its head, what the head says, and the bytes that follow;   *)
(* every count of bytes below is a prefix of it.                           *)
(***************************************************************************)
EXTENDS Integers, Sequences

CONSTANTS Requests,    \* what the client may send
          Answers,     \* what the target may answer
          MaxBody,     \* max_body (code: 4 KiB, or 64 KiB for the web server)
          MaxResponse, \* MAX_RESPONSE (code: 64 KiB)
          ChunkSize,   \* bytes one read may return (code: 8192)
          UsizeLimit,  \* a usize is less than this (code: 2^64)
          SocketBytes  \* bytes either socket takes before its writer waits

Unreadable == -1  \* a Content-Length that is no number

\* status: "garbled" when there is no head or it is not text, "refused" when it
\* is a redirect, informational, not HTTP/1, or has a header that cannot be
\* passed on.  lengths: its Content-Length lines in order.
Request == [post : BOOLEAN, allowed : BOOLEAN, size : Nat]
Answer == [status : {"final", "refused", "garbled"}, head : Nat \ {0}, chunked : BOOLEAN,
           lengths : Seq((0 .. UsizeLimit - 1) \cup {Unreadable}), rest : Nat]

ASSUME RelayAssumption ==
    /\ Requests \subseteq Request /\ Answers \subseteq Answer
    /\ MaxBody \in Nat /\ MaxResponse \in Nat /\ UsizeLimit \in Nat \ {0}
    /\ ChunkSize \in Nat \ {0} /\ SocketBytes \in Nat \ {0}

VARIABLES at,        \* where relay() is
          request, answer,
          uploaded,  \* bytes of the request's body read from the client
          unsent,    \* bytes write_all has still to write
          inFlight,  \* bytes the target has yet to read
          target,    \* "open", or how it ended the connection
          sent,      \* bytes of its answer the target has sent
          wire,      \* of those, the ones that wait in the relay's socket
          received,  \* the bytes of the Vec `answer`
          reply      \* what the client was answered, and bytes of body in it

outward == <<uploaded, unsent, inFlight>>
inward == <<sent, wire, received>>
relayVars == <<at, request, answer, outward, target, inward, reply>>

Total == answer.head + answer.rest
NoReply == [kind |-> "none", body |-> 0]
Kinds == {"none", "answer", "405", "404", "413", "failed", "timeout", "unreadable"}

RelayInit ==
    /\ request \in Requests /\ answer \in Answers
    /\ at = "arrived"
    /\ uploaded = 0 /\ unsent = 0 /\ inFlight = 0
    /\ target = "open" /\ sent = 0 /\ wire = 0 /\ received = 0
    /\ reply = NoReply

AnswerWith(kind, body) == at' = "answered" /\ reply' = [kind |-> kind, body |-> body]

-----------------------------------------------------------------------------
(* The answer.                                                             *)

\* Where a body of this length ends; as a sum of usize, which a huge length wraps.
EndOfBody(length) ==
    LET end == answer.head + length IN IF end < UsizeLimit THEN end ELSE end - UsizeLimit

\* is_complete: the head is there, and as much body as the first length that
\* can be read.  The first wants one byte more, the second only the head.
IsCompleteLate(n) ==
    /\ answer.status # "garbled" /\ n >= answer.head
    /\ \E i \in DOMAIN answer.lengths : n > EndOfBody(answer.lengths[i])
IsComplete(n) ==
    /\ answer.status # "garbled" /\ n >= answer.head
    /\ \E i \in DOMAIN answer.lengths :
          /\ answer.lengths[i] # Unreadable
          /\ \A j \in 1 .. i - 1 : answer.lengths[j] = Unreadable
          /\ n >= EndOfBody(answer.lengths[i])

\* parse_response cuts the body to each length in turn, and gives up at one it
\* cannot read or that is more than the cuts before have left.  The first cuts
\* to what there is.
CutsAnyhow(body) == TRUE
Cuts(body) ==
    \A i \in DOMAIN answer.lengths :
       /\ answer.lengths[i] # Unreadable
       /\ answer.lengths[i] <= body
       /\ \A j \in 1 .. i - 1 : answer.lengths[i] <= answer.lengths[j]

Least(a, b) == IF a <= b THEN a ELSE b
CutTo(body) ==
    IF answer.lengths = <<>> THEN body ELSE Least(body, answer.lengths[Len(answer.lengths)])

\* The whole head has arrived, and what it says can be read.
Readable(n) ==
    /\ answer.status = "final" /\ ~ answer.chunked /\ n >= answer.head
    /\ Cuts(n - answer.head)

Parse(n) ==
    \/ Readable(n) /\ AnswerWith("answer", CutTo(n - answer.head))
    \/ ~ Readable(n) /\ AnswerWith("unreadable", 0)

-----------------------------------------------------------------------------
(* relay().                                                                *)

Refuse ==
    /\ at = "arrived"
    /\ \/ ~ request.post /\ AnswerWith("405", 0)
       \/ request.post /\ ~ request.allowed /\ AnswerWith("404", 0)
    /\ UNCHANGED <<request, answer, outward, target, inward>>

Admit ==
    /\ at = "arrived" /\ request.post /\ request.allowed
    /\ at' = "upload"
    /\ UNCHANGED <<request, answer, outward, target, inward, reply>>

\* to_bytes, limited; nothing bounds the time the client takes.
Upload ==
    /\ at = "upload" /\ uploaded < request.size
    /\ uploaded' = uploaded + 1
    /\ IF uploaded' > MaxBody THEN AnswerWith("413", 0) ELSE UNCHANGED <<at, reply>>
    /\ UNCHANGED <<request, answer, unsent, inFlight, target, inward>>

\* The head counts as one byte of what is written.
Uploaded ==
    /\ at = "upload" /\ uploaded = request.size
    /\ at' = "connect"
    /\ unsent' = 1 + request.size
    /\ UNCHANGED <<request, answer, uploaded, inFlight, target, inward, reply>>

ConnectTarget ==
    /\ at = "connect"
    /\ \/ at' = "write" /\ UNCHANGED reply
       \/ AnswerWith("failed", 0)
    /\ UNCHANGED <<request, answer, outward, target, inward>>

\* Data for a target that has closed makes its side answer with a reset, which
\* may take along what has not been read.
WriteRequest ==
    /\ at = "write" /\ unsent > 0 /\ inFlight < SocketBytes /\ target # "reset"
    /\ unsent' = unsent - 1
    /\ inFlight' = inFlight + 1
    /\ IF target = "closed" THEN target' = "reset" /\ wire' \in {wire, 0}
                            ELSE UNCHANGED <<target, wire>>
    /\ UNCHANGED <<at, request, answer, uploaded, sent, received, reply>>

RequestFails ==
    /\ at = "write" /\ unsent > 0 /\ target = "reset"
    /\ AnswerWith("failed", 0)
    /\ UNCHANGED <<request, answer, outward, target, inward>>

Written ==
    /\ at = "write" /\ unsent = 0
    /\ at' = "read"
    /\ UNCHANGED <<request, answer, outward, target, inward, reply>>

ReadChunk ==
    /\ at = "read" /\ wire > 0
    /\ LET n == Least(wire, ChunkSize) IN
          /\ received' = received + n
          /\ wire' = wire - n
    /\ IF received' > MaxResponse THEN AnswerWith("failed", 0)
       ELSE IF IsComplete(received') THEN Parse(received')
       ELSE UNCHANGED <<at, reply>>
    /\ UNCHANGED <<request, answer, outward, target, sent>>

ReadEnds ==
    /\ at = "read" /\ wire = 0
    /\ \/ target = "closed" /\ Parse(received)
       \/ target = "reset" /\ AnswerWith("failed", 0)
    /\ UNCHANGED <<request, answer, outward, target, inward>>

\* The five seconds run over the whole exchange; the first times the answer
\* only.
TimerReads == at = "read"
TimerRuns == at \in {"connect", "write", "read"}

Timeout ==
    /\ TimerRuns
    /\ AnswerWith("timeout", 0)
    /\ UNCHANGED <<request, answer, outward, target, inward>>

-----------------------------------------------------------------------------
(* The client and the target.                                              *)

\* Its connection gone, the handler is dropped at whatever await it is in.
ClientHangsUp ==
    /\ at \in {"upload", "connect", "write", "read"}
    /\ at' = "gone"
    /\ UNCHANGED <<request, answer, outward, target, inward, reply>>

TargetConnected == at \in {"write", "read"}

TargetReads ==
    /\ TargetConnected /\ target = "open" /\ inFlight > 0
    /\ inFlight' = inFlight - 1
    /\ UNCHANGED <<at, request, answer, uploaded, unsent, target, inward, reply>>

\* It may answer before it has read the request, and stop at any byte.
TargetSends(n) ==
    /\ TargetConnected /\ target = "open"
    /\ sent + n <= Total /\ wire + n <= SocketBytes
    /\ sent' = sent + n
    /\ wire' = wire + n
    /\ UNCHANGED <<at, request, answer, outward, target, received, reply>>

\* With data it has not read, a close is a reset.
TargetCloses ==
    /\ TargetConnected /\ target = "open"
    /\ \/ inFlight = 0 /\ target' = "closed" /\ UNCHANGED wire
       \/ target' = "reset" /\ wire' \in {wire, 0}
    /\ UNCHANGED <<at, request, answer, outward, sent, received, reply>>

Relay ==
    \/ Refuse \/ Admit \/ Upload \/ Uploaded \/ ConnectTarget \/ WriteRequest \/ RequestFails \/ Written
    \/ ReadChunk \/ ReadEnds \/ Timeout

RelayNext ==
    \/ Relay \/ ClientHangsUp \/ TargetReads \/ TargetCloses
    \/ \E n \in 1 .. SocketBytes : TargetSends(n)

RelaySpec == RelayInit /\ [][RelayNext]_relayVars

\* The timer fires.  Nothing is assumed of the client or of the target.
RelayFairSpec == RelaySpec /\ WF_relayVars(Timeout)

-----------------------------------------------------------------------------
(* Properties.                                                             *)

\* Every variable has its type, and nothing is read that was not sent.
RelayTypeOK ==
    /\ at \in {"arrived", "upload", "connect", "write", "read", "answered", "gone"}
    /\ request \in Requests /\ answer \in Answers
    /\ uploaded \in 0 .. request.size /\ unsent \in Nat /\ inFlight \in 0 .. SocketBytes
    /\ target \in {"open", "closed", "reset"}
    /\ sent \in 0 .. Total /\ wire \in 0 .. SocketBytes
    /\ received \in Nat /\ received + wire <= sent
    /\ reply.kind \in Kinds /\ reply.body \in Nat

\* However the answer is cut into pieces, and wherever the target stops, an
\* answer that is passed on is one the target finished: as long as the shortest
\* length it announced, or, without one, all the target sent before it closed
\* in good order.  (The comments of is_complete and parse_response.)
WholeAnswers ==
    reply.kind = "answer" =>
       /\ answer.status = "final" /\ ~ answer.chunked
       /\ \A i \in DOMAIN answer.lengths :
             answer.lengths[i] # Unreadable /\ reply.body <= answer.lengths[i]
       /\ answer.lengths # <<>> =>
             \E i \in DOMAIN answer.lengths : reply.body = answer.lengths[i]
       /\ answer.lengths = <<>> => target = "closed" /\ reply.body = sent - answer.head
       /\ answer.head + reply.body <= sent

\* No request ends in the timeout "with the answer already in hand", whether or
\* not the target closes.
InHandIsPassed ==
    reply.kind = "timeout" =>
       ~ /\ answer.status = "final" /\ answer.lengths # <<>>
         /\ \A i \in DOMAIN answer.lengths :
               answer.lengths[i] # Unreadable /\ received >= answer.head + answer.lengths[i]

\* Once its body is there a request is answered, whatever the target does or
\* does not do ("a target that does not answer within five seconds is a 502").
Answered == at = "connect" ~> at \in {"answered", "gone"}
=============================================================================
