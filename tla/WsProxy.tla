------------------------------- MODULE WsProxy -------------------------------
(***************************************************************************)
(* src/wsproxy.rs: one WebSocket-to-TCP connection, between a browser (the *)
(* client) and a game server.                                              *)
(*                                                                         *)
(* While the TCP connection opens, one task races it against the client's  *)
(* messages; then it drains what it buffered, and then it races two pumps, *)
(* one per direction, of which the first to end takes the other with it at *)
(* whatever await it is in.  A race is an interleaving of the steps of its *)
(* two sides.                                                              *)
(*                                                                         *)
(* Both streams are numbered byte by byte, so what a side has received     *)
(* tells where each byte came from.  A WebSocket message is a sequence of  *)
(* bytes; the empty one is a ping, which is not forwarded, or a message    *)
(* without bytes, which is.                                                *)
(***************************************************************************)
EXTENDS Integers, Sequences

CONSTANTS MaxPending,    \* messages buffered while connecting (code: 64)
          TcpBuffer,     \* bytes the server's socket takes before a write waits
          WsBuffer,      \* messages the client's socket takes before a send waits
          ReadSize,      \* bytes one read may return (code: 16 * 1024)
          MessageBytes,  \* bounds of the model on the bytes of a message,
          MaxWire,       \*   on the messages on their way to the proxy,
          MaxClient,     \*   on the bytes the client sends
          MaxServer      \*   and on the bytes the server sends

ASSUME SizesAssumption ==
    /\ MaxPending \in Nat /\ TcpBuffer \in Nat \ {0} /\ WsBuffer \in Nat \ {0}
    /\ ReadSize \in Nat \ {0}
    /\ MessageBytes \in Nat /\ MaxWire \in Nat /\ MaxClient \in Nat /\ MaxServer \in Nat

VARIABLES phase,       \* where proxy() is
          clientOpen,  \* the client has neither closed nor failed
          clientSent,  \* bytes the client has sent
          fromClient,  \* messages on their way to the proxy
          pending,     \* messages buffered while connecting
          dropped,     \* bytes push_pending threw away
          writing,     \* what write_all has still to write
          written,     \* bytes handed to the server's socket
          unread,      \* of those, how many the server has yet to read
          serverOpen,
          serverSent,  \* bytes the server has sent
          fromServer,  \* those that wait in the proxy's socket
          sending,     \* the message the other pump is about to send, or is sending
          locked,      \* that pump holds the ws_tx mutex
          toClient,    \* bytes handed to the client's socket
          outbox,      \* messages the client has yet to take
          closeFrames  \* Close frames the proxy sent

client == <<clientOpen, clientSent, fromClient>>
toServer == <<pending, dropped, writing, written, unread>>
server == <<serverOpen, serverSent, fromServer>>
back == <<sending, locked, toClient, outbox>>
vars == <<phase, client, toServer, server, back, closeFrames>>

Phases == {"connecting", "draining", "pumping", "closing", "done"}

\* A malformed target, or one that is not on the allowlist, is closed at once.
Init ==
    /\ phase \in {"connecting", "closing"}
    /\ clientOpen = TRUE /\ clientSent = 0 /\ fromClient = <<>>
    /\ pending = <<>> /\ dropped = {} /\ writing = <<>> /\ written = <<>> /\ unread = 0
    /\ serverOpen = TRUE /\ serverSent = 0 /\ fromServer = <<>>
    /\ sending = <<>> /\ locked = FALSE /\ toClient = <<>> /\ outbox = 0
    /\ closeFrames = 0

-----------------------------------------------------------------------------
(* The two peers.                                                          *)

Connected == phase \in {"draining", "pumping"}

ClientSends(n) ==
    /\ clientOpen /\ phase # "done"
    /\ Len(fromClient) < MaxWire /\ clientSent + n <= MaxClient
    /\ fromClient' = Append(fromClient, [i \in 1 .. n |-> clientSent + i])
    /\ clientSent' = clientSent + n
    /\ UNCHANGED <<phase, clientOpen, toServer, server, back, closeFrames>>

\* A Close frame or the end of the connection comes after what was sent; a
\* failed connection takes what was on its way with it.
ClientLeaves ==
    /\ clientOpen /\ phase # "done"
    /\ clientOpen' = FALSE
    /\ fromClient' \in {fromClient, <<>>}
    /\ UNCHANGED <<phase, clientSent, toServer, server, back, closeFrames>>

ClientTakes ==
    /\ clientOpen /\ outbox > 0
    /\ outbox' = outbox - 1
    /\ UNCHANGED <<phase, client, toServer, server, sending, locked, toClient, closeFrames>>

ServerSends ==
    /\ Connected /\ serverOpen /\ serverSent < MaxServer
    /\ serverSent' = serverSent + 1
    /\ fromServer' = Append(fromServer, serverSent')
    /\ UNCHANGED <<phase, client, toServer, serverOpen, back, closeFrames>>

ServerReads ==
    /\ serverOpen /\ unread > 0
    /\ unread' = unread - 1
    /\ UNCHANGED <<phase, client, pending, dropped, writing, written, server, back, closeFrames>>

ServerHangsUp ==
    /\ Connected /\ serverOpen
    /\ serverOpen' = FALSE
    /\ UNCHANGED <<phase, client, toServer, serverSent, fromServer, back, closeFrames>>

-----------------------------------------------------------------------------
(* Connecting.                                                             *)

Connect ==
    /\ phase = "connecting"
    /\ phase' = "draining"
    /\ UNCHANGED <<client, toServer, server, back, closeFrames>>

ConnectFails ==
    /\ phase = "connecting"
    /\ phase' = "closing"
    /\ UNCHANGED <<client, toServer, server, back, closeFrames>>

\* push_pending: a message without bytes takes its place in the queue, too.
PushPending(m) ==
    IF Len(pending) < MaxPending
    THEN pending' = Append(pending, m) /\ UNCHANGED dropped
    ELSE dropped' = dropped \cup {m[i] : i \in 1 .. Len(m)} /\ UNCHANGED pending

Buffer ==
    /\ phase = "connecting" /\ fromClient # <<>>
    /\ fromClient' = Tail(fromClient)
    /\ \/ PushPending(Head(fromClient))
       \/ Head(fromClient) = <<>> /\ UNCHANGED <<pending, dropped>>
    /\ UNCHANGED <<phase, clientOpen, clientSent, writing, written, unread, server, back,
                   closeFrames>>

\* The client leaves before there is a server: nothing is left to close.
LeftEarly ==
    /\ phase = "connecting" /\ fromClient = <<>> /\ ~ clientOpen
    /\ phase' = "done"
    /\ UNCHANGED <<client, toServer, server, back, closeFrames>>

-----------------------------------------------------------------------------
(* The client's bytes to the server: the drain, then client_to_server.     *)

\* A direction ends: the futures of both are dropped, and with them the guard
\* of ws_tx.  The first keeps the guard, the second sends no Close frame.
EndLocked == phase' = "closing" /\ UNCHANGED locked
EndUnclosed == phase' = "done" /\ locked' = FALSE
End == phase' = "closing" /\ locked' = FALSE

Drain ==
    /\ phase = "draining" /\ writing = <<>> /\ pending # <<>>
    /\ writing' = Head(pending)
    /\ pending' = Tail(pending)
    /\ UNCHANGED <<phase, client, dropped, written, unread, server, back, closeFrames>>

\* The pumps start once everything buffered has been written.  The first does
\* not wait for that.
DrainedAnyhow == TRUE
Drained == pending = <<>> /\ writing = <<>>

StartPumps ==
    /\ phase = "draining" /\ Drained
    /\ phase' = "pumping"
    /\ UNCHANGED <<client, toServer, server, back, closeFrames>>

TakeMessage ==
    /\ phase = "pumping" /\ writing = <<>> /\ fromClient # <<>>
    /\ writing' = Head(fromClient)
    /\ fromClient' = Tail(fromClient)
    /\ UNCHANGED <<phase, clientOpen, clientSent, pending, dropped, written, unread, server, back,
                   closeFrames>>

\* write_all, byte by byte; it may be dropped between any two of them.  A write
\* to a server that has hung up may still succeed.
Write ==
    /\ Connected /\ writing # <<>> /\ unread < TcpBuffer
    /\ written' = Append(written, Head(writing))
    /\ writing' = Tail(writing)
    /\ unread' = unread + 1
    /\ UNCHANGED <<phase, client, pending, dropped, server, back, closeFrames>>

WriteFails ==
    /\ Connected /\ writing # <<>> /\ ~ serverOpen
    /\ End
    /\ UNCHANGED <<client, toServer, server, sending, toClient, outbox, closeFrames>>

ClientEnded ==
    /\ phase = "pumping" /\ writing = <<>> /\ fromClient = <<>> /\ ~ clientOpen
    /\ End
    /\ UNCHANGED <<client, toServer, server, sending, toClient, outbox, closeFrames>>

-----------------------------------------------------------------------------
(* server_to_client.                                                       *)

\* What is sent on of a read of n bytes; the first sends all of the buffer.
BufferRead(n) == fromServer
BytesRead(n) == SubSeq(fromServer, 1, n)

ReadServer(n) ==
    /\ phase = "pumping" /\ sending = <<>> /\ n <= Len(fromServer)
    /\ sending' = BytesRead(n)
    /\ fromServer' = SubSeq(fromServer, n + 1, Len(fromServer))
    /\ locked' = TRUE
    /\ UNCHANGED <<phase, client, toServer, serverOpen, serverSent, toClient, outbox, closeFrames>>

Send ==
    /\ phase = "pumping" /\ sending # <<>> /\ outbox < WsBuffer
    /\ toClient' = toClient \o sending
    /\ sending' = <<>>
    /\ locked' = FALSE
    /\ outbox' = outbox + 1
    /\ UNCHANGED <<phase, client, toServer, server, closeFrames>>

SendFails ==
    /\ phase = "pumping" /\ sending # <<>> /\ ~ clientOpen
    /\ End
    /\ UNCHANGED <<client, toServer, server, sending, toClient, outbox, closeFrames>>

\* read returns 0, or an error.
ServerEnded ==
    /\ phase = "pumping" /\ sending = <<>> /\ fromServer = <<>> /\ ~ serverOpen
    /\ End
    /\ UNCHANGED <<client, toServer, server, sending, toClient, outbox, closeFrames>>

-----------------------------------------------------------------------------
(* The end.                                                                *)

\* ws_tx.close(), its result ignored; returning drops both sockets.
Close ==
    /\ phase = "closing" /\ ~ locked
    /\ outbox < WsBuffer \/ ~ clientOpen
    /\ phase' = "done"
    /\ closeFrames' = closeFrames + 1
    /\ UNCHANGED <<client, toServer, server, back>>

Connecting == Connect \/ ConnectFails \/ Buffer \/ LeftEarly
ClientToServer == Drain \/ StartPumps \/ TakeMessage \/ Write \/ WriteFails \/ ClientEnded
ServerToClient == (\E n \in 1 .. ReadSize : ReadServer(n)) \/ Send \/ SendFails \/ ServerEnded
Peers ==
    \/ \E n \in 0 .. MessageBytes : ClientSends(n)
    \/ ClientLeaves \/ ClientTakes
    \/ ServerSends \/ ServerReads \/ ServerHangsUp

Next == Connecting \/ ClientToServer \/ ServerToClient \/ Close \/ Peers

Spec == Init /\ [][Next]_vars

\* tokio runs every task that can run, and a connect ends one way or the other.
\* That a peer takes what it is sent is an assumption on the peers.
Fairness ==
    /\ WF_vars(Connecting) /\ WF_vars(ClientToServer) /\ WF_vars(ServerToClient)
    /\ WF_vars(Close)
    /\ WF_vars(ClientTakes) /\ WF_vars(ServerReads)

FairSpec == Spec /\ Fairness

-----------------------------------------------------------------------------
(* Properties.                                                             *)

Streams == {written, toClient, writing, sending, fromServer}

\* Every variable has its type; neither socket holds more than it takes.
TypeOK ==
    /\ phase \in Phases
    /\ clientOpen \in BOOLEAN /\ serverOpen \in BOOLEAN /\ locked \in BOOLEAN
    /\ clientSent \in 0 .. MaxClient /\ serverSent \in 0 .. MaxServer
    /\ \A s \in Streams : s \in Seq(Nat)
    /\ fromClient \in Seq(Seq(Nat)) /\ pending \in Seq(Seq(Nat))
    /\ Len(fromClient) <= MaxWire /\ Len(pending) <= MaxPending
    /\ dropped \subseteq 1 .. clientSent
    /\ unread \in 0 .. TcpBuffer /\ outbox \in 0 .. WsBuffer
    /\ closeFrames \in Nat

\* What the server has been sent is what the client sent, in its order and each
\* byte once, but for whole messages push_pending threw away: no switch from
\* the buffer to the pump reorders, repeats or loses anything
\* (tests/wsproxy.rs: "the stream stays intact").
ServerSeesStream ==
    /\ \A i, j \in 1 .. Len(written) : i < j => written[i] < written[j]
    /\ \A i \in 1 .. Len(written) :
          /\ written[i] \notin dropped
          /\ \A b \in 1 .. written[i] : b \in dropped \/ \E j \in 1 .. i : written[j] = b

\* The client is sent the server's bytes in order, however reads cut them up.
ClientSeesStream == \A i \in 1 .. Len(toClient) : toClient[i] = i

\* Each direction is a stream: what a peer has been handed stays, goes on where
\* it stopped and has no hole, and messages are given up only by push_pending,
\* before the server has had its first byte.
Upstream == INSTANCE Stream WITH sent <- clientSent, got <- written, lost <- dropped
Downstream == INSTANCE Stream WITH sent <- serverSent, got <- toClient, lost <- {}
ImplementsStreams == Upstream!StreamSpec /\ Downstream!StreamSpec

\* A client that is still there is sent a Close frame, and never two: it does
\* not see its connection aborted (the comments on ws_tx, "tear both sides down
\* exactly once").
ClosedOnce ==
    /\ closeFrames <= 1
    /\ phase = "done" /\ clientOpen => closeFrames = 1

\* Once either side is gone the whole connection ends.
TornDown == (~ clientOpen \/ ~ serverOpen) ~> phase = "done"
=============================================================================
