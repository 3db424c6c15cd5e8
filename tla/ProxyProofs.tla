---------------------------- MODULE ProxyProofs ----------------------------
(***************************************************************************)
(* Proofs about the two proxies.  WsProxy, for any limits, sizes and       *)
(* lengths of the streams: its type invariant, that both streams arrive in *)
(* order with nothing lost on the way, and that a client that is there is  *)
(* sent one Close frame.  AppProxy, for any answers, lengths and sizes:    *)
(* its type invariant, that what is passed on is whole, and that no answer *)
(* in hand is given up for the timeout.                                    *)
(***************************************************************************)
EXTENDS WsProxy, AppProxy, TLAPS

(* Bytes and their order.  A queue is a sequence of messages.              *)
Bytes(m) == {m[i] : i \in 1 .. Len(m)}
Carried(q) == UNION {Bytes(q[k]) : k \in 1 .. Len(q)}
Before(A, B) == \A a \in A, b \in B : a < b
Ascending(m) == \A i, j \in 1 .. Len(m) : i < j => m[i] < m[j]
Sorted(q) ==
    /\ \A k \in 1 .. Len(q) : Ascending(q[k])
    /\ \A k, l \in 1 .. Len(q) : k < l => Before(Bytes(q[k]), Bytes(q[l]))

\* What it is to be carried by a queue.
LEMMA CarriedIn ==
    ASSUME NEW q, NEW x
    PROVE  x \in Carried(q) <=> \E k \in 1 .. Len(q) : x \in Bytes(q[k])
BY DEF Carried

\* Taking the first byte of a message.
LEMMA BytesTail ==
    ASSUME NEW m \in Seq(Nat), m # <<>>
    PROVE  /\ Head(m) \in Nat /\ Tail(m) \in Seq(Nat)
           /\ Bytes(m) = {Head(m)} \cup Bytes(Tail(m))
           /\ Ascending(m) => Ascending(Tail(m)) /\ Before({Head(m)}, Bytes(Tail(m)))
<1>1. /\ Len(m) \in Nat \ {0} /\ Len(Tail(m)) = Len(m) - 1
      /\ Head(m) = m[1] /\ Tail(m) \in Seq(Nat) /\ Head(m) \in Nat
      /\ \A i \in 1 .. Len(m) - 1 : Tail(m)[i] = m[i + 1]
  OBVIOUS
<1>2. \A i \in 1 .. Len(m) : i = 1 \/ (i - 1 \in 1 .. Len(m) - 1 /\ m[i] = Tail(m)[i - 1])
  <2> SUFFICES ASSUME NEW i \in 1 .. Len(m), i # 1
               PROVE  i - 1 \in 1 .. Len(m) - 1 /\ m[i] = Tail(m)[i - 1]
    OBVIOUS
  <2>1. i - 1 \in 1 .. Len(m) - 1 /\ (i - 1) + 1 = i
    BY <1>1
  <2>2. Tail(m)[i - 1] = m[(i - 1) + 1]
    BY <1>1, <2>1, Zenon
  <2> QED
    BY <2>1, <2>2, Zenon
<1>3. Bytes(m) = {Head(m)} \cup Bytes(Tail(m))
  <2>1. /\ Bytes(m) = {m[i] : i \in 1 .. Len(m)}
        /\ Bytes(Tail(m)) = {Tail(m)[i] : i \in 1 .. Len(m) - 1}
    BY <1>1 DEF Bytes
  <2>2. ASSUME NEW i \in 1 .. Len(m)
        PROVE  m[i] = Head(m) \/ m[i] \in {Tail(m)[j] : j \in 1 .. Len(m) - 1}
    BY <1>1, <1>2, Zenon
  <2>3. ASSUME NEW i \in 1 .. Len(m) - 1
        PROVE  \E j \in 1 .. Len(m) : Tail(m)[i] = m[j]
    <3>1. i + 1 \in 1 .. Len(m)
      BY <1>1
    <3> QED
      BY <1>1, <3>1, Zenon
  <2>4. 1 \in 1 .. Len(m)
    BY <1>1
  <2> QED
    BY <1>1, <2>1, <2>2, <2>3, <2>4, ZenonT(30)
<1>4. ASSUME Ascending(m)
      PROVE  Ascending(Tail(m)) /\ Before({Head(m)}, Bytes(Tail(m)))
  BY <1>1, <1>4 DEF Ascending, Before, Bytes
<1> QED
  BY <1>1, <1>3, <1>4

\* Adding a byte to a stream.
LEMMA BytesAppend ==
    ASSUME NEW m \in Seq(Nat), NEW b \in Nat
    PROVE  /\ Append(m, b) \in Seq(Nat)
           /\ Bytes(Append(m, b)) = Bytes(m) \cup {b}
           /\ Ascending(m) /\ Before(Bytes(m), {b}) => Ascending(Append(m, b))
<1>1. /\ Len(m) \in Nat /\ Len(Append(m, b)) = Len(m) + 1 /\ Append(m, b) \in Seq(Nat)
      /\ \A i \in 1 .. Len(m) : Append(m, b)[i] = m[i]
      /\ Append(m, b)[Len(m) + 1] = b
  OBVIOUS
<1>2. \A i \in 1 .. Len(m) + 1 : i \in 1 .. Len(m) \/ i = Len(m) + 1
  BY <1>1
<1>3. Bytes(Append(m, b)) = Bytes(m) \cup {b}
  BY <1>1, <1>2 DEF Bytes
<1>4. ASSUME Ascending(m), Before(Bytes(m), {b})
      PROVE  Ascending(Append(m, b))
  BY <1>1, <1>2, <1>4 DEF Ascending, Before, Bytes
<1> QED
  BY <1>1, <1>3, <1>4

\* Cutting a stream in two.
LEMMA Cut ==
    ASSUME NEW s \in Seq(Nat), NEW n \in Nat, n <= Len(s)
    PROVE  SubSeq(s, 1, n) \in Seq(Nat) /\ SubSeq(s, n + 1, Len(s)) \in Seq(Nat)
OBVIOUS

\* Taking the first message of a queue.
LEMMA QueueTail ==
    ASSUME NEW q \in Seq(Seq(Nat)), q # <<>>
    PROVE  /\ Head(q) \in Seq(Nat) /\ Tail(q) \in Seq(Seq(Nat)) /\ Len(Tail(q)) = Len(q) - 1
           /\ Carried(q) = Bytes(Head(q)) \cup Carried(Tail(q))
           /\ Sorted(q) => /\ Ascending(Head(q)) /\ Sorted(Tail(q))
                           /\ Before(Bytes(Head(q)), Carried(Tail(q)))
<1>1. /\ Len(q) \in Nat \ {0} /\ Len(Tail(q)) = Len(q) - 1
      /\ Head(q) = q[1] /\ Tail(q) \in Seq(Seq(Nat)) /\ Head(q) \in Seq(Nat)
      /\ \A i \in 1 .. Len(q) - 1 : Tail(q)[i] = q[i + 1]
  OBVIOUS
<1>2. \A i \in 1 .. Len(q) : i = 1 \/ (i - 1 \in 1 .. Len(q) - 1 /\ q[i] = Tail(q)[i - 1])
  BY <1>1
<1>3. Carried(q) = Bytes(Head(q)) \cup Carried(Tail(q))
  <2>1. ASSUME NEW x \in Carried(q) PROVE x \in Bytes(Head(q)) \cup Carried(Tail(q))
    <3>1. PICK k \in 1 .. Len(q) : x \in Bytes(q[k])
      BY CarriedIn
    <3>2. CASE k = 1
      BY <1>1, <3>1, <3>2
    <3>3. CASE k # 1
      BY <1>1, <1>2, <3>1, <3>3, CarriedIn
    <3> QED
      BY <3>2, <3>3
  <2>2. ASSUME NEW x \in Carried(Tail(q)) PROVE x \in Carried(q)
    <3>1. PICK k \in 1 .. Len(Tail(q)) : x \in Bytes(Tail(q)[k])
      BY <2>2, CarriedIn
    <3>2. k + 1 \in 1 .. Len(q) /\ q[k + 1] = Tail(q)[k]
      BY <1>1
    <3> QED
      BY <3>1, <3>2, CarriedIn
  <2>3. Bytes(Head(q)) \subseteq Carried(q)
    BY <1>1, CarriedIn
  <2> QED
    BY <2>1, <2>2, <2>3
<1>4. ASSUME Sorted(q)
      PROVE  /\ Ascending(Head(q)) /\ Sorted(Tail(q))
             /\ Before(Bytes(Head(q)), Carried(Tail(q)))
  <2>1. Ascending(Head(q)) /\ Sorted(Tail(q))
    BY <1>1, <1>4 DEF Sorted
  <2>2. \A k \in 1 .. Len(Tail(q)) : Before(Bytes(Head(q)), Bytes(Tail(q)[k]))
    BY <1>1, <1>4 DEF Sorted
  <2> QED
    BY <2>1, <2>2 DEF Before, Carried
<1> QED
  BY <1>1, <1>3, <1>4

\* Adding a message to a queue.
LEMMA QueueAppend ==
    ASSUME NEW q \in Seq(Seq(Nat)), NEW m \in Seq(Nat)
    PROVE  /\ Append(q, m) \in Seq(Seq(Nat)) /\ Len(Append(q, m)) = Len(q) + 1
           /\ Carried(Append(q, m)) = Carried(q) \cup Bytes(m)
           /\ Sorted(q) /\ Ascending(m) /\ Before(Carried(q), Bytes(m)) => Sorted(Append(q, m))
<1>1. /\ Len(q) \in Nat /\ Len(Append(q, m)) = Len(q) + 1 /\ Append(q, m) \in Seq(Seq(Nat))
      /\ \A i \in 1 .. Len(q) : Append(q, m)[i] = q[i]
      /\ Append(q, m)[Len(q) + 1] = m
  OBVIOUS
<1>2. \A i \in 1 .. Len(q) + 1 : i \in 1 .. Len(q) \/ i = Len(q) + 1
  BY <1>1
<1>3. Carried(Append(q, m)) = Carried(q) \cup Bytes(m)
  <2>1. ASSUME NEW x \in Carried(Append(q, m)) PROVE x \in Carried(q) \cup Bytes(m)
    <3>1. PICK k \in 1 .. Len(q) + 1 : x \in Bytes(Append(q, m)[k])
      BY <1>1, CarriedIn
    <3> QED
      BY <1>1, <1>2, <3>1, CarriedIn
  <2>2. ASSUME NEW x \in Carried(q) PROVE x \in Carried(Append(q, m))
    <3>1. PICK k \in 1 .. Len(q) : x \in Bytes(q[k])
      BY <2>2, CarriedIn
    <3>2. k \in 1 .. Len(Append(q, m)) /\ Append(q, m)[k] = q[k]
      BY <1>1
    <3> QED
      BY <3>1, <3>2, CarriedIn
  <2>3. Len(q) + 1 \in 1 .. Len(Append(q, m))
    BY <1>1
  <2> QED
    BY <1>1, <2>1, <2>2, <2>3, CarriedIn
<1>4. ASSUME Sorted(q), Ascending(m), Before(Carried(q), Bytes(m))
      PROVE  Sorted(Append(q, m))
  <2>1. \A k \in 1 .. Len(q) : Before(Bytes(q[k]), Bytes(m))
    BY <1>4 DEF Before, Carried
  <2> QED
    BY <1>1, <1>2, <1>4, <2>1 DEF Sorted
<1> QED
  BY <1>1, <1>3, <1>4

-----------------------------------------------------------------------------
(* The inductive invariant.                                                *)

Live == Bytes(written) \cup Bytes(writing) \cup Carried(pending) \cup Carried(fromClient)

\* Every byte the client sent is in one place, its places are passed in order,
\* and there is no gap but for the bytes dropped, before which nothing is left
\* to be taken from the client.
Forward ==
    /\ Ascending(written) /\ Ascending(writing) /\ Sorted(pending) /\ Sorted(fromClient)
    /\ Before(Bytes(written), Bytes(writing))
    /\ Before(Bytes(written), Carried(pending)) /\ Before(Bytes(written), Carried(fromClient))
    /\ Before(Bytes(writing), Carried(pending)) /\ Before(Bytes(writing), Carried(fromClient))
    /\ Before(Carried(pending), Carried(fromClient)) /\ Before(dropped, Carried(fromClient))
    /\ dropped \cap Live = {} /\ Live \subseteq 1 .. clientSent
    /\ \A b \in Live : 1 .. b \subseteq dropped \cup Live
    /\ clientOpen => 1 .. clientSent \subseteq dropped \cup Live
    /\ phase = "pumping" => pending = <<>>

\* The server's bytes, counted over the three places they pass.
Backward ==
    /\ \A i \in 1 .. Len(toClient) : toClient[i] = i
    /\ \A i \in 1 .. Len(sending) : sending[i] = Len(toClient) + i
    /\ \A i \in 1 .. Len(fromServer) : fromServer[i] = Len(toClient) + Len(sending) + i
    /\ serverSent = Len(toClient) + Len(sending) + Len(fromServer)

Closing == ClosedOnce /\ (phase # "done" => closeFrames = 0)

IInv == TypeOK /\ Forward /\ Backward /\ Closing

LEMMA StreamTypes ==
    ASSUME TypeOK
    PROVE  /\ written \in Seq(Nat) /\ toClient \in Seq(Nat) /\ writing \in Seq(Nat)
           /\ sending \in Seq(Nat) /\ fromServer \in Seq(Nat)
           /\ fromClient \in Seq(Seq(Nat)) /\ pending \in Seq(Seq(Nat))
BY DEF TypeOK, Streams

LEMMA InitIInv == Init => IInv
<1> SUFFICES ASSUME Init PROVE IInv
  OBVIOUS
<1>1. TypeOK
  <2>1. \A s \in Streams : s = <<>>
    BY DEF Init, Streams
  <2>2. <<>> \in Seq(Nat) /\ <<>> \in Seq(Seq(Nat)) /\ Len(<<>>) = 0
    OBVIOUS
  <2>3. \A s \in Streams : s \in Seq(Nat)
    BY <2>1, <2>2
  <2>4. phase \in Phases
    BY DEF Init, Phases
  <2>5. /\ fromClient \in Seq(Seq(Nat)) /\ pending \in Seq(Seq(Nat))
        /\ Len(fromClient) <= MaxWire /\ Len(pending) <= MaxPending
    BY <2>2, SizesAssumption DEF Init
  <2>6. /\ clientSent \in 0 .. MaxClient /\ serverSent \in 0 .. MaxServer
        /\ unread \in 0 .. TcpBuffer /\ outbox \in 0 .. WsBuffer /\ closeFrames \in Nat
    BY SizesAssumption DEF Init
  <2>7. dropped \subseteq 1 .. clientSent
    BY DEF Init
  <2>8. clientOpen \in BOOLEAN /\ serverOpen \in BOOLEAN /\ locked \in BOOLEAN
    BY DEF Init
  <2> QED
    BY <2>3, <2>4, <2>5, <2>6, <2>7, <2>8 DEF TypeOK
<1>2. Forward
  BY DEF Init, Forward, Live, Bytes, Carried, Before, Ascending, Sorted
<1>3. Backward /\ Closing
  BY DEF Init, Backward, Closing, ClosedOnce
<1> QED
  BY <1>1, <1>2, <1>3 DEF IInv

-----------------------------------------------------------------------------
(* Close frames and the server's bytes.                                    *)

LEMMA NextKeepsClosing == TypeOK /\ Closing /\ [Next]_vars => Closing'
<1> SUFFICES ASSUME TypeOK, Closing, [Next]_vars PROVE Closing'
  OBVIOUS
<1>1. CASE Close
  BY <1>1 DEF Close, Closing, ClosedOnce, client
<1>2. CASE LeftEarly
  BY <1>2 DEF LeftEarly, Closing, ClosedOnce, client
<1>3. CASE ClientLeaves
  BY <1>3 DEF ClientLeaves, Closing, ClosedOnce
<1>4. ASSUME UNCHANGED <<clientOpen, closeFrames>>,
             phase' = phase \/ (phase # "done" /\ phase' # "done")
      PROVE  Closing'
  BY <1>4 DEF Closing, ClosedOnce
<1>5. Next => \/ Close \/ LeftEarly \/ ClientLeaves
              \/ /\ UNCHANGED <<clientOpen, closeFrames>>
                 /\ phase' = phase \/ (phase # "done" /\ phase' # "done")
  BY DEF Next, Connecting, ClientToServer, ServerToClient, Peers, Connected,
         ClientSends, ClientTakes, ServerSends, ServerReads, ServerHangsUp,
         Connect, ConnectFails, Buffer, Drain, StartPumps, TakeMessage, Write,
         WriteFails, ClientEnded, ReadServer, Send, SendFails, ServerEnded, End, client
<1>6. UNCHANGED vars => UNCHANGED <<clientOpen, closeFrames, phase>>
  BY DEF vars, client
<1> QED
  BY <1>1, <1>2, <1>3, <1>4, <1>5, <1>6

LEMMA NextKeepsBackward == TypeOK /\ Backward /\ [Next]_vars => Backward'
<1> SUFFICES ASSUME TypeOK, Backward, [Next]_vars PROVE Backward'
  OBVIOUS
<1>1. /\ toClient \in Seq(Nat) /\ sending \in Seq(Nat) /\ fromServer \in Seq(Nat)
      /\ Len(toClient) \in Nat /\ Len(sending) \in Nat /\ Len(fromServer) \in Nat
  BY StreamTypes
<1>2. CASE UNCHANGED <<toClient, sending, fromServer, serverSent>>
  BY <1>2 DEF Backward
<1>3. CASE ServerSends
  <2>1. /\ fromServer' = Append(fromServer, serverSent + 1) /\ serverSent' = serverSent + 1
        /\ UNCHANGED <<toClient, sending>>
    BY <1>3 DEF ServerSends, back
  <2>2. /\ Len(fromServer') = Len(fromServer) + 1
        /\ \A i \in 1 .. Len(fromServer) : fromServer'[i] = fromServer[i]
        /\ fromServer'[Len(fromServer) + 1] = serverSent + 1
    BY <1>1, <2>1
  <2>3. \A i \in 1 .. Len(fromServer') : i \in 1 .. Len(fromServer) \/ i = Len(fromServer) + 1
    BY <1>1, <2>2
  <2> QED
    BY <1>1, <2>1, <2>2, <2>3 DEF Backward
<1>4. ASSUME NEW n \in 1 .. ReadSize, ReadServer(n)
      PROVE  Backward'
  <2>1. /\ sending = <<>> /\ n \in Nat /\ n <= Len(fromServer)
        /\ sending' = SubSeq(fromServer, 1, n)
        /\ fromServer' = SubSeq(fromServer, n + 1, Len(fromServer))
        /\ UNCHANGED <<toClient, serverSent>>
    BY <1>4, SizesAssumption DEF ReadServer, BytesRead
  <2>2. /\ Len(sending') = n /\ Len(fromServer') = Len(fromServer) - n
        /\ \A i \in 1 .. n : sending'[i] = fromServer[i]
        /\ \A i \in 1 .. Len(fromServer) - n : fromServer'[i] = fromServer[n + i]
    BY <1>1, <2>1
  <2>3. Len(sending) = 0
    BY <2>1
  <2>4. \A i \in 1 .. Len(sending') : sending'[i] = Len(toClient) + i
    BY <1>1, <2>1, <2>2, <2>3 DEF Backward
  <2>5. \A i \in 1 .. Len(fromServer') :
           /\ n + i \in 1 .. Len(fromServer)
           /\ fromServer'[i] = fromServer[n + i]
    <3>1. Len(fromServer) \in Nat
      BY <1>1
    <3>2. \A i \in 1 .. Len(fromServer') : i \in 1 .. Len(fromServer) - n /\ n + i \in 1 .. Len(fromServer)
      BY <2>1, <2>2, <3>1
    <3> QED
      BY <2>2, <3>2, Zenon
  <2>6. \A i \in 1 .. Len(fromServer') : fromServer'[i] = Len(toClient) + Len(sending') + i
    BY <1>1, <2>1, <2>2, <2>3, <2>5 DEF Backward
  <2>7. UNCHANGED <<toClient, serverSent>>
    BY <2>1
  <2> QED
    BY <1>1, <2>2, <2>3, <2>4, <2>6, <2>7 DEF Backward
<1>5. CASE Send
  <2>1. /\ toClient' = toClient \o sending /\ sending' = <<>>
        /\ UNCHANGED <<fromServer, serverSent>>
    BY <1>5 DEF Send, server
  <2>2. /\ Len(toClient') = Len(toClient) + Len(sending) /\ Len(sending') = 0
        /\ \A i \in 1 .. Len(toClient) : toClient'[i] = toClient[i]
        /\ \A i \in 1 .. Len(sending) : toClient'[Len(toClient) + i] = sending[i]
    BY <1>1, <2>1
  <2>3. \A i \in 1 .. Len(toClient') :
           i \in 1 .. Len(toClient)
           \/ (i - Len(toClient) \in 1 .. Len(sending) /\ i = Len(toClient) + (i - Len(toClient)))
    BY <1>1, <2>2
  <2>4. \A i \in 1 .. Len(toClient') : toClient'[i] = i
    BY <1>1, <2>2, <2>3 DEF Backward
  <2> QED
    BY <1>1, <2>1, <2>2, <2>4 DEF Backward
<1>6. Next => \/ UNCHANGED <<toClient, sending, fromServer, serverSent>>
              \/ ServerSends \/ Send \/ \E n \in 1 .. ReadSize : ReadServer(n)
  BY DEF Next, Connecting, ClientToServer, ServerToClient, Peers,
         ClientSends, ClientLeaves, ClientTakes, ServerReads, ServerHangsUp,
         Connect, ConnectFails, Buffer, LeftEarly, Drain, StartPumps, TakeMessage, Write,
         WriteFails, ClientEnded, SendFails, ServerEnded, Close, server, back
<1>7. UNCHANGED vars => UNCHANGED <<toClient, sending, fromServer, serverSent>>
  BY DEF vars, server, back
<1> QED
  BY <1>2, <1>3, <1>4, <1>5, <1>6, <1>7

-----------------------------------------------------------------------------
(* The types.                                                              *)

LEMMA NextKeepsTypeOK ==
    ASSUME TypeOK, Live \subseteq 1 .. clientSent, [Next]_vars
    PROVE  TypeOK'
<1> USE SizesAssumption
<1> USE DEF Phases, Connected
<1>0. /\ \A s \in Streams : s \in Seq(Nat)
      /\ written \in Seq(Nat) /\ toClient \in Seq(Nat) /\ writing \in Seq(Nat)
      /\ sending \in Seq(Nat) /\ fromServer \in Seq(Nat)
      /\ fromClient \in Seq(Seq(Nat)) /\ pending \in Seq(Seq(Nat))
      /\ clientSent \in Nat /\ serverSent \in Nat
  BY StreamTypes DEF TypeOK
<1>1. CASE UNCHANGED vars
  BY <1>1 DEF vars, client, toServer, server, back, TypeOK, Streams
<1>2. CASE Connecting
  <2>1. CASE Buffer
    <3>1. /\ Head(fromClient) \in Seq(Nat) /\ Tail(fromClient) \in Seq(Seq(Nat))
          /\ Len(Tail(fromClient)) = Len(fromClient) - 1
          /\ Bytes(Head(fromClient)) \subseteq 1 .. clientSent
      BY <1>0, <2>1, QueueTail DEF Buffer, Live
    <3>2. pending' \in Seq(Seq(Nat)) /\ Len(pending') <= MaxPending /\ dropped' \subseteq 1 .. clientSent
      <4>1. CASE UNCHANGED <<pending, dropped>>
        BY <4>1 DEF TypeOK
      <4>2. CASE PushPending(Head(fromClient))
        <5>1. CASE Len(pending) < MaxPending
          <6>1. pending' = Append(pending, Head(fromClient)) /\ dropped' = dropped
            BY <4>2, <5>1 DEF PushPending
          <6>2. pending' \in Seq(Seq(Nat)) /\ Len(pending') = Len(pending) + 1
            BY <1>0, <3>1, <6>1, QueueAppend
          <6> QED
            BY <1>0, <5>1, <6>1, <6>2 DEF TypeOK
        <5>2. CASE ~ Len(pending) < MaxPending
          BY <3>1, <4>2, <5>2 DEF PushPending, TypeOK, Bytes
        <5> QED
          BY <5>1, <5>2
      <4> QED
        BY <2>1, <4>1, <4>2 DEF Buffer
    <3>3. UNCHANGED Streams
      BY <2>1 DEF Buffer, Streams, server, back
    <3> QED
      BY <1>0, <2>1, <3>1, <3>2, <3>3, SMTT(30) DEF Buffer, TypeOK, server, back
  <2>2. CASE Connect \/ ConnectFails \/ LeftEarly
    BY <2>2 DEF Connect, ConnectFails, LeftEarly, TypeOK, Streams, client, toServer, server, back
  <2> QED
    BY <1>2, <2>1, <2>2 DEF Connecting
<1>3. CASE ClientToServer
  <2>1. CASE Drain
    <3>1. /\ Head(pending) \in Seq(Nat) /\ Tail(pending) \in Seq(Seq(Nat))
          /\ Len(Tail(pending)) = Len(pending) - 1
      BY <1>0, <2>1, QueueTail DEF Drain
    <3>2. \A s \in Streams' : s \in Seq(Nat)
      BY <1>0, <2>1, <3>1 DEF Drain, Streams, server, back
    <3> QED
      BY <1>0, <2>1, <3>1, <3>2 DEF Drain, TypeOK, client, server, back
  <2>2. CASE TakeMessage
    <3>1. /\ Head(fromClient) \in Seq(Nat) /\ Tail(fromClient) \in Seq(Seq(Nat))
          /\ Len(Tail(fromClient)) = Len(fromClient) - 1
      BY <1>0, <2>2, QueueTail DEF TakeMessage
    <3>2. \A s \in Streams' : s \in Seq(Nat)
      BY <1>0, <2>2, <3>1 DEF TakeMessage, Streams, server, back
    <3> QED
      BY <1>0, <2>2, <3>1, <3>2 DEF TakeMessage, TypeOK, server, back
  <2>3. CASE Write
    <3>1. written' \in Seq(Nat) /\ writing' \in Seq(Nat)
      BY <1>0, <2>3, BytesTail, BytesAppend DEF Write
    <3>2. \A s \in Streams' : s \in Seq(Nat)
      BY <1>0, <2>3, <3>1 DEF Write, Streams, server, back
    <3> QED
      BY <1>0, <2>3, <3>2 DEF Write, TypeOK, client, server, back
  <2>4. CASE StartPumps \/ WriteFails \/ ClientEnded
    BY <2>4 DEF StartPumps, WriteFails, ClientEnded, End, TypeOK, Streams, client, toServer, server, back
  <2> QED
    BY <1>3, <2>1, <2>2, <2>3, <2>4 DEF ClientToServer
<1>4. CASE ServerToClient
  <2>1. ASSUME NEW n \in 1 .. ReadSize, ReadServer(n)
        PROVE  TypeOK'
    <3>1. sending' \in Seq(Nat) /\ fromServer' \in Seq(Nat)
      <4>1. /\ fromServer \in Seq(Nat) /\ n \in Nat /\ n <= Len(fromServer)
            /\ sending' = SubSeq(fromServer, 1, n)
            /\ fromServer' = SubSeq(fromServer, n + 1, Len(fromServer))
        BY <1>0, <2>1, SizesAssumption DEF ReadServer, BytesRead
      <4> QED
        BY <4>1, Cut
    <3>2. \A s \in Streams' : s \in Seq(Nat)
      BY <1>0, <2>1, <3>1 DEF ReadServer, Streams, toServer
    <3> QED
      BY <1>0, <2>1, <3>2 DEF ReadServer, TypeOK, client, toServer
  <2>2. CASE Send
    <3>1. toClient' \in Seq(Nat) /\ sending' \in Seq(Nat)
      BY <1>0, <2>2 DEF Send
    <3>2. \A s \in Streams' : s \in Seq(Nat)
      BY <1>0, <2>2, <3>1 DEF Send, Streams, toServer, server
    <3>3. outbox' \in 0 .. WsBuffer
      BY <2>2 DEF Send, TypeOK
    <3>4. locked' \in BOOLEAN
      BY <2>2 DEF Send
    <3> QED
      BY <2>2, <3>2, <3>3, <3>4 DEF Send, TypeOK, client, toServer, server
  <2>3. CASE SendFails \/ ServerEnded
    BY <2>3 DEF SendFails, ServerEnded, End, TypeOK, Streams, client, toServer, server, back
  <2> QED
    BY <1>4, <2>1, <2>2, <2>3 DEF ServerToClient
<1>5. CASE Close
  BY <1>5 DEF Close, TypeOK, Streams, client, toServer, server, back
<1>6. CASE Peers
  <2>1. ASSUME NEW n \in 0 .. MessageBytes, ClientSends(n)
        PROVE  TypeOK'
    <3>1. [i \in 1 .. n |-> clientSent + i] \in Seq(Nat)
      BY <1>0
    <3>2. fromClient' \in Seq(Seq(Nat)) /\ Len(fromClient') = Len(fromClient) + 1
      BY <1>0, <2>1, <3>1, QueueAppend DEF ClientSends
    <3>3. UNCHANGED Streams
      BY <2>1 DEF ClientSends, Streams, toServer, server, back
    <3>4. dropped' \subseteq 1 .. clientSent'
      BY <1>0, <2>1 DEF ClientSends, TypeOK, toServer
    <3> QED
      BY <1>0, <2>1, <3>2, <3>3, <3>4 DEF ClientSends, TypeOK, toServer, server, back
  <2>2. CASE ClientLeaves
    <3>1. fromClient' \in Seq(Seq(Nat)) /\ Len(fromClient') <= MaxWire
      <4>1. CASE fromClient' = fromClient
        BY <1>0, <4>1 DEF TypeOK
      <4>2. CASE fromClient' = <<>>
        BY <4>2
      <4> QED
        BY <2>2, <4>1, <4>2 DEF ClientLeaves
    <3>2. clientOpen' \in BOOLEAN
      BY <2>2 DEF ClientLeaves
    <3>3. UNCHANGED Streams
      BY <2>2 DEF ClientLeaves, Streams, toServer, server, back
    <3> QED
      BY <2>2, <3>1, <3>2, <3>3 DEF ClientLeaves, TypeOK, toServer, server, back
  <2>3. CASE ClientTakes
    BY <2>3 DEF ClientTakes, TypeOK, Streams, client, toServer, server
  <2>4. CASE ServerSends
    <3>1. fromServer' \in Seq(Nat)
      BY <1>0, <2>4 DEF ServerSends
    <3>2. \A s \in Streams' : s \in Seq(Nat)
      BY <1>0, <2>4, <3>1 DEF ServerSends, Streams, toServer, back
    <3> QED
      BY <1>0, <2>4, <3>2 DEF ServerSends, TypeOK, client, toServer, back
  <2>5. CASE ServerReads
    BY <2>5 DEF ServerReads, TypeOK, Streams, client, server, back
  <2>6. CASE ServerHangsUp
    BY <2>6 DEF ServerHangsUp, TypeOK, Streams, client, toServer, back
  <2> QED
    BY <1>6, <2>1, <2>2, <2>3, <2>4, <2>5, <2>6 DEF Peers
<1> QED
  BY <1>1, <1>2, <1>3, <1>4, <1>5, <1>6 DEF Next

-----------------------------------------------------------------------------
(* The client's bytes.                                                     *)

ForwardVars == <<written, writing, pending, fromClient, dropped, clientSent, clientOpen>>

\* A message moves from the client's queue to the proxy's, or is dropped.
LEMMA BufferKeepsForward == TypeOK /\ Forward /\ Buffer => Forward'
<1> SUFFICES ASSUME TypeOK, Forward, Buffer PROVE Forward'
  OBVIOUS
<1> DEFINE m == Head(fromClient)
<1>1. /\ fromClient # <<>> /\ fromClient' = Tail(fromClient) /\ phase' = "connecting"
      /\ UNCHANGED <<written, writing, clientSent, clientOpen>>
      /\ fromClient \in Seq(Seq(Nat)) /\ pending \in Seq(Seq(Nat))
  BY StreamTypes DEF Buffer
<1>2. /\ m \in Seq(Nat)
      /\ Carried(fromClient) = Bytes(m) \cup Carried(fromClient')
      /\ Ascending(m) /\ Sorted(fromClient') /\ Before(Bytes(m), Carried(fromClient'))
  BY <1>1, QueueTail DEF Forward
<1> HIDE DEF m
<1>3. CASE m = <<>> /\ UNCHANGED <<pending, dropped>>
  <2>1. Bytes(m) = {}
    BY <1>3 DEF Bytes
  <2>2. Carried(fromClient') = Carried(fromClient) /\ Live' = Live
    BY <1>1, <1>2, <1>3, <2>1 DEF Live
  <2> QED
    BY <1>1, <1>2, <1>3, <2>2 DEF Forward
<1>4. CASE /\ pending' = Append(pending, m) /\ dropped' = dropped
  <2>1. /\ Carried(pending') = Carried(pending) \cup Bytes(m)
        /\ Sorted(pending')
    <3>1. Before(Carried(pending), Bytes(m))
      BY <1>2 DEF Forward, Before
    <3> QED
      BY <1>1, <1>2, <1>4, <3>1, QueueAppend DEF Forward
  <2>2. Live' = Live
    BY <1>1, <1>2, <2>1 DEF Live
  <2>3. /\ Before(Bytes(written), Carried(pending')) /\ Before(Bytes(writing), Carried(pending'))
        /\ Before(Bytes(written), Carried(fromClient')) /\ Before(Bytes(writing), Carried(fromClient'))
        /\ Before(Carried(pending'), Carried(fromClient')) /\ Before(dropped, Carried(fromClient'))
    BY <1>2, <2>1 DEF Forward, Before
  <2> QED
    BY <1>1, <1>2, <1>4, <2>1, <2>2, <2>3 DEF Forward
<1>5. CASE dropped' = dropped \cup Bytes(m) /\ UNCHANGED pending
  <2>1. /\ Live = Live' \cup Bytes(m)
        /\ \A b \in Live' : b \notin Bytes(m)
    <3>1. Live = Live' \cup Bytes(m)
      BY <1>1, <1>2, <1>5 DEF Live
    <3>2. /\ Before(Bytes(written), Bytes(m)) /\ Before(Bytes(writing), Bytes(m))
          /\ Before(Carried(pending), Bytes(m))
      BY <1>2 DEF Forward, Before
    <3>3. Bytes(m) \subseteq Nat
      BY <1>2 DEF Bytes
    <3>4. Live' = Bytes(written) \cup Bytes(writing) \cup Carried(pending) \cup Carried(fromClient')
      BY <1>1, <1>5 DEF Live
    <3> QED
      BY <1>2, <3>1, <3>2, <3>3, <3>4 DEF Before
  <2>2. dropped' \cup Live' = dropped \cup Live
    BY <1>5, <2>1
  <2>3. /\ Before(Bytes(written), Carried(fromClient')) /\ Before(Bytes(writing), Carried(fromClient'))
        /\ Before(Carried(pending), Carried(fromClient')) /\ Before(dropped', Carried(fromClient'))
    BY <1>2, <1>5 DEF Forward, Before
  <2>4. dropped' \cap Live' = {} /\ Live' \subseteq 1 .. clientSent
    BY <1>5, <2>1 DEF Forward
  <2>5. /\ \A b \in Live' : 1 .. b \subseteq dropped' \cup Live'
        /\ clientOpen => 1 .. clientSent \subseteq dropped' \cup Live'
    BY <2>1, <2>2 DEF Forward
  <2> QED
    BY <1>1, <1>2, <1>5, <2>3, <2>4, <2>5 DEF Forward
<1> QED
  BY <1>3, <1>4, <1>5 DEF Buffer, PushPending, Bytes, m

\* The next message to write comes from the buffer, or from the client once the
\* buffer is empty.
LEMMA DrainKeepsForward == TypeOK /\ Forward /\ Drain => Forward'
<1> SUFFICES ASSUME TypeOK, Forward, Drain PROVE Forward'
  OBVIOUS
<1>1. /\ pending # <<>> /\ pending' = Tail(pending) /\ writing' = Head(pending) /\ writing = <<>>
      /\ UNCHANGED <<phase, written, fromClient, dropped, clientSent, clientOpen>>
      /\ phase = "draining" /\ pending \in Seq(Seq(Nat))
  BY StreamTypes DEF Drain, client
<1>2. /\ Carried(pending) = Bytes(writing') \cup Carried(pending')
      /\ Ascending(writing') /\ Sorted(pending') /\ Before(Bytes(writing'), Carried(pending'))
  BY <1>1, QueueTail DEF Forward
<1>3. Bytes(writing) = {}
  BY <1>1 DEF Bytes
<1>4. Live' = Live
  BY <1>1, <1>2, <1>3 DEF Live
<1>5. /\ Before(Bytes(written), Carried(pending')) /\ Before(Bytes(written), Bytes(writing'))
      /\ Before(Bytes(writing'), Carried(fromClient)) /\ Before(Carried(pending'), Carried(fromClient))
  BY <1>2 DEF Forward, Before
<1> QED
  BY <1>1, <1>2, <1>4, <1>5 DEF Forward

LEMMA TakeMessageKeepsForward == TypeOK /\ Forward /\ TakeMessage => Forward'
<1> SUFFICES ASSUME TypeOK, Forward, TakeMessage PROVE Forward'
  OBVIOUS
<1>1. /\ fromClient # <<>> /\ fromClient' = Tail(fromClient) /\ writing' = Head(fromClient)
      /\ UNCHANGED <<phase, written, pending, dropped, clientSent, clientOpen>>
      /\ writing = <<>> /\ pending = <<>> /\ fromClient \in Seq(Seq(Nat))
  BY StreamTypes DEF TakeMessage, Forward
<1>2. /\ Carried(fromClient) = Bytes(writing') \cup Carried(fromClient')
      /\ Ascending(writing') /\ Sorted(fromClient') /\ Before(Bytes(writing'), Carried(fromClient'))
  BY <1>1, QueueTail DEF Forward
<1>3. Bytes(writing) = {} /\ Carried(pending) = {}
  BY <1>1 DEF Bytes, Carried
<1>4. Live' = Live
  BY <1>1, <1>2, <1>3 DEF Live
<1>5. /\ Before(Bytes(written), Carried(fromClient')) /\ Before(Bytes(written), Bytes(writing'))
      /\ Before(Bytes(writing'), Carried(pending)) /\ Before(Carried(pending), Carried(fromClient'))
      /\ Before(dropped, Carried(fromClient'))
  BY <1>2, <1>3 DEF Forward, Before
<1> QED
  BY <1>1, <1>2, <1>4, <1>5 DEF Forward

LEMMA WriteKeepsForward == TypeOK /\ Forward /\ Write => Forward'
<1> SUFFICES ASSUME TypeOK, Forward, Write PROVE Forward'
  OBVIOUS
<1> DEFINE h == Head(writing)
<1>1. /\ writing # <<>> /\ written' = Append(written, h) /\ writing' = Tail(writing)
      /\ UNCHANGED <<phase, pending, fromClient, dropped, clientSent, clientOpen>>
      /\ writing \in Seq(Nat) /\ written \in Seq(Nat)
  BY StreamTypes DEF Write, client
<1>2. /\ h \in Nat /\ Bytes(writing) = {h} \cup Bytes(writing')
      /\ Ascending(writing') /\ Before({h}, Bytes(writing'))
  BY <1>1, BytesTail DEF Forward
<1>3. Bytes(written') = Bytes(written) \cup {h} /\ Ascending(written')
  <2>1. Before(Bytes(written), {h})
    BY <1>2 DEF Forward, Before
  <2> QED
    BY <1>1, <1>2, <2>1, BytesAppend DEF Forward
<1> HIDE DEF h
<1>4. Live' = Live
  BY <1>1, <1>2, <1>3 DEF Live
<1>5. /\ Before(Bytes(written'), Bytes(writing'))
      /\ Before(Bytes(written'), Carried(pending)) /\ Before(Bytes(written'), Carried(fromClient))
      /\ Before(Bytes(writing'), Carried(pending)) /\ Before(Bytes(writing'), Carried(fromClient))
  BY <1>2, <1>3 DEF Forward, Before
<1> QED
  BY <1>1, <1>2, <1>3, <1>4, <1>5 DEF Forward

\* The client numbers on, or leaves, and may take what is on its way with it.
LEMMA ClientSendsKeepsForward ==
    ASSUME TypeOK, Forward, NEW n \in 0 .. MessageBytes, ClientSends(n)
    PROVE  Forward'
<1> DEFINE m == [i \in 1 .. n |-> clientSent + i]
<1>1. /\ clientOpen /\ fromClient' = Append(fromClient, m) /\ clientSent' = clientSent + n
      /\ UNCHANGED <<phase, clientOpen, written, writing, pending, dropped>>
      /\ fromClient \in Seq(Seq(Nat)) /\ clientSent \in Nat /\ n \in Nat
  BY SizesAssumption, StreamTypes DEF ClientSends, toServer, TypeOK
<1>2. /\ m \in Seq(Nat) /\ Len(m) = n /\ Ascending(m)
  BY <1>1 DEF Ascending
<1>3. Bytes(m) = clientSent + 1 .. clientSent + n
  <2>1. Bytes(m) = {clientSent + i : i \in 1 .. n}
    BY <1>1, <1>2 DEF Bytes
  <2>2. \A b \in clientSent + 1 .. clientSent + n : b - clientSent \in 1 .. n /\ b = clientSent + (b - clientSent)
    BY <1>1
  <2>3. \A i \in 1 .. n : clientSent + i \in clientSent + 1 .. clientSent + n
    BY <1>1
  <2> QED
    BY <2>1, <2>2, <2>3
<1> HIDE DEF m
<1>4. dropped \subseteq 1 .. clientSent /\ Live \subseteq 1 .. clientSent
  BY DEF TypeOK, Forward
<1>5. /\ Before(Bytes(written), Bytes(m)) /\ Before(Bytes(writing), Bytes(m))
      /\ Before(Carried(pending), Bytes(m)) /\ Before(Carried(fromClient), Bytes(m))
      /\ Before(dropped, Bytes(m))
  BY <1>1, <1>3, <1>4 DEF Live, Before
<1>6. /\ Carried(fromClient') = Carried(fromClient) \cup Bytes(m)
      /\ Sorted(fromClient')
  BY <1>1, <1>2, <1>5, QueueAppend DEF Forward
<1>7. Live' = Live \cup Bytes(m)
  BY <1>1, <1>6 DEF Live
<1>8. /\ Before(Bytes(written), Carried(fromClient')) /\ Before(Bytes(writing), Carried(fromClient'))
      /\ Before(Carried(pending), Carried(fromClient')) /\ Before(dropped, Carried(fromClient'))
  BY <1>5, <1>6 DEF Forward, Before
<1>9. 1 .. clientSent' \subseteq dropped \cup Live'
  <2>1. \A b \in 1 .. clientSent + n : b \in 1 .. clientSent \/ b \in clientSent + 1 .. clientSent + n
    BY <1>1
  <2> QED
    BY <1>1, <1>3, <1>7, <2>1 DEF Forward
<1>10. Live' \subseteq 1 .. clientSent'
  BY <1>1, <1>3, <1>4, <1>7
<1>11. \A b \in Live' : 1 .. b \subseteq dropped \cup Live'
  <2>1. \A b \in Live' : 1 .. b \subseteq 1 .. clientSent'
    BY <1>1, <1>10
  <2> QED
    BY <1>9, <2>1
<1>12. dropped \cap Live' = {}
  <2>1. \A b \in Bytes(m) : b \notin 1 .. clientSent
    BY <1>1, <1>3
  <2>2. dropped \cap Live = {}
    BY DEF Forward
  <2> QED
    BY <1>4, <1>7, <2>1, <2>2
<1> QED
  BY <1>1, <1>6, <1>8, <1>9, <1>10, <1>11, <1>12 DEF Forward

LEMMA ClientLeavesKeepsForward == TypeOK /\ Forward /\ ClientLeaves => Forward'
<1> SUFFICES ASSUME TypeOK, Forward, ClientLeaves PROVE Forward'
  OBVIOUS
<1>1. /\ ~ clientOpen'
      /\ UNCHANGED <<phase, clientSent, written, writing, pending, dropped>>
  BY DEF ClientLeaves, toServer
<1>2. CASE fromClient' = fromClient
  BY <1>1, <1>2 DEF Forward, Live
<1>3. CASE fromClient' = <<>>
  <2>1. Carried(fromClient') = {} /\ Sorted(fromClient')
    BY <1>3 DEF Carried, Sorted
  <2>2. Live' \subseteq Live /\ Live = Live' \cup Carried(fromClient)
    BY <1>1, <2>1 DEF Live
  <2>3. Before(Live', Carried(fromClient))
    BY <1>1, <2>1 DEF Forward, Live, Before
  <2>4. ASSUME NEW b \in Live' PROVE 1 .. b \subseteq dropped \cup Live'
    <3>1. b \in Nat /\ 1 .. b \subseteq dropped \cup Live
      BY <2>2 DEF Forward, TypeOK
    <3>2. \A a \in 1 .. b : a \notin Carried(fromClient)
      BY <2>3, <3>1 DEF Before
    <3> QED
      BY <2>2, <3>1, <3>2
  <2>5. /\ Before(Bytes(written), Carried(fromClient')) /\ Before(Bytes(writing), Carried(fromClient'))
        /\ Before(Carried(pending), Carried(fromClient')) /\ Before(dropped, Carried(fromClient'))
    BY <2>1 DEF Before
  <2> QED
    BY <1>1, <2>1, <2>2, <2>4, <2>5 DEF Forward
<1> QED
  BY <1>2, <1>3 DEF ClientLeaves

\* Every other step leaves the client's bytes where they are.
LEMMA NextKeepsForward == TypeOK /\ Forward /\ [Next]_vars => Forward'
<1> SUFFICES ASSUME TypeOK, Forward, [Next]_vars PROVE Forward'
  OBVIOUS
<1>1. ASSUME UNCHANGED ForwardVars, phase' = "pumping" => (phase = "pumping" \/ pending = <<>>)
      PROVE  Forward'
  BY <1>1 DEF ForwardVars, Forward, Live
<1>2. Next => \/ Buffer \/ Drain \/ TakeMessage \/ Write \/ ClientLeaves
              \/ \E n \in 0 .. MessageBytes : ClientSends(n)
              \/ /\ UNCHANGED ForwardVars
                 /\ phase' = "pumping" => (phase = "pumping" \/ pending = <<>>)
  BY DEF Next, Connecting, ClientToServer, ServerToClient, Peers,
         ClientTakes, ServerSends, ServerReads, ServerHangsUp,
         Connect, ConnectFails, LeftEarly, StartPumps, Drained, WriteFails, ClientEnded,
         ReadServer, Send, SendFails, ServerEnded, Close, End, ForwardVars, client, toServer
<1>3. UNCHANGED vars => UNCHANGED ForwardVars /\ UNCHANGED phase
  BY DEF vars, client, toServer, ForwardVars
<1> QED
  BY <1>1, <1>2, <1>3, BufferKeepsForward, DrainKeepsForward, TakeMessageKeepsForward,
     WriteKeepsForward, ClientSendsKeepsForward, ClientLeavesKeepsForward

-----------------------------------------------------------------------------
(* The theorems.                                                           *)

LEMMA IInvInductive == IInv /\ [Next]_vars => IInv'
<1> SUFFICES ASSUME IInv, [Next]_vars PROVE IInv'
  OBVIOUS
<1>1. TypeOK /\ Forward /\ Backward /\ Closing /\ Live \subseteq 1 .. clientSent
  BY DEF IInv, Forward
<1> QED
  BY <1>1, NextKeepsTypeOK, NextKeepsForward, NextKeepsBackward, NextKeepsClosing DEF IInv

LEMMA SpecIInv == Spec => []IInv
<1> QED
  BY InitIInv, IInvInductive, PTL DEF Spec

\* Every variable of a connection has its type, and neither queue nor socket
\* holds more than its limit.
THEOREM ProxyTypeCorrect == Spec => []TypeOK
<1>1. IInv => TypeOK
  BY DEF IInv
<1> QED
  BY <1>1, SpecIInv, PTL

LEMMA WrittenIsStream == IInv => ServerSeesStream
<1> SUFFICES ASSUME IInv PROVE ServerSeesStream
  OBVIOUS
<1>1. /\ written \in Seq(Nat) /\ Len(written) \in Nat
      /\ \A i \in 1 .. Len(written) : written[i] \in Nat /\ written[i] \in Live
  BY StreamTypes DEF IInv, Live, Bytes
<1>2. \A i, j \in 1 .. Len(written) : i < j => written[i] < written[j]
  BY DEF IInv, Forward, Ascending
<1>3. \A i \in 1 .. Len(written) : written[i] \notin dropped
  BY <1>1 DEF IInv, Forward
<1>4. ASSUME NEW i \in 1 .. Len(written), NEW b \in 1 .. written[i], b \notin dropped
      PROVE  \E j \in 1 .. i : written[j] = b
  <2>1. b \in Live /\ b \in Nat /\ b <= written[i]
    BY <1>1, <1>4 DEF IInv, Forward
  <2>2. written[i] \in Bytes(written)
    BY DEF Bytes
  <2>3. b \notin Bytes(writing) /\ b \notin Carried(pending) /\ b \notin Carried(fromClient)
    BY <1>1, <2>1, <2>2 DEF IInv, Forward, Before
  <2>4. PICK j \in 1 .. Len(written) : written[j] = b
    BY <2>1, <2>3 DEF Live, Bytes
  <2>5. ~ i < j
    BY <1>1, <1>2, <2>1, <2>4
  <2> QED
    BY <1>1, <2>4, <2>5
<1> QED
  BY <1>2, <1>3, <1>4 DEF ServerSeesStream

\* The server is sent the client's bytes in order and once each, and misses
\* only those push_pending dropped.
THEOREM ServerGetsStream == Spec => []ServerSeesStream
<1> QED
  BY WrittenIsStream, SpecIInv, PTL

\* The client is sent the server's bytes in order, without a gap.
THEOREM ClientGetsStream == Spec => []ClientSeesStream
<1>1. IInv => ClientSeesStream
  BY DEF IInv, Backward, ClientSeesStream
<1> QED
  BY <1>1, SpecIInv, PTL

\* A client that is still there gets one Close frame.
THEOREM ClientIsClosedOnce == Spec => []ClosedOnce
<1>1. IInv => ClosedOnce
  BY DEF IInv, Closing
<1> QED
  BY <1>1, SpecIInv, PTL

-----------------------------------------------------------------------------
(* The two streams.  What is given up is one stretch because messages are, *)
(* and nothing is handed over while the proxy connects.                    *)

Run(m) == \A i \in 1 .. Len(m) : m[i] = m[1] + i - 1
Messages ==
    /\ \A k \in 1 .. Len(fromClient) : Run(fromClient[k])
    /\ phase = "connecting" => written = <<>> /\ writing = <<>>

LEMMA InitMessages == Init => Messages
BY DEF Init, Messages

LEMMA NextKeepsMessages == TypeOK /\ Messages /\ [Next]_vars => Messages'
<1> SUFFICES ASSUME TypeOK, Messages, [Next]_vars PROVE Messages'
  OBVIOUS
<1>0. fromClient \in Seq(Seq(Nat)) /\ clientSent \in Nat
  BY StreamTypes, SizesAssumption DEF TypeOK
<1>1. ASSUME NEW n \in 0 .. MessageBytes, ClientSends(n)
      PROVE  Messages'
  <2> DEFINE m == [i \in 1 .. n |-> clientSent + i]
  <2>1. /\ fromClient' = Append(fromClient, m) /\ n \in Nat
        /\ UNCHANGED <<phase, written, writing>>
    BY <1>1, SizesAssumption DEF ClientSends, toServer
  <2>2. m \in Seq(Nat) /\ Run(m)
    BY <1>0, <2>1 DEF Run
  <2> HIDE DEF m
  <2>3. \A k \in 1 .. Len(fromClient') : fromClient'[k] = m \/ (k \in 1 .. Len(fromClient) /\ fromClient'[k] = fromClient[k])
    BY <1>0, <2>1, <2>2
  <2> QED
    BY <2>1, <2>2, <2>3 DEF Messages
<1>2. ASSUME fromClient # <<>>, fromClient' = Tail(fromClient)
      PROVE  \A k \in 1 .. Len(fromClient') : Run(fromClient'[k])
  <2>1. \A k \in 1 .. Len(fromClient') : k + 1 \in 1 .. Len(fromClient) /\ fromClient'[k] = fromClient[k + 1]
    BY <1>0, <1>2
  <2> QED
    BY <2>1 DEF Messages
<1>3. CASE Buffer
  <2>1. UNCHANGED <<phase, written, writing>>
    BY <1>3 DEF Buffer
  <2> QED
    BY <1>2, <1>3, <2>1 DEF Buffer, Messages
<1>4. CASE TakeMessage
  BY <1>2, <1>4 DEF TakeMessage, Messages
<1>5. CASE ClientLeaves
  BY <1>5 DEF ClientLeaves, toServer, Messages
<1>6. CASE Write \/ Drain
  BY <1>6 DEF Write, Drain, Connected, client, Messages
<1>7. ASSUME UNCHANGED <<fromClient, written, writing>>, phase' = phase \/ phase' # "connecting"
      PROVE  Messages'
  BY <1>7 DEF Messages
<1>8. Next => \/ Buffer \/ TakeMessage \/ ClientLeaves \/ Write \/ Drain
              \/ \E n \in 0 .. MessageBytes : ClientSends(n)
              \/ /\ UNCHANGED <<fromClient, written, writing>>
                 /\ phase' = phase \/ phase' # "connecting"
  BY DEF Next, Connecting, ClientToServer, ServerToClient, Peers,
         ClientTakes, ServerSends, ServerReads, ServerHangsUp,
         Connect, ConnectFails, LeftEarly, StartPumps, WriteFails, ClientEnded,
         ReadServer, Send, SendFails, ServerEnded, Close, End, client, toServer
<1>9. UNCHANGED vars => UNCHANGED <<fromClient, written, writing, phase>>
  BY DEF vars, client, toServer
<1> QED
  BY <1>1, <1>3, <1>4, <1>5, <1>6, <1>7, <1>8, <1>9

LEMMA RunIsStretch ==
    ASSUME NEW m \in Seq(Nat), m # <<>>, Run(m)
    PROVE  Bytes(m) = m[1] .. m[Len(m)] /\ m[1] \in Bytes(m) /\ m[Len(m)] \in Bytes(m)
<1> PICK n \in Nat \ {0} : n = Len(m)
  OBVIOUS
<1> PICK a \in Nat : a = m[1]
  OBVIOUS
<1>1. 1 \in 1 .. n /\ n \in 1 .. n
  OBVIOUS
<1>2. \A i \in 1 .. n : m[i] = a + i - 1
  BY DEF Run
<1>3. m[n] = a + n - 1
  BY <1>1, <1>2
<1>4. \A b \in a .. a + n - 1 : b - a + 1 \in 1 .. n /\ b = a + (b - a + 1) - 1
  OBVIOUS
<1>5. ASSUME NEW b \in a .. m[n]
      PROVE  \E i \in 1 .. n : b = m[i]
  <2> PICK i : i = b - a + 1
    OBVIOUS
  <2>1. i \in 1 .. n /\ b = a + i - 1
    BY <1>3, <1>4
  <2> QED
    BY <1>2, <2>1
<1>6. \A i \in 1 .. n : m[i] \in a .. m[n]
  BY <1>2, <1>3
<1> QED
  BY <1>1, <1>5, <1>6 DEF Bytes

StreamsIntact == Upstream!Intact(written) /\ Downstream!Intact(toClient)

LEMMA IInvStreams == IInv => StreamsIntact
<1> SUFFICES ASSUME IInv PROVE StreamsIntact
  OBVIOUS
<1>1. ServerSeesStream
  BY WrittenIsStream
<1>2. \A i \in 1 .. Len(written) : written[i] \in 1 .. clientSent
  BY DEF IInv, Forward, Live, Bytes
<1>3. Upstream!Intact(written)
  BY <1>1, <1>2 DEF ServerSeesStream, Upstream!Intact
<1>4. /\ \A i \in 1 .. Len(toClient) : toClient[i] = i
      /\ Len(toClient) \in Nat /\ serverSent \in Nat /\ Len(toClient) <= serverSent
  BY StreamTypes DEF IInv, Backward
<1>5. Downstream!Intact(toClient)
  BY <1>4 DEF Downstream!Intact
<1> QED
  BY <1>3, <1>5 DEF StreamsIntact

LEMMA UpstreamStep ==
    ASSUME IInv, Messages, StreamsIntact', [Next]_vars
    PROVE  [Upstream!StreamNext]_(Upstream!streamVars)
<1>0. /\ fromClient \in Seq(Seq(Nat)) /\ clientSent \in Nat /\ written \in Seq(Nat) /\ writing \in Seq(Nat)
  BY StreamTypes, SizesAssumption DEF IInv, TypeOK
<1>1. ASSUME NEW n \in 0 .. MessageBytes, ClientSends(n)
      PROVE  Upstream!Send \/ UNCHANGED Upstream!streamVars
  <2>1. clientSent' = clientSent + n /\ n \in Nat /\ UNCHANGED <<written, dropped>>
    BY <1>1, SizesAssumption DEF ClientSends, toServer
  <2>2. CASE n = 0
    BY <1>0, <2>1, <2>2 DEF Upstream!streamVars
  <2>3. CASE n # 0
    BY <1>0, <2>1, <2>3 DEF Upstream!Send
  <2> QED
    BY <2>2, <2>3
<1>2. CASE Write
  <2>1. /\ written' = Append(written, Head(writing)) /\ writing # <<>>
        /\ UNCHANGED <<clientSent, dropped>>
    BY <1>2 DEF Write, client
  <2>2. Len(written') > Len(written) /\ \A i \in 1 .. Len(written) : written'[i] = written[i]
    <3>1. Head(writing) \in Nat
      BY <1>0, <2>1
    <3> QED
      BY <1>0, <2>1, <3>1
  <2>3. Upstream!Intact(written')
    BY <2>1 DEF StreamsIntact, Upstream!Intact
  <2> QED
    BY <2>1, <2>2, <2>3 DEF Upstream!StreamNext, Upstream!HandOver
<1>3. CASE Buffer
  <2> PICK m : m = Head(fromClient)
    OBVIOUS
  <2>1. /\ fromClient # <<>> /\ UNCHANGED <<written, clientSent>> /\ written = <<>>
        /\ \/ UNCHANGED dropped
           \/ m # <<>> /\ dropped' = dropped \cup Bytes(m)
    <3>1. fromClient # <<>> /\ UNCHANGED <<written, clientSent>> /\ written = <<>>
      BY <1>3 DEF Buffer, Messages
    <3>2. UNCHANGED dropped \/ dropped' = dropped \cup Bytes(m)
      BY <1>3 DEF Buffer, PushPending, Bytes
    <3>3. m = <<>> => Bytes(m) = {}
      BY DEF Bytes
    <3> QED
      BY <3>1, <3>2, <3>3
  <2>2. m \in Seq(Nat) /\ Run(m) /\ Bytes(m) \subseteq Carried(fromClient)
    <3>1. m = fromClient[1] /\ 1 \in 1 .. Len(fromClient)
      BY <1>0, <2>1
    <3>2. Run(m)
      BY <3>1 DEF Messages
    <3> QED
      BY <1>0, <2>1, <3>1, <3>2, CarriedIn
  <2>3. CASE UNCHANGED dropped
    BY <2>1, <2>3 DEF Upstream!streamVars
  <2>4. CASE m # <<>> /\ dropped' = dropped \cup Bytes(m)
    <3>1. Bytes(m) = m[1] .. m[Len(m)] /\ m[1] \in Bytes(m) /\ m[Len(m)] \in Bytes(m)
      BY <2>2, <2>4, RunIsStretch
    <3>2. m[1] \in 1 .. clientSent /\ m[Len(m)] \in 1 .. clientSent
      BY <2>2, <3>1 DEF IInv, Forward, Live
    <3>3. \A x \in dropped : x < m[1]
      BY <2>2, <3>1 DEF IInv, Forward, Before
    <3> QED
      BY <2>1, <2>4, <3>1, <3>2, <3>3 DEF Upstream!StreamNext, Upstream!GiveUp
  <2> QED
    BY <2>1, <2>3, <2>4
<1>4. CASE UNCHANGED <<clientSent, written, dropped>>
  BY <1>4 DEF Upstream!streamVars
<1>5. Next => \/ Buffer \/ Write \/ \E n \in 0 .. MessageBytes : ClientSends(n)
              \/ UNCHANGED <<clientSent, written, dropped>>
  BY DEF Next, Connecting, ClientToServer, ServerToClient, Peers, ClientLeaves,
         ClientTakes, ServerSends, ServerReads, ServerHangsUp, Drain, TakeMessage,
         Connect, ConnectFails, LeftEarly, StartPumps, WriteFails, ClientEnded,
         ReadServer, Send, SendFails, ServerEnded, Close, client, toServer
<1>6. UNCHANGED vars => UNCHANGED <<clientSent, written, dropped>>
  BY DEF vars, client, toServer
<1> QED
  BY <1>1, <1>2, <1>3, <1>4, <1>5, <1>6 DEF Upstream!StreamNext

LEMMA DownstreamStep ==
    ASSUME IInv, StreamsIntact', [Next]_vars
    PROVE  [Downstream!StreamNext]_(Downstream!streamVars)
<1>0. serverSent \in Nat /\ toClient \in Seq(Nat) /\ sending \in Seq(Nat)
  BY StreamTypes, SizesAssumption DEF IInv, TypeOK
<1>1. CASE ServerSends
  <2>1. serverSent' = serverSent + 1 /\ UNCHANGED toClient
    BY <1>1 DEF ServerSends, back
  <2> QED
    BY <1>0, <2>1 DEF Downstream!StreamNext, Downstream!Send
<1>2. CASE Send
  <2>1. toClient' = toClient \o sending /\ sending # <<>> /\ UNCHANGED serverSent
    BY <1>2 DEF Send, server
  <2>2. Len(toClient') > Len(toClient) /\ \A i \in 1 .. Len(toClient) : toClient'[i] = toClient[i]
    BY <1>0, <2>1
  <2>3. Downstream!Intact(toClient')
    BY <2>1 DEF StreamsIntact, Downstream!Intact
  <2> QED
    BY <2>1, <2>2, <2>3 DEF Downstream!StreamNext, Downstream!HandOver
<1>3. CASE UNCHANGED <<serverSent, toClient>>
  BY <1>3 DEF Downstream!streamVars
<1>4. Next => ServerSends \/ Send \/ UNCHANGED <<serverSent, toClient>>
  BY DEF Next, Connecting, ClientToServer, ServerToClient, Peers, ClientSends, ClientLeaves,
         ClientTakes, ServerReads, ServerHangsUp, Drain, TakeMessage, Buffer, Write,
         Connect, ConnectFails, LeftEarly, StartPumps, WriteFails, ClientEnded,
         ReadServer, SendFails, ServerEnded, Close, server, back
<1>5. UNCHANGED vars => UNCHANGED <<serverSent, toClient>>
  BY DEF vars, server, back
<1> QED
  BY <1>1, <1>2, <1>3, <1>4, <1>5

\* The proxy is two streams: it hands both peers what the other one sent, only
\* ever adds to it, and gives up nothing once the server has had a byte.
THEOREM ProxyIsTwoStreams == Spec => ImplementsStreams
<1>1. Init => Upstream!StreamInit /\ Downstream!StreamInit
  BY DEF Init, Upstream!StreamInit, Downstream!StreamInit
<1>2. IInv => TypeOK
  BY DEF IInv
<1>3. IInv /\ Messages /\ StreamsIntact' /\ [Next]_vars =>
         /\ [Upstream!StreamNext]_(Upstream!streamVars)
         /\ [Downstream!StreamNext]_(Downstream!streamVars)
  BY UpstreamStep, DownstreamStep
<1> QED
  BY <1>1, <1>2, <1>3, SpecIInv, IInvStreams, InitMessages, NextKeepsMessages, PTL
     DEF Spec, ImplementsStreams, Upstream!StreamSpec, Downstream!StreamSpec

-----------------------------------------------------------------------------
(* AppProxy.                                                               *)

\* What is known of the target's answer, whatever it is.
LEMMA AnswerFacts ==
    ASSUME answer \in Answers
    PROVE  /\ answer.head \in Nat /\ answer.head > 0 /\ answer.rest \in Nat /\ Total \in Nat
           /\ Len(answer.lengths) \in Nat
           /\ DOMAIN answer.lengths = 1 .. Len(answer.lengths)
           /\ \A i \in DOMAIN answer.lengths :
                 answer.lengths[i] \in Int /\ (answer.lengths[i] # Unreadable => answer.lengths[i] \in Nat)
           /\ answer.lengths = <<>> <=> Len(answer.lengths) = 0
<1>1. answer \in Answer
  BY RelayAssumption
<1>2. /\ answer.head \in Nat \ {0} /\ answer.rest \in Nat
      /\ answer.lengths \in Seq(Nat \cup {Unreadable})
  BY <1>1 DEF Answer
<1>3. \A i \in 1 .. Len(answer.lengths) : answer.lengths[i] \in Nat \cup {Unreadable}
  BY <1>2
<1> QED
  BY <1>2, <1>3 DEF Total, Unreadable

\* An answer that is passed on has as many bytes as the shortest length, and
\* they are there.
LEMMA ReadableIsWhole ==
    ASSUME answer \in Answers, NEW n \in Nat, Readable(n)
    PROVE  LET b == CutTo(n - answer.head) IN
           /\ b \in Nat /\ answer.head + b <= n
           /\ answer.lengths = <<>> => b = n - answer.head
           /\ \A i \in DOMAIN answer.lengths :
                 answer.lengths[i] # Unreadable /\ b <= answer.lengths[i]
           /\ answer.lengths # <<>> => \E i \in DOMAIN answer.lengths : b = answer.lengths[i]
<1> DEFINE last == Len(answer.lengths)
<1>1. n - answer.head \in Nat
  BY AnswerFacts DEF Readable
<1>2. CASE answer.lengths = <<>>
  BY <1>1, <1>2, AnswerFacts DEF CutTo
<1>3. CASE answer.lengths # <<>>
  <2>1. last \in DOMAIN answer.lengths
    BY <1>3, AnswerFacts
  <2>2. /\ answer.lengths[last] \in Nat
        /\ answer.lengths[last] <= n - answer.head
        /\ \A i \in DOMAIN answer.lengths :
              answer.lengths[i] # Unreadable /\ answer.lengths[last] <= answer.lengths[i]
    BY <2>1, AnswerFacts DEF Readable, Cuts
  <2>3. CutTo(n - answer.head) = answer.lengths[last]
    BY <1>1, <1>3, <2>2 DEF CutTo, Least
  <2> QED
    BY <1>1, <1>3, <2>1, <2>2, <2>3, AnswerFacts
<1> QED
  BY <1>2, <1>3

-----------------------------------------------------------------------------
(* The inductive invariant: a request that is not answered has no reply,   *)
(* nothing complete has been read on from, and without a reset no byte is  *)
(* lost between the two ends.                                              *)

Unanswered == at # "answered" => reply = NoReply
NotComplete ==
    /\ at \in {"arrived", "upload", "connect", "write"} => received = 0
    /\ at = "read" => ~ IsComplete(received)
NoneLost == target # "reset" => received + wire = sent

RelayIInv == RelayTypeOK /\ Unanswered /\ NotComplete /\ NoneLost /\ WholeAnswers /\ InHandIsPassed

LEMMA InitRelayIInv == RelayInit => RelayIInv
<1> SUFFICES ASSUME RelayInit PROVE RelayIInv
  OBVIOUS
<1>1. answer \in Answers /\ request.size \in Nat
  BY RelayAssumption DEF RelayInit, Request
<1>2. RelayTypeOK
  BY <1>1, AnswerFacts, RelayAssumption DEF RelayInit, RelayTypeOK, NoReply, Kinds
<1>3. Unanswered /\ NotComplete /\ NoneLost /\ WholeAnswers /\ InHandIsPassed
  BY DEF RelayInit, Unanswered, NotComplete, NoneLost, WholeAnswers, InHandIsPassed, NoReply
<1> QED
  BY <1>2, <1>3 DEF RelayIInv

\* parse_response, of everything read: the reply is typed, whole if it is an
\* answer, and no timeout.
LEMMA ParseIsWhole ==
    ASSUME RelayTypeOK, NEW n \in Nat, n <= sent, Parse(n), UNCHANGED <<answer, target, sent>>,
           answer.lengths = <<>> => target = "closed" /\ n = sent
    PROVE  /\ at' = "answered" /\ reply'.kind \in {"answer", "unreadable"} /\ reply'.body \in Nat
           /\ WholeAnswers'
<1>1. answer \in Answers /\ sent \in Nat
  BY AnswerFacts DEF RelayTypeOK
<1>2. CASE ~ Readable(n)
  BY <1>2 DEF Parse, AnswerWith, WholeAnswers
<1>3. CASE Readable(n)
  <2> DEFINE b == CutTo(n - answer.head)
  <2>1. at' = "answered" /\ reply' = [kind |-> "answer", body |-> b]
    BY <1>3 DEF Parse, AnswerWith
  <2>2. /\ b \in Nat /\ answer.head + b <= n
        /\ answer.lengths = <<>> => b = n - answer.head
        /\ \A i \in DOMAIN answer.lengths :
              answer.lengths[i] # Unreadable /\ b <= answer.lengths[i]
        /\ answer.lengths # <<>> => \E i \in DOMAIN answer.lengths : b = answer.lengths[i]
    BY <1>1, <1>3, ReadableIsWhole
  <2>3. answer.status = "final" /\ ~ answer.chunked
    BY <1>3 DEF Readable
  <2>4. answer.head + b <= sent
    BY <1>1, <2>2, AnswerFacts
  <2> HIDE DEF b
  <2> QED
    BY <2>1, <2>2, <2>3, <2>4 DEF WholeAnswers
<1> QED
  BY <1>2, <1>3

\* The steps that read: what has been read stays a part of what was sent.
LEMMA ReadChunkKeepsIInv == RelayIInv /\ ReadChunk => RelayIInv'
<1> SUFFICES ASSUME RelayIInv, ReadChunk PROVE RelayIInv'
  OBVIOUS
<1> DEFINE n == Least(wire, ChunkSize)
<1>1. /\ answer \in Answers /\ request \in Requests /\ received \in Nat /\ wire \in 0 .. SocketBytes
      /\ sent \in 0 .. Total /\ Total \in Nat /\ received + wire <= sent /\ SocketBytes \in Nat
  BY RelayAssumption, AnswerFacts DEF RelayIInv, RelayTypeOK
<1>2. n \in Nat /\ n <= wire /\ received' = received + n /\ wire' = wire - n
  BY <1>1, RelayAssumption DEF ReadChunk, Least
<1> HIDE DEF n
<1>3. received' \in Nat /\ wire' \in 0 .. SocketBytes /\ received' + wire' = received + wire
        /\ received' <= sent
  BY <1>1, <1>2
<1>4. UNCHANGED <<request, answer, outward, target, sent>> /\ at = "read"
  BY DEF ReadChunk
<1>5. NoneLost'
  BY <1>3, <1>4 DEF RelayIInv, NoneLost
<1>6. /\ at' \in {"read", "answered"} /\ reply'.kind \in Kinds /\ reply'.body \in Nat
      /\ reply'.kind # "timeout" /\ Unanswered' /\ NotComplete' /\ WholeAnswers'
  <2>1. CASE received' > MaxResponse
    BY <2>1 DEF ReadChunk, AnswerWith, Kinds, Unanswered, NotComplete, WholeAnswers
  <2>2. CASE ~ (received' > MaxResponse) /\ IsComplete(received')
    <3>1. answer.lengths # <<>>
      BY <1>1, <2>2, AnswerFacts DEF IsComplete
    <3>2. Parse(received')
      BY <2>2 DEF ReadChunk
    <3>3. /\ at' = "answered" /\ reply'.kind \in {"answer", "unreadable"}
          /\ reply'.body \in Nat /\ WholeAnswers'
      BY <1>3, <1>4, <3>1, <3>2, ParseIsWhole DEF RelayIInv
    <3> QED
      BY <3>3 DEF Unanswered, NotComplete, Kinds
  <2>3. CASE ~ (received' > MaxResponse) /\ ~ IsComplete(received')
    <3>1. UNCHANGED <<at, reply>>
      BY <2>3 DEF ReadChunk
    <3>2. reply' = NoReply
      BY <1>4, <3>1 DEF RelayIInv, Unanswered
    <3>3. NotComplete'
      BY <1>4, <2>3, <3>1 DEF NotComplete, IsComplete, EndOfBody
    <3> QED
      BY <1>4, <3>1, <3>2, <3>3 DEF NoReply, Kinds, Unanswered, WholeAnswers
  <2> QED
    BY <2>1, <2>2, <2>3
<1>7. RelayTypeOK'
  BY <1>1, <1>3, <1>4, <1>6 DEF RelayIInv, RelayTypeOK, outward, Total
<1>8. InHandIsPassed'
  BY <1>6 DEF InHandIsPassed
<1> QED
  BY <1>5, <1>6, <1>7, <1>8 DEF RelayIInv

LEMMA ReadEndsKeepsIInv == RelayIInv /\ ReadEnds => RelayIInv'
<1> SUFFICES ASSUME RelayIInv, ReadEnds PROVE RelayIInv'
  OBVIOUS
<1>1. UNCHANGED <<request, answer, outward, target, inward>> /\ wire = 0 /\ at = "read"
  BY DEF ReadEnds
<1>2. received \in Nat /\ sent \in Nat /\ received <= sent
  BY <1>1, AnswerFacts DEF RelayIInv, RelayTypeOK
<1>3. /\ at' = "answered" /\ reply'.kind \in Kinds /\ reply'.body \in Nat
      /\ reply'.kind # "timeout" /\ WholeAnswers'
  <2>1. CASE target = "closed" /\ Parse(received)
    <3>1. received = sent
      BY <1>1, <1>2, <2>1 DEF RelayIInv, NoneLost
    <3> QED
      BY <1>1, <1>2, <2>1, <3>1, ParseIsWhole DEF RelayIInv, inward, Kinds
  <2>2. CASE AnswerWith("failed", 0)
    BY <2>2 DEF AnswerWith, Kinds, WholeAnswers
  <2> QED
    BY <2>1, <2>2 DEF ReadEnds
<1>4. RelayTypeOK'
  BY <1>1, <1>3 DEF RelayIInv, RelayTypeOK, outward, inward, Total
<1>5. Unanswered' /\ NotComplete' /\ InHandIsPassed'
  BY <1>3 DEF Unanswered, NotComplete, InHandIsPassed
<1>6. NoneLost'
  BY <1>1 DEF RelayIInv, NoneLost, inward
<1> QED
  BY <1>3, <1>4, <1>5, <1>6 DEF RelayIInv

\* The timeout finds an exchange whose answer is not complete: the relay leaves
\* off reading in the same step in which it becomes so.
LEMMA TimeoutKeepsIInv == RelayIInv /\ Timeout => RelayIInv'
<1> SUFFICES ASSUME RelayIInv, Timeout PROVE RelayIInv'
  OBVIOUS
<1>1. /\ UNCHANGED <<request, answer, outward, target, inward>>
      /\ at \in {"connect", "write", "read"}
      /\ at' = "answered" /\ reply' = [kind |-> "timeout", body |-> 0]
  BY DEF Timeout, TimerRuns, AnswerWith
<1>2. answer \in Answers /\ received \in Nat
  BY DEF RelayIInv, RelayTypeOK
<1>3. ~ IsComplete(received)
  <2>1. CASE at = "read"
    BY <2>1 DEF RelayIInv, NotComplete
  <2>2. CASE at # "read"
    BY <1>1, <1>2, <2>2, AnswerFacts DEF RelayIInv, NotComplete, IsComplete
  <2> QED
    BY <2>1, <2>2
<1>4. InHandIsPassed'
  <2> SUFFICES ASSUME answer.status = "final", answer.lengths # <<>>,
                      \A i \in DOMAIN answer.lengths :
                         /\ answer.lengths[i] # Unreadable
                         /\ received >= answer.head + answer.lengths[i]
               PROVE  FALSE
    BY <1>1 DEF InHandIsPassed, inward
  <2>1. 1 \in DOMAIN answer.lengths
    BY <1>2, AnswerFacts
  <2>2. received >= answer.head
    BY <1>2, <2>1, AnswerFacts
  <2>3. IsComplete(received)
    <3>1. received >= EndOfBody(answer.lengths[1])
      BY <1>2, <2>1, AnswerFacts, RelayAssumption DEF EndOfBody
    <3>2. \A j \in 1 .. 1 - 1 : FALSE
      OBVIOUS
    <3> QED
      BY <2>1, <2>2, <3>1, <3>2 DEF IsComplete
  <2> QED
    BY <1>3, <2>3
<1>5. RelayTypeOK'
  BY <1>1 DEF RelayIInv, RelayTypeOK, outward, inward, Total, Kinds
<1>6. Unanswered' /\ NotComplete' /\ WholeAnswers'
  BY <1>1 DEF Unanswered, NotComplete, WholeAnswers
<1>7. NoneLost'
  BY <1>1 DEF RelayIInv, NoneLost, inward
<1> QED
  BY <1>4, <1>5, <1>6, <1>7 DEF RelayIInv

\* The steps of the relay, and of its client, that touch no byte of the answer.
LEMMA OutwardKeepsIInv ==
    RelayIInv /\ (Refuse \/ Admit \/ Upload \/ Uploaded \/ ConnectTarget \/ Written \/ RequestFails \/ ClientHangsUp)
      => RelayIInv'
<1> SUFFICES ASSUME RelayIInv,
                    Refuse \/ Admit \/ Upload \/ Uploaded \/ ConnectTarget \/ Written \/ RequestFails
                      \/ ClientHangsUp
             PROVE  RelayIInv'
  OBVIOUS
<1>1. UNCHANGED <<request, answer, target, inward, inFlight>>
  BY DEF Refuse, Admit, Upload, Uploaded, ConnectTarget, Written, RequestFails, ClientHangsUp, outward
<1>2. /\ at \in {"arrived", "upload", "connect", "write", "read"}
      /\ \/ at' \in {"upload", "connect", "write", "gone"} /\ reply' = reply /\ at # "read"
         \/ at' = "read" /\ at = "write" /\ reply' = reply
         \/ at' = "gone" /\ reply' = reply
         \/ /\ at' = "answered" /\ reply'.kind \in Kinds \ {"answer", "timeout"}
            /\ reply'.body = 0
  BY DEF Refuse, Admit, Upload, Uploaded, ConnectTarget, Written, RequestFails, ClientHangsUp, AnswerWith,
     Kinds
<1>3. request.size \in Nat
  BY RelayAssumption DEF RelayIInv, RelayTypeOK, Request
<1>4. uploaded' \in 0 .. request.size /\ unsent' \in Nat
  BY <1>3 DEF RelayIInv, RelayTypeOK, Refuse, Admit, Upload, Uploaded, ConnectTarget, Written, RequestFails,
     ClientHangsUp, outward
<1>5. reply = NoReply
  BY <1>2 DEF RelayIInv, Unanswered
<1>6. RelayTypeOK'
  BY <1>1, <1>2, <1>4, <1>5 DEF RelayIInv, RelayTypeOK, inward, Total, NoReply
<1>7. NotComplete'
  <2>1. CASE at' = "read"
    <3>1. received' = 0 /\ answer' = answer /\ answer \in Answers
      BY <1>1, <1>2, <2>1 DEF RelayIInv, NotComplete, inward, RelayTypeOK
    <3> QED
      BY <2>1, <3>1, AnswerFacts DEF NotComplete, IsComplete
  <2>2. CASE at' # "read"
    BY <1>1, <1>2, <2>2 DEF RelayIInv, NotComplete, inward
  <2> QED
    BY <2>1, <2>2
<1>8. Unanswered' /\ WholeAnswers' /\ InHandIsPassed'
  BY <1>2, <1>5 DEF Unanswered, WholeAnswers, InHandIsPassed, NoReply
<1>9. NoneLost'
  BY <1>1 DEF RelayIInv, NoneLost, inward
<1> QED
  BY <1>6, <1>7, <1>8, <1>9 DEF RelayIInv

\* The steps that move bytes in the sockets, or end the target's side.
LEMMA SocketKeepsIInv ==
    RelayIInv /\ (WriteRequest \/ TargetReads \/ TargetCloses \/ \E n \in 1 .. SocketBytes : TargetSends(n))
      => RelayIInv'
<1> SUFFICES ASSUME RelayIInv,
                    WriteRequest \/ TargetReads \/ TargetCloses \/ \E n \in 1 .. SocketBytes : TargetSends(n)
             PROVE  RelayIInv'
  OBVIOUS
<1>1. /\ UNCHANGED <<at, request, answer, uploaded, received, reply>>
      /\ at \in {"write", "read"}
  BY DEF WriteRequest, TargetReads, TargetCloses, TargetSends, TargetConnected, outward, inward
<1>2. SocketBytes \in Nat /\ answer \in Answers /\ Total \in Nat /\ Total' = Total
  BY <1>1, RelayAssumption, AnswerFacts DEF RelayIInv, RelayTypeOK, Total
<1>3. /\ unsent' \in Nat /\ inFlight' \in 0 .. SocketBytes
      /\ target' \in {"open", "closed", "reset"}
      /\ sent' \in 0 .. Total /\ wire' \in 0 .. SocketBytes
      /\ received + wire' <= sent' /\ (target' # "reset" => received + wire' = sent')
  <2> USE <1>2 DEF RelayIInv, RelayTypeOK, NoneLost
  <2>1. CASE WriteRequest
    BY <2>1 DEF WriteRequest
  <2>2. CASE TargetReads
    BY <2>2 DEF TargetReads, inward
  <2>3. CASE TargetCloses
    BY <2>3 DEF TargetCloses, outward
  <2>4. ASSUME NEW n \in 1 .. SocketBytes, TargetSends(n)
        PROVE  /\ sent' \in 0 .. Total /\ wire' \in 0 .. SocketBytes
               /\ received + wire' <= sent' /\ (target' # "reset" => received + wire' = sent')
               /\ UNCHANGED <<outward, target>>
    BY <2>4 DEF TargetSends
  <2> QED
    BY <2>1, <2>2, <2>3, <2>4 DEF outward
<1>4. RelayTypeOK'
  BY <1>1, <1>2, <1>3 DEF RelayIInv, RelayTypeOK
<1>5. reply' = NoReply
  BY <1>1 DEF RelayIInv, Unanswered
<1>6. Unanswered' /\ WholeAnswers' /\ InHandIsPassed'
  BY <1>5 DEF Unanswered, WholeAnswers, InHandIsPassed, NoReply
<1>7. NotComplete'
  BY <1>1 DEF RelayIInv, NotComplete, IsComplete, EndOfBody
<1>8. NoneLost'
  BY <1>1, <1>3 DEF NoneLost
<1> QED
  BY <1>4, <1>6, <1>7, <1>8 DEF RelayIInv

LEMMA NextRelayIInv == RelayIInv /\ [RelayNext]_relayVars => RelayIInv'
<1> SUFFICES ASSUME RelayIInv, [RelayNext]_relayVars PROVE RelayIInv'
  OBVIOUS
<1>1. CASE RelayNext
  BY <1>1, ReadChunkKeepsIInv, ReadEndsKeepsIInv, TimeoutKeepsIInv, OutwardKeepsIInv, SocketKeepsIInv
     DEF RelayNext, Relay
<1>2. CASE UNCHANGED relayVars
  BY <1>2 DEF relayVars, outward, inward, RelayIInv, RelayTypeOK, Total, Unanswered, NotComplete, IsComplete, EndOfBody,
     NoneLost, WholeAnswers, InHandIsPassed
<1> QED
  BY <1>1, <1>2

LEMMA RelayInvariance == RelaySpec => []RelayIInv
BY InitRelayIInv, NextRelayIInv, PTL DEF RelaySpec

\* Every variable has its type; the sums on head and length never go below zero.
THEOREM RelayTypeCorrect == RelaySpec => []RelayTypeOK
<1>1. RelayIInv => RelayTypeOK
  BY DEF RelayIInv
<1> QED
  BY <1>1, RelayInvariance, PTL

\* Whatever the target announces, however its bytes are cut into reads and
\* wherever it stops, an answer that is passed on is whole.
THEOREM RelayPassesWholeAnswers == RelaySpec => []WholeAnswers
<1>1. RelayIInv => WholeAnswers
  BY DEF RelayIInv
<1> QED
  BY <1>1, RelayInvariance, PTL

\* A request that ends in the timeout has no whole answer in hand.
THEOREM RelayKeepsAnswersInHand == RelaySpec => []InHandIsPassed
<1>1. RelayIInv => InHandIsPassed
  BY DEF RelayIInv
<1> QED
  BY <1>1, RelayInvariance, PTL
=============================================================================
