------------------------- MODULE ManagedProcessProofs -------------------------
(***************************************************************************)
(* Proofs about ManagedProcess, for any number of control connections and  *)
(* permits: its type invariant, that at most Permits connections are being *)
(* served, and that a stop has a cause.                                    *)
(***************************************************************************)
EXTENDS ManagedProcess, FiniteSetTheorems, TLAPS

\* What the properties need besides themselves: the channel is only set for a
\* cause.
IInv ==
    /\ TypeOK
    /\ ControlBounded
    /\ StopHasCause
    /\ shutdown => ~ stdinOpen \/ \E c \in Conns : Asked(c)

LEMMA NoConnTyped == NoConn \in [at : States, msg : Message]
BY DEF NoConn, States, Message

-----------------------------------------------------------------------------
(* The type invariant in four parts, each proved by itself.                *)

Flags ==
    /\ stage \in Stages
    /\ parentAlive \in BOOLEAN /\ stdinOpen \in BOOLEAN /\ timer \in BOOLEAN
    /\ osSignal \in BOOLEAN /\ shutdown \in BOOLEAN
    /\ listening \in BOOLEAN
Counts ==
    /\ http \in 0 .. MaxHttp /\ sockets \in 0 .. MaxHttp /\ http + sockets <= MaxHttp
    /\ socketFails \in Nat /\ acceptFails \in Nat
ConnsOK == conns \in [Conns -> [at : States, msg : Message]]
Ended == stage = "exited" => ~ listening /\ http = 0 /\ sockets = 0

LEMMA TypeParts == TypeOK <=> Flags /\ Counts /\ ConnsOK /\ Ended
BY DEF TypeOK, Flags, Counts, ConnsOK, Ended

\* What connections of the HTTP server do is not seen elsewhere.
LEMMA HttpMoves ==
    ASSUME TypeOK, HttpChanges
    PROVE  /\ UNCHANGED <<stage, parent, osSignal, shutdown, listening, conns, timer, socketFails,
                         acceptFails>>
           /\ Counts' /\ Ended'
<1>1. HttpStep
  BY DEF HttpChanges, HttpOpens, HttpCloses, HttpUpgrades, SocketCloses
<1>2. Counts'
  BY <1>1, TypeParts, ManagedAssumption
     DEF HttpChanges, HttpOpens, HttpCloses, HttpUpgrades, SocketCloses, HttpStep, Counts
<1>3. Ended'
  BY <1>1, TypeParts
     DEF HttpChanges, HttpOpens, HttpCloses, HttpUpgrades, SocketCloses, HttpStep, Counts, Ended
<1> QED
  BY <1>1, <1>2, <1>3 DEF HttpStep

LEMMA InitIInv == Init => IInv
<1> SUFFICES ASSUME Init PROVE IInv
  OBVIOUS
<1> USE DEF Init
<1>1. TypeOK
  <2>1. Flags
    BY DEF Flags, Stages
  <2>2. Counts
    BY ManagedAssumption DEF Counts
  <2>3. ConnsOK /\ Ended
    BY NoConnTyped DEF ConnsOK, Ended
  <2> QED
    BY <2>1, <2>2, <2>3, TypeParts
<1>2. Handled = {}
  BY DEF Handled, NoConn
<1>3. ControlBounded
  BY <1>2, FS_EmptySet, ManagedAssumption DEF ControlBounded
<1> QED
  BY <1>1, <1>3 DEF IInv, StopHasCause

\* Steps that leave the control connections, the channel and the causes of a
\* stop alone: the startup, and the end.
LEMMA SameConns ==
    ASSUME UNCHANGED conns
    PROVE  /\ Handled' = Handled
           /\ \A c \in Conns : Asked(c)' = Asked(c)
BY DEF Handled, Asked

LEMMA FlagsStep == TypeOK /\ [Next]_vars => Flags'
<1> SUFFICES ASSUME TypeOK, Flags, [Next]_vars PROVE Flags'
  BY TypeParts
<1> USE DEF Flags
<1>1. CASE Startup
  BY <1>1 DEF server, Startup, Bootstrap, Load, Bind, Announce, Serve, Keep, Exit, parent, Stages
<1>2. CASE BeginStop \/ Drained \/ TimerFires \/ OsSignal
  BY <1>2 DEF server, BeginStop, Drained, TimerFires, OsSignal, Keep, Exit, parent, Stages
<1>3. CASE ParentLeaves \/ StdinEnds \/ AcceptFails
  BY <1>3 DEF server, ParentLeaves, StdinEnds, AcceptFails, parent
<1>4. ASSUME NEW c \in Conns,
             \/ \E m \in Messages : Dial(c, m)
             \/ Accept(c) \/ Refuse(c) \/ Answer(c) \/ Deadline(c)
      PROVE  Flags'
  <2>1. UNCHANGED <<stage, parent, osSignal, listening, timer>>
    BY <1>4 DEF server, Dial, Accept, Refuse, Answer, Deadline
  <2>2. shutdown' \in BOOLEAN
    BY <1>4 DEF server, Dial, Accept, Refuse, Answer, Deadline, AfterSend
  <2> QED
    BY <2>1, <2>2 DEF parent
<1>5. CASE UNCHANGED vars
  BY <1>5 DEF server, vars, parent
<1>6. CASE HttpChanges
  BY <1>6, HttpMoves DEF parent
<1> QED
  BY <1>1, <1>2, <1>3, <1>4, <1>5, <1>6 DEF Next

LEMMA CountsStep == TypeOK /\ [Next]_vars => Counts'
<1> SUFFICES ASSUME TypeOK, Counts, [Next]_vars PROVE Counts'
  BY TypeParts
<1> USE ManagedAssumption DEF Counts
<1>1. CASE Startup
  BY <1>1 DEF server, Startup, Bootstrap, Load, Bind, Announce, Serve, Keep, Exit
<1>2. CASE BeginStop \/ Drained \/ TimerFires \/ OsSignal
  BY <1>2 DEF server, BeginStop, Drained, TimerFires, OsSignal, Keep, Exit
<1>3. CASE ParentLeaves \/ StdinEnds \/ AcceptFails
  BY <1>3 DEF server, ParentLeaves, StdinEnds, AcceptFails
<1>4. ASSUME NEW c \in Conns,
             \/ \E m \in Messages : Dial(c, m)
             \/ Accept(c) \/ Refuse(c) \/ Answer(c) \/ Deadline(c)
      PROVE  Counts'
  BY <1>4 DEF server, Dial, Accept, Refuse, Answer, Deadline
<1>5. CASE UNCHANGED vars
  BY <1>5 DEF server, vars
<1>6. CASE HttpChanges
  BY <1>6, HttpMoves
<1> QED
  BY <1>1, <1>2, <1>3, <1>4, <1>5, <1>6 DEF Next

LEMMA EndedStep == TypeOK /\ [Next]_vars => Ended'
<1> SUFFICES ASSUME TypeOK, Counts, Ended, [Next]_vars PROVE Ended'
  BY TypeParts
<1> USE DEF Ended
<1>1. CASE Startup
  BY <1>1 DEF server, Startup, Bootstrap, Load, Bind, Announce, Serve, Keep, Exit
<1>2. CASE BeginStop \/ Drained \/ TimerFires \/ OsSignal
  BY <1>2 DEF server, BeginStop, Drained, TimerFires, OsSignal, Keep, Exit
<1>3. CASE ParentLeaves \/ StdinEnds \/ AcceptFails
  BY <1>3 DEF server, ParentLeaves, StdinEnds, AcceptFails, Counts
<1>4. ASSUME NEW c \in Conns,
             \/ \E m \in Messages : Dial(c, m)
             \/ Accept(c) \/ Refuse(c) \/ Answer(c) \/ Deadline(c)
      PROVE  Ended'
  BY <1>4 DEF server, Dial, Accept, Refuse, Answer, Deadline
<1>5. CASE UNCHANGED vars
  BY <1>5 DEF server, vars
<1>6. CASE HttpChanges
  BY <1>6, HttpMoves
<1> QED
  BY <1>1, <1>2, <1>3, <1>4, <1>5, <1>6 DEF Next

LEMMA ConnsStep == TypeOK /\ [Next]_vars => ConnsOK'
<1> SUFFICES ASSUME TypeOK, ConnsOK, [Next]_vars PROVE ConnsOK'
  BY TypeParts
<1> USE DEF ConnsOK
<1>1. CASE UNCHANGED conns
  BY <1>1
<1>2. ASSUME NEW c \in Conns, NEW m \in Messages, Dial(c, m) PROVE ConnsOK'
  <2>1. [at |-> "queued", msg |-> m] \in [at : States, msg : Message]
    BY ManagedAssumption DEF States
  <2> QED
    BY <1>2, <2>1 DEF server, Dial
<1>3. ASSUME NEW c \in Conns, Accept(c) \/ Refuse(c) \/ Answer(c) \/ Deadline(c) PROVE ConnsOK'
  BY <1>3, NoConnTyped DEF Accept, Refuse, Answer, Deadline, Hangup, States
<1>4. CASE AcceptFails
  BY <1>4, NoConnTyped DEF AcceptFails
<1> QED
  BY <1>1, <1>2, <1>3, <1>4, HttpMoves
     DEF server, Next, vars, Startup, Bootstrap, Load, Bind, Announce, Serve,
     BeginStop, Drained, TimerFires, ParentLeaves, StdinEnds, OsSignal

LEMMA TypeStep == TypeOK /\ [Next]_vars => TypeOK'
BY FlagsStep, CountsStep, EndedStep, ConnsStep DEF TypeOK, Flags, Counts, ConnsOK, Ended

\* A connection that has been answered stays answered.
LEMMA AskedStays ==
    ASSUME TypeOK, [Next]_vars, NEW c \in Conns, Asked(c)
    PROVE  Asked(c)'
<1>1. CASE Startup \/ BeginStop \/ Drained \/ TimerFires \/ HttpChanges
             \/ ParentLeaves \/ StdinEnds \/ OsSignal
  BY <1>1, SameConns, HttpMoves
     DEF server, Startup, Bootstrap, Load, Bind, Announce, Serve, BeginStop,
         Drained, TimerFires, ParentLeaves, StdinEnds, OsSignal
<1>2. ASSUME NEW d \in Conns, NEW m \in Messages, Dial(d, m) PROVE Asked(c)'
  BY <1>2 DEF server, Dial, Asked, TypeOK
<1>3. ASSUME NEW d \in Conns, Accept(d) \/ Refuse(d) \/ Answer(d) \/ Deadline(d) PROVE Asked(c)'
  BY <1>3 DEF Accept, Refuse, Answer, Deadline, Hangup, Asked, TypeOK
<1>4. CASE AcceptFails
  BY <1>4 DEF AcceptFails, Asked, TypeOK
<1>5. CASE UNCHANGED vars
  BY <1>5, SameConns DEF server, vars
<1> QED
  BY <1>1, <1>2, <1>3, <1>4, <1>5 DEF Next

\* The set of connections with a permit grows by at most the one accepted.
LEMMA BoundStep == TypeOK /\ ControlBounded /\ [Next]_vars => ControlBounded'
<1> SUFFICES ASSUME TypeOK, ControlBounded, [Next]_vars PROVE ControlBounded'
  OBVIOUS
<1> USE ManagedAssumption
<1>1. IsFiniteSet(Handled)
  BY FS_Subset DEF Handled
<1>2. Cardinality(Handled) \in Nat
  BY <1>1, FS_CardinalityType
<1>3. ASSUME Handled' \subseteq Handled PROVE ControlBounded'
  <2>1. IsFiniteSet(Handled') /\ Cardinality(Handled') \in Nat
          /\ Cardinality(Handled') <= Cardinality(Handled)
    BY <1>1, <1>3, FS_Subset, FS_CardinalityType
  <2> QED
    BY <1>2, <2>1 DEF ControlBounded
<1>4. CASE Startup \/ BeginStop \/ Drained \/ TimerFires \/ HttpChanges
             \/ ParentLeaves \/ StdinEnds \/ OsSignal
  BY <1>3, <1>4, SameConns, HttpMoves
     DEF server, Startup, Bootstrap, Load, Bind, Announce, Serve, BeginStop,
         Drained, TimerFires, ParentLeaves, StdinEnds, OsSignal
<1>5. ASSUME NEW c \in Conns, NEW m \in Messages, Dial(c, m) PROVE ControlBounded'
  BY <1>3, <1>5 DEF server, Dial, Handled, TypeOK
<1>6. ASSUME NEW c \in Conns, Accept(c) PROVE ControlBounded'
  <2>1. CASE ~ PermitFree
    BY <1>3, <1>6, <2>1 DEF Accept, Hangup, Handled, NoConn, TypeOK
  <2>2. CASE PermitFree
    <3>1. Handled' = Handled \cup {c}
      BY <1>6, <2>2 DEF Accept, Handled, TypeOK
    <3>2. Cardinality(Handled') <= Cardinality(Handled) + 1
      <4>1. Cardinality(Handled \cup {c}) \in {Cardinality(Handled), Cardinality(Handled) + 1}
        BY <1>1, FS_AddElement
      <4> QED
        BY <1>2, <3>1, <4>1
    <3>3. Cardinality(Handled') \in Nat
      BY <1>1, <3>1, FS_AddElement, FS_CardinalityType
    <3> QED
      BY <1>2, <2>2, <3>2, <3>3 DEF PermitFree, ControlBounded
  <2> QED
    BY <2>1, <2>2
<1>7. ASSUME NEW c \in Conns, Refuse(c) \/ Answer(c) \/ Deadline(c) PROVE ControlBounded'
  BY <1>3, <1>7 DEF Refuse, Answer, Deadline, Hangup, Handled, NoConn, TypeOK
<1>8. CASE AcceptFails
  BY <1>3, <1>8 DEF AcceptFails, Handled, NoConn, TypeOK
<1>9. CASE UNCHANGED vars
  BY <1>3, <1>9, SameConns DEF server, vars
<1> QED
  BY <1>4, <1>5, <1>6, <1>7, <1>8, <1>9 DEF Next

\* The channel is set by the thread on stdin, when stdin has ended, and by an
\* answered request; the server begins to stop for it or for a signal.
Cause == shutdown => ~ stdinOpen \/ \E c \in Conns : Asked(c)

LEMMA CauseStep ==
    ASSUME TypeOK, Cause, StopHasCause, [Next]_vars
    PROVE  Cause' /\ StopHasCause'
<1>1. (\E c \in Conns : Asked(c)) => (\E c \in Conns : Asked(c))'
  BY AskedStays
<1>2. (~ stdinOpen => ~ stdinOpen') /\ (osSignal => osSignal')
  BY HttpMoves
     DEF server, Next, vars, Startup, Bootstrap, Load, Bind, Announce, Serve, BeginStop,
     Drained, TimerFires, ParentLeaves, StdinEnds, OsSignal, Dial, Accept, Refuse, Answer,
     Deadline, AcceptFails, parent
<1>3. Cause'
  <2>1. ASSUME NEW c \in Conns, Answer(c), shutdown', ~ shutdown PROVE Asked(c)'
    BY <2>1 DEF Answer, AfterSend, Valid, Asked, TypeOK
  <2>2. CASE shutdown' => shutdown
    BY <1>1, <1>2, <2>2 DEF Cause
  <2>3. CASE ~ (shutdown' => shutdown)
    <3>1. StdinEnds \/ \E c \in Conns : Answer(c)
      BY <2>3, HttpMoves
         DEF server, Next, vars, Startup, Bootstrap, Load, Bind, Announce, Serve, BeginStop,
         Drained, TimerFires, ParentLeaves, OsSignal, Dial, Accept, Refuse, Deadline,
         AcceptFails
    <3> QED
      BY <2>1, <2>3, <3>1 DEF StdinEnds, Cause, parent
  <2> QED
    BY <2>2, <2>3
<1>4. StopHasCause'
  <2>1. CASE stage' = "stopping" /\ stage # "stopping"
    <3>1. BeginStop
      BY <2>1, HttpMoves
         DEF server, Next, vars, Startup, Bootstrap, Load, Bind, Announce, Serve, Drained,
         TimerFires, ParentLeaves, StdinEnds, OsSignal, Dial, Accept, Refuse, Answer,
         Deadline, AcceptFails, Keep, Exit
    <3>2. osSignal \/ ~ stdinOpen \/ \E c \in Conns : Asked(c)
      BY <3>1 DEF server, BeginStop, Cause
    <3> QED
      BY <1>1, <1>2, <3>2 DEF StopHasCause
  <2>2. CASE stage' = "stopping" => stage = "stopping"
    BY <1>1, <1>2, <2>2 DEF StopHasCause
  <2> QED
    BY <2>1, <2>2
<1> QED
  BY <1>3, <1>4

LEMMA NextIInv == IInv /\ [Next]_vars => IInv'
<1> SUFFICES ASSUME IInv, [Next]_vars PROVE IInv'
  OBVIOUS
<1>1. TypeOK' /\ ControlBounded'
  BY TypeStep, BoundStep DEF IInv
<1>2. Cause' /\ StopHasCause'
  BY CauseStep DEF IInv, Cause
<1> QED
  BY <1>1, <1>2 DEF IInv, Cause

LEMMA Invariance == Spec => []IInv
BY InitIInv, NextIInv, PTL DEF Spec

\* Every variable has its type at every step, for every bound.
THEOREM ProcessTypeCorrect == Spec => []TypeOK
<1>1. IInv => TypeOK
  BY DEF IInv
<1> QED
  BY <1>1, Invariance, PTL

\* At most Permits control connections are served at a time, however many dial.
THEOREM ProcessControlBounded == Spec => []ControlBounded
<1>1. IInv => ControlBounded
  BY DEF IInv
<1> QED
  BY <1>1, Invariance, PTL

\* The server stops for a signal, for the end of stdin, or for a signed request
\* that named this launch and was answered, and for nothing else.
THEOREM ProcessStopHasCause == Spec => []StopHasCause
<1>1. IInv => StopHasCause
  BY DEF IInv
<1> QED
  BY <1>1, Invariance, PTL
=============================================================================
