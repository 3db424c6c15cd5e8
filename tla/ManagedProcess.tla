---------------------------- MODULE ManagedProcess ----------------------------
(***************************************************************************)
(* src/main.rs and src/managed.rs: the life of the server process, started *)
(* and owned by a parent (--managed).  What ends it: an OS signal, the end *)
(* of the parent's pipe, or an authenticated request on the control        *)
(* socket.  Ending is graceful (requests being answered finish), bounded   *)
(* by a timer.  A connection that has been upgraded to a WebSocket is no   *)
(* longer the HTTP server's: the graceful end does not wait for it, and    *)
(* the exit of the process cuts it off.                                    *)
(*                                                                         *)
(* The startup code is one sequence; beside it run the accept loop of the  *)
(* control socket, a task per control connection, a thread that waits for  *)
(* the end of stdin, and, once ending, the timer.  They share the watch    *)
(* channel `shutdown` and the permits of a semaphore.                      *)
(*                                                                         *)
(* A control message is abstracted to what the checks of control() tell    *)
(* apart: the signature, the launch it names, and its action.              *)
(***************************************************************************)
EXTENDS Integers, FiniteSets

CONSTANTS Conns,           \* control connections
          Messages,        \* what may be sent on them
          Permits,         \* the semaphore (code: 8)
          MaxHttp,         \* bounds of the model on open connections,
          MaxSocketFails,  \*   on replies whose socket cannot be shut down
          MaxAcceptFails   \*   and on errors of accept

\* A message: whether its end of line comes within the size limit, whether the
\* signature is good (FALSE stands for JSON, challenge and action that fail
\* their checks, too), the launch it names, and its action.
Message == [whole : BOOLEAN, signed : BOOLEAN, launch : {"this", "other"},
            action : {"status", "shutdown"}]

ASSUME ManagedAssumption ==
    /\ IsFiniteSet(Conns) /\ Permits \in Nat \ {0}
    /\ Messages \subseteq Message
    /\ MaxHttp \in Nat /\ MaxSocketFails \in Nat /\ MaxAcceptFails \in Nat

VARIABLES stage,        \* where run() is
          parentAlive,  \* the parent lives and reads the process's stdout
          stdinOpen,    \* the parent holds the other end of stdin
          osSignal,     \* ctrl-c or SIGTERM has reached a handler
          shutdown,     \* the watch channel's value
          listening,    \* the accept loop of the control socket runs
          conns,        \* control connection -> its state and message
          http,         \* open connections that speak HTTP
          sockets,      \* connections upgraded to WebSockets
          timer,        \* the five seconds of a shutdown are running
          socketFails, acceptFails

parent == <<parentAlive, stdinOpen>>
server == <<http, sockets>>
vars == <<stage, parent, osSignal, shutdown, listening, conns, server, timer, socketFails,
          acceptFails>>

Stages == {"bootstrap", "loading", "managed", "bound", "announced", "serving", "stopping",
           "exited"}
Up == {"managed", "bound", "announced", "serving", "stopping"}

States == {"none", "queued", "handled", "answered"}
NoConn == [at |-> "none", msg |-> [whole |-> FALSE, signed |-> FALSE, launch |-> "other",
                                   action |-> "status"]]

Handled == {c \in Conns : conns[c].at = "handled"}

Init ==
    /\ stage = "bootstrap"
    /\ parentAlive = TRUE /\ stdinOpen = TRUE /\ osSignal = FALSE
    /\ shutdown = FALSE /\ listening = FALSE
    /\ conns = [c \in Conns |-> NoConn]
    /\ http = 0 /\ sockets = 0 /\ timer = FALSE
    /\ socketFails = 0 /\ acceptFails = 0

-----------------------------------------------------------------------------
(* run().                                                                  *)

\* The process ends in whatever state its tasks are: process::exit, or the
\* default action of a signal.
Exit ==
    /\ stage' = "exited"
    /\ listening' = FALSE
    /\ http' = 0 /\ sockets' = 0

Keep(s) == stage' = s /\ UNCHANGED <<listening, server>>

\* The first line of stdin, and the checks on it.
Bootstrap ==
    /\ stage = "bootstrap"
    /\ Keep("loading") \/ Exit
    /\ UNCHANGED <<parent, osSignal, shutdown, conns, timer, socketFails, acceptFails>>

\* Validation, the archives and the index; then Managed::start, which binds
\* the control socket and starts its loop, and the thread on stdin.
Load ==
    /\ stage = "loading"
    /\ \/ stage' = "managed" /\ listening' = TRUE /\ UNCHANGED server
       \/ Exit
    /\ UNCHANGED <<parent, osSignal, shutdown, conns, timer, socketFails, acceptFails>>

Bind ==
    /\ stage = "managed"
    /\ Keep("bound") \/ Exit
    /\ UNCHANGED <<parent, osSignal, shutdown, conns, timer, socketFails, acceptFails>>

\* The ready line on stdout.  println! panics when nobody is left to read it,
\* and a panic of run() ends the process.
Announce ==
    /\ stage = "bound"
    /\ IF parentAlive THEN Keep("announced") ELSE Exit
    /\ UNCHANGED <<parent, osSignal, shutdown, conns, timer, socketFails, acceptFails>>

\* The banner, printed too, and axum::serve, whose shutdown future installs the
\* signal handlers.
Serve ==
    /\ stage = "announced"
    /\ IF parentAlive THEN Keep("serving") ELSE Exit
    /\ UNCHANGED <<parent, osSignal, shutdown, conns, timer, socketFails, acceptFails>>

\* The shutdown future ends, and the server takes no more connections.
\* Managed::stopped looks at the value before it waits for a change of it, so a
\* stop that came first is not missed.  "Shutting down." is printed before the
\* timer is started: a panic there ends the future all the same, but with no
\* timer.
BeginStop ==
    /\ stage = "serving"
    /\ osSignal \/ shutdown
    /\ Keep("stopping")
    /\ timer' = parentAlive
    /\ UNCHANGED <<parent, osSignal, shutdown, conns, socketFails, acceptFails>>

\* When the connections that still speak HTTP have finished the server is done.
\* The upgraded ones are not its own any more.
Drained ==
    /\ stage = "stopping" /\ http = 0
    /\ Exit
    /\ UNCHANGED <<parent, osSignal, shutdown, conns, timer, socketFails, acceptFails>>

\* The timer runs from the start of the shutdown; the first starts it when the
\* connections have finished.
RunsAfterDrain == timer /\ http = 0
TimerRuns == timer

TimerFires ==
    /\ stage = "stopping" /\ TimerRuns
    /\ Exit
    /\ UNCHANGED <<parent, osSignal, shutdown, conns, timer, socketFails, acceptFails>>

HttpStep == UNCHANGED <<stage, parent, osSignal, shutdown, listening, conns, timer, socketFails,
                        acceptFails>>

HttpOpens ==
    /\ stage = "serving" /\ http + sockets < MaxHttp
    /\ http' = http + 1
    /\ UNCHANGED sockets
    /\ HttpStep

HttpCloses ==
    /\ http > 0
    /\ http' = http - 1
    /\ UNCHANGED sockets
    /\ HttpStep

\* A request for one of the proxied WebSockets, also one that was being answered
\* when the shutdown began.
HttpUpgrades ==
    /\ http > 0
    /\ http' = http - 1 /\ sockets' = sockets + 1
    /\ HttpStep

SocketCloses ==
    /\ sockets > 0
    /\ sockets' = sockets - 1
    /\ UNCHANGED http
    /\ HttpStep

HttpChanges == HttpOpens \/ HttpCloses \/ HttpUpgrades \/ SocketCloses

-----------------------------------------------------------------------------
(* The parent, the OS, and the thread that waits for the end of stdin.     *)

\* It lets go of stdin, or it dies and with it go stdin and stdout.
ParentLeaves ==
    /\ parentAlive /\ stage # "exited"
    /\ stdinOpen' = FALSE
    /\ parentAlive' \in BOOLEAN
    /\ UNCHANGED <<stage, osSignal, shutdown, listening, conns, server, timer,
                   socketFails, acceptFails>>

\* The end of stdin sets the channel.
StdinEnds ==
    /\ stage \in Up /\ ~ stdinOpen /\ ~ shutdown
    /\ shutdown' = TRUE
    /\ UNCHANGED <<stage, parent, osSignal, listening, conns, server, timer,
                   socketFails, acceptFails>>

\* Before there is a handler a signal kills.
OsSignal ==
    /\ stage # "exited" /\ ~ osSignal
    /\ osSignal' = TRUE
    /\ IF stage \in {"serving", "stopping"} THEN Keep(stage) ELSE Exit
    /\ UNCHANGED <<parent, shutdown, conns, timer, socketFails, acceptFails>>

-----------------------------------------------------------------------------
(* The control socket.                                                     *)

Hangup(c) == conns' = [conns EXCEPT ![c] = NoConn]

Dial(c, m) ==
    /\ listening /\ conns[c].at = "none"
    /\ conns' = [conns EXCEPT ![c] = [at |-> "queued", msg |-> m]]
    /\ UNCHANGED <<stage, parent, osSignal, shutdown, listening, server, timer,
                   socketFails, acceptFails>>

\* try_acquire_owned; a connection without a permit is dropped.
PermitFree == Cardinality(Handled) < Permits

Accept(c) ==
    /\ listening /\ conns[c].at = "queued"
    /\ IF PermitFree THEN conns' = [conns EXCEPT ![c].at = "handled"] ELSE Hangup(c)
    /\ UNCHANGED <<stage, parent, osSignal, shutdown, listening, server, timer,
                   socketFails, acceptFails>>

\* An error of accept ends the loop, and with it the listener.
AcceptFails ==
    /\ listening /\ acceptFails < MaxAcceptFails
    /\ acceptFails' = acceptFails + 1
    /\ listening' = FALSE
    /\ conns' = [c \in Conns |->
                   IF conns[c].at = "queued" THEN NoConn ELSE conns[c]]
    /\ UNCHANGED <<stage, parent, osSignal, shutdown, server, timer, socketFails>>

\* The checks of control(); the first forgets which launch is meant.
AnyLaunch(m) == m.whole /\ m.signed
Valid(m) == m.whole /\ m.signed /\ m.launch = "this"

\* A whole message that fails a check gets no response.
Refuse(c) ==
    /\ stage # "exited" /\ conns[c].at = "handled"
    /\ conns[c].msg.whole /\ ~ Valid(conns[c].msg)
    /\ Hangup(c)
    /\ UNCHANGED <<stage, parent, osSignal, shutdown, listening, server, timer,
                   socketFails, acceptFails>>

\* The channel after a send of `stop`; the receiver was made with the channel,
\* so a send before anyone waits counts.  In the first it does not.
AfterHeardSend(stop) == shutdown \/ (stop /\ stage = "serving")
AfterSend(stop) == shutdown \/ stop

\* The reply is written, the socket shut down, and then, for a shutdown, the
\* channel set: no wait between them, so the deadline cannot fall there.
Answer(c) ==
    /\ stage # "exited" /\ conns[c].at = "handled" /\ Valid(conns[c].msg)
    /\ conns' = [conns EXCEPT ![c].at = "answered"]
    /\ \/ /\ shutdown' = AfterSend(conns[c].msg.action = "shutdown")
          /\ UNCHANGED socketFails
       \/ /\ socketFails < MaxSocketFails
          /\ socketFails' = socketFails + 1
          /\ UNCHANGED shutdown
    /\ UNCHANGED <<stage, parent, osSignal, listening, server, timer, acceptFails>>

\* The two seconds run from the accept; the first starts them when there is a
\* whole message.
RunsOnceRead(c) == conns[c].msg.whole
DeadlineRuns(c) == conns[c].at = "handled"

\* The peer goes away, or the two seconds of a connection are over.
Deadline(c) ==
    /\ stage # "exited" /\ conns[c].at = "handled" /\ DeadlineRuns(c)
    /\ Hangup(c)
    /\ UNCHANGED <<stage, parent, osSignal, shutdown, listening, server, timer,
                   socketFails, acceptFails>>

Startup == Bootstrap \/ Load \/ Bind \/ Announce \/ Serve

Next ==
    \/ Startup \/ BeginStop \/ Drained \/ TimerFires
    \/ HttpChanges \/ ParentLeaves \/ StdinEnds \/ OsSignal
    \/ \E c \in Conns, m \in Messages : Dial(c, m)
    \/ \E c \in Conns : Accept(c) \/ Refuse(c) \/ Answer(c) \/ Deadline(c)
    \/ AcceptFails

Spec == Init /\ [][Next]_vars

\* tokio and the OS run what can run, and the timers fire.  Nothing is assumed
\* of the control clients, the HTTP peers or the parent, which may never send
\* its line.
Fairness ==
    /\ WF_vars(Startup /\ (stage = "bootstrap" => ~ stdinOpen))
    /\ WF_vars(BeginStop) /\ WF_vars(Drained) /\ WF_vars(TimerFires) /\ WF_vars(StdinEnds)
    /\ \A c \in Conns : WF_vars(Accept(c)) /\ WF_vars(Refuse(c) \/ Answer(c) \/ Deadline(c))

FairSpec == Spec /\ Fairness

-----------------------------------------------------------------------------
(* Properties.                                                             *)

\* Every variable has its type, and a process that has exited serves nothing.
TypeOK ==
    /\ stage \in Stages
    /\ parentAlive \in BOOLEAN /\ stdinOpen \in BOOLEAN /\ timer \in BOOLEAN
    /\ osSignal \in BOOLEAN /\ shutdown \in BOOLEAN
    /\ listening \in BOOLEAN
    /\ conns \in [Conns -> [at : States, msg : Message]]
    /\ http \in 0 .. MaxHttp /\ sockets \in 0 .. MaxHttp /\ http + sockets <= MaxHttp
    /\ socketFails \in Nat /\ acceptFails \in Nat
    /\ stage = "exited" => ~ listening /\ http = 0 /\ sockets = 0

\* A serving process stops only for a cause: a signal, the end of its parent,
\* or a request that was signed, meant this launch and was answered.
\* ("Unauthenticated or stale-launch messages get no response and cannot
\* trigger shutdown.")
Asked(c) ==
    /\ conns[c].at = "answered"
    /\ conns[c].msg.signed /\ conns[c].msg.launch = "this" /\ conns[c].msg.action = "shutdown"
StopHasCause ==
    stage = "stopping" => osSignal \/ ~ stdinOpen \/ \E c \in Conns : Asked(c)

\* Whatever peers do, at most this many control connections are being served
\* ("eight simultaneous control clients").
ControlBounded == Cardinality(Handled) <= Permits

\* A parent that stays and has the answer to its shutdown request sees the
\* process stop, even when connections of either kind stay open for good.  The one
\* way out is control()'s `?` on the socket's shutdown, between the answer and the
\* stop.
AnsweredStops ==
    [] (parentAlive /\ socketFails = 0) => \A c \in Conns : Asked(c) ~> stage = "exited"

\* The end of stdin, at whatever stage of the startup, ends the process: under a
\* parent that goes on reading the output even when connections of either kind stay
\* open for good, and once the parent has died, whatever a closed stdout breaks, at
\* the latest when those that speak HTTP are gone: WebSockets that stay do not hold
\* it.
StdinStops ==
    [] parentAlive \/ <>[](http = 0) => (~ stdinOpen \/ ~ parentAlive ~> stage = "exited")

\* "EOF requests shutdown after a parent crash. Shutdown is bounded to five
\* seconds even if a WebSocket client stays connected."
OrphanStops == ~ parentAlive ~> stage = "exited"

\* A control connection that says nothing does not keep its permit, so the
\* control socket cannot be used up for good.
PermitsReturn == \A c \in Conns : c \in Handled ~> (c \notin Handled \/ stage = "exited")
=============================================================================
