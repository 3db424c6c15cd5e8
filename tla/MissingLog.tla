----------------------------- MODULE MissingLog ------------------------------
(***************************************************************************)
(* src/client.rs, log_missing(): what the server remembers of the paths it *)
(* did not find.  Under one mutex are the paths seen, a ring of the latest *)
(* and the time of the last alert; after the mutex each task appends a     *)
(* line to a file, in two writes: writeln! hands its pieces to the file    *)
(* one by one, and nothing buffers them.                                   *)
(*                                                                         *)
(* The messages are printed, and printing panics once the end of the pipe  *)
(* is closed, as it is when the process that started the server is gone.   *)
(* A panic with the mutex held poisons it for good.                        *)
(***************************************************************************)
EXTENDS Integers, Sequences, FiniteSets

CONSTANTS Paths,       \* the paths asked for that no layer has
          Tasks,       \* requests on the blocking pool at one time
          MaxTracked,  \* MAX_MISSING_TRACKED (code: 1000)
          SummarySize, \* MISSING_SUMMARY_SIZE (code: 50)
          AlertFrom,   \* entries it takes to alert (code: 10)
          Cooldown,    \* NOTIFICATION_COOLDOWN_SECS (code: 60)
          MaxTime      \* bound of the model on the clock

ASSUME SizesAssumption ==
    /\ MaxTracked \in Nat \ {0} /\ SummarySize \in Nat /\ AlertFrom \in Nat
    /\ Cooldown \in Nat /\ MaxTime \in Nat

Newline == "\n"
Never == -1
NoTask == [at |-> "idle", path |-> Newline]

ASSUME PathsAssumption == Newline \notin Paths

VARIABLES seen, entries, lastAlert,  \* the fields of Missing
          poisoned,  \* a task panicked with the mutex held
          tasks,     \* where each request is, and the path it misses
          log,       \* the file, as the pieces written to it
          now,       \* seconds
          output,    \* whether anyone holds the other end of stdout and stderr
          recorded,  \* history: the paths pushed to the ring, in order
          alerts,    \*   the times of the alerts
          cut        \*   and the paths whose line was not written whole

ring == <<seen, entries, lastAlert, poisoned, recorded, alerts>>
outside == <<now, output>>
vars == <<ring, tasks, log, outside, cut>>

Init ==
    /\ seen = {} /\ entries = <<>> /\ lastAlert = Never /\ poisoned = FALSE
    /\ tasks = [t \in Tasks |-> NoTask]
    /\ log = <<>> /\ now = 0 /\ output = "open"
    /\ recorded = <<>> /\ alerts = <<>> /\ cut = {}

Go(t, place) == tasks' = [tasks EXCEPT ![t].at = place]

\* No layer has the path.
Miss(t, p) ==
    /\ tasks[t].at \in {"idle", "answered"}
    /\ tasks' = [tasks EXCEPT ![t] = [at |-> "missed", path |-> p]]
    /\ UNCHANGED <<ring, log, outside, cut>>

-----------------------------------------------------------------------------
(* Under the mutex.                                                        *)

\* What is not recorded again.  The first forgets with the ring, the second
\* takes nothing more once the ring is full.
KnownInRing(p) == \E i \in DOMAIN entries : entries[i] = p
KnownOrFull(p) == p \in seen \/ Len(entries) >= MaxTracked
Known(p) == p \in seen

\* push_back, then pop_front over the limit.  The first pops the other end.
TrimmedNewest(es) == IF Len(es) > MaxTracked THEN SubSeq(es, 1, MaxTracked) ELSE es
Trimmed(es) == IF Len(es) > MaxTracked THEN Tail(es) ELSE es

\* Often enough, and long enough after the last.
AlertDue(n) == n >= AlertFrom /\ (lastAlert = Never \/ now - lastAlert >= Cooldown)

RecordKnown(t) ==
    /\ tasks[t].at = "missed" /\ ~ poisoned /\ Known(tasks[t].path)
    /\ Go(t, "answered")
    /\ UNCHANGED <<ring, log, outside, cut>>

Push(p) ==
    /\ seen' = seen \cup {p}
    /\ entries' = Trimmed(Append(entries, p))
    /\ recorded' = Append(recorded, p)

RecordQuietly(t) ==
    /\ tasks[t].at = "missed" /\ ~ poisoned /\ ~ Known(tasks[t].path)
    /\ Push(tasks[t].path) /\ ~ AlertDue(Len(entries'))
    /\ Go(t, "recorded")
    /\ UNCHANGED <<lastAlert, poisoned, alerts, log, outside, cut>>

\* The time is taken before the alert is printed, with the mutex held.
RecordAndAlert(t) ==
    /\ tasks[t].at = "missed" /\ ~ poisoned /\ ~ Known(tasks[t].path)
    /\ Push(tasks[t].path) /\ AlertDue(Len(entries'))
    /\ lastAlert' = now /\ alerts' = Append(alerts, now)
    /\ \/ output = "open" /\ Go(t, "recorded") /\ UNCHANGED <<poisoned, cut>>
       \/ /\ output = "closed" /\ Go(t, "answered")
          /\ poisoned' = TRUE /\ cut' = cut \cup {tasks[t].path}
    /\ UNCHANGED <<log, outside>>

\* lock().unwrap(); the request's own task takes the panic for a miss.
LockFails(t) ==
    /\ tasks[t].at = "missed" /\ poisoned
    /\ Go(t, "answered")
    /\ UNCHANGED <<ring, log, outside, cut>>

-----------------------------------------------------------------------------
(* append_missing_log, after the mutex.                                    *)

Open(t) ==
    /\ tasks[t].at = "recorded"
    /\ Go(t, "opened")
    /\ UNCHANGED <<ring, log, outside, cut>>

WriteLine(t) ==
    /\ tasks[t].at = "opened"
    /\ log' = Append(log, tasks[t].path)
    /\ Go(t, "written")
    /\ UNCHANGED <<ring, outside, cut>>

WriteNewline(t) ==
    /\ tasks[t].at = "written"
    /\ log' = Append(log, Newline)
    /\ Go(t, "answered")
    /\ UNCHANGED <<ring, outside, cut>>

\* debug! panics, unless it is switched off; the directory or the file cannot be
\* opened; a write fails, which is ignored.
Abandon(t) ==
    /\ tasks[t].at \in {"recorded", "opened", "written"}
    /\ cut' = cut \cup {tasks[t].path}
    /\ Go(t, "answered")
    /\ UNCHANGED <<ring, log, outside>>

-----------------------------------------------------------------------------

Tick ==
    /\ now < MaxTime
    /\ now' = now + 1
    /\ UNCHANGED <<ring, tasks, log, output, cut>>

OutputCloses ==
    /\ output = "open"
    /\ output' = "closed"
    /\ UNCHANGED <<ring, tasks, log, now, cut>>

Next ==
    \/ \E t \in Tasks :
          \/ \E p \in Paths : Miss(t, p)
          \/ RecordKnown(t) \/ RecordQuietly(t) \/ RecordAndAlert(t) \/ LockFails(t)
          \/ Open(t) \/ WriteLine(t) \/ WriteNewline(t) \/ Abandon(t)
    \/ Tick \/ OutputCloses

Spec == Init /\ [][Next]_vars

\* missing_summary, for /api/missing-files: skip(total.saturating_sub(..)).
Summary ==
    LET total == Len(entries)
        start == IF total > SummarySize THEN total - SummarySize ELSE 0
    IN  [total |-> total, files |-> SubSeq(entries, start + 1, total)]

-----------------------------------------------------------------------------
(* Properties.                                                             *)

Places == {"idle", "missed", "recorded", "opened", "written", "answered"}

\* Every variable has its type, and the ring is never over its limit when the
\* mutex is free.
TypeOK ==
    /\ seen \subseteq Paths /\ entries \in Seq(Paths) /\ Len(entries) <= MaxTracked
    /\ now \in 0 .. MaxTime /\ lastAlert \in {Never} \cup 0 .. now
    /\ poisoned \in BOOLEAN /\ output \in {"open", "closed"}
    /\ tasks \in [Tasks -> [at : Places, path : Paths \cup {Newline}]]
    /\ log \in Seq(Paths \cup {Newline}) /\ recorded \in Seq(Paths)
    /\ alerts \in Seq(0 .. MaxTime) /\ cut \subseteq Paths

Latest(s, n) == SubSeq(s, (IF Len(s) > n THEN Len(s) - n ELSE 0) + 1, Len(s))

\* The ring and the summary show the latest misses in the order they were
\* recorded, none of them twice, also long after the ring has begun to forget.
SummaryIsLatest ==
    /\ entries = Latest(recorded, MaxTracked)
    /\ Summary.files = Latest(recorded, IF SummarySize < MaxTracked THEN SummarySize ELSE MaxTracked)
    /\ \A i, j \in DOMAIN recorded : recorded[i] = recorded[j] => i = j

\* However many requests miss a path at once, and however often it is asked for,
\* the file has one entry for it, which is there as soon as no task is on its way
\* to write it, unless the write was cut short.
OnItsWay(p) == \E t \in Tasks : tasks[t].at \in {"recorded", "opened"} /\ tasks[t].path = p
LinesOf(p) == {i \in DOMAIN log : log[i] = p}
EachLoggedOnce ==
    \A p \in Paths :
       /\ Cardinality(LinesOf(p)) <= 1
       /\ LinesOf(p) # {} => p \in seen
       /\ p \in seen /\ ~ OnItsWay(p) /\ p \notin cut => LinesOf(p) # {}

\* A request that was answered 404 has left its path on record, for as long as
\* someone reads the server's output; and no alert silences the record before.
MissesAreCounted ==
    /\ \A t \in Tasks : tasks[t].at = "answered" => tasks[t].path \in seen \/ poisoned
    /\ poisoned => output = "closed" /\ Len(recorded) >= AlertFrom

\* Alerts are at least the cooldown apart, whichever requests raise them.
AlertsSpaced ==
    \A i, j \in DOMAIN alerts : i < j => alerts[j] - alerts[i] >= Cooldown

\* The file is lines of one entry each: it "is consumed as JSON lines by whatever
\* was reading the reference's output" (src/src/util.rs:102-103).
LogIsLines ==
    \A i \in 2 .. Len(log) : (log[i] = Newline) # (log[i - 1] = Newline)
=============================================================================
