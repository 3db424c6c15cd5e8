--------------------------- MODULE MissingLogProofs ---------------------------
(***************************************************************************)
(* Proofs about MissingLog, for any paths, tasks and limits: its type      *)
(* invariant, what the ring and the file hold, and when alerts are raised. *)
(***************************************************************************)
EXTENDS MissingLog, FiniteSetTheorems, SequenceTheorems, TLAPS

\* What appending does, as the steps below use it.
LEMMA Appended ==
    ASSUME NEW S, NEW s \in Seq(S), NEW e \in S
    PROVE  /\ Append(s, e) \in Seq(S) /\ Len(s) \in Nat /\ Len(Append(s, e)) = Len(s) + 1
           /\ \A i \in 1 .. Len(s) : Append(s, e)[i] = s[i]
           /\ Append(s, e)[Len(s) + 1] = e
           /\ \A i \in 1 .. Len(s) + 1 : i \in 1 .. Len(s) \/ i = Len(s) + 1
OBVIOUS

-----------------------------------------------------------------------------
(* The inductive invariant.                                                *)

\* Only a request that misses something has a place.
Underway == \A t \in Tasks : tasks[t].at # "idle" => tasks[t].path \in Paths

\* A task past the mutex has its path among the seen.
PastMutex == \A t \in Tasks :
    tasks[t].at \in {"recorded", "opened", "written"} => tasks[t].path \in seen

\* A path is recorded once, when it is first seen.
RecordedOnce ==
    /\ \A i, j \in 1 .. Len(recorded) : recorded[i] = recorded[j] => i = j
    /\ \A i \in 1 .. Len(recorded) : recorded[i] \in seen

\* The ring is the end of what was recorded.
RingIsEnd ==
    /\ Len(entries) = IF Len(recorded) > MaxTracked THEN MaxTracked ELSE Len(recorded)
    /\ \A i \in 1 .. Len(entries) :
          entries[i] = recorded[Len(recorded) - Len(entries) + i]

\* A task on its way to the file is the only one with its path, whose line is
\* not there yet; and no line is there twice.
Carries(t, p) == tasks[t].at \in {"recorded", "opened"} /\ tasks[t].path = p
LinesOnce ==
    /\ \A t \in Tasks, p \in Paths : Carries(t, p) => p \in seen
    /\ \A t, u \in Tasks, p \in Paths : Carries(t, p) /\ Carries(u, p) => t = u
    /\ \A t \in Tasks, p \in Paths : Carries(t, p) => \A i \in 1 .. Len(log) : log[i] # p
    /\ \A i \in 1 .. Len(log) : log[i] \in Paths => log[i] \in seen
    /\ \A i, j \in 1 .. Len(log) : log[i] \in Paths /\ log[i] = log[j] => i = j
    /\ \A p \in Paths :
          p \in seen /\ p \notin cut /\ (\A t \in Tasks : ~ Carries(t, p))
             => \E i \in 1 .. Len(log) : log[i] = p

\* The last alert is the latest.
LastIsLatest ==
    /\ lastAlert = Never => Len(alerts) = 0
    /\ \A i \in 1 .. Len(alerts) : alerts[i] <= lastAlert

IInv ==
    /\ TypeOK /\ Underway /\ PastMutex /\ RecordedOnce /\ RingIsEnd /\ LinesOnce
    /\ MissesAreCounted /\ LastIsLatest /\ AlertsSpaced

LEMMA TypeFacts ==
    ASSUME TypeOK
    PROVE  /\ entries \in Seq(Paths) /\ Len(entries) \in Nat
           /\ recorded \in Seq(Paths) /\ Len(recorded) \in Nat
           /\ log \in Seq(Paths \cup {Newline}) /\ Len(log) \in Nat
           /\ alerts \in Seq(0 .. MaxTime) /\ Len(alerts) \in Nat
           /\ now \in Nat /\ (lastAlert = Never \/ lastAlert \in Nat)
           /\ tasks \in [Tasks -> [at : Places, path : Paths \cup {Newline}]]
           /\ DOMAIN entries = 1 .. Len(entries) /\ DOMAIN recorded = 1 .. Len(recorded)
           /\ DOMAIN log = 1 .. Len(log) /\ DOMAIN alerts = 1 .. Len(alerts)
BY SizesAssumption DEF TypeOK

LEMMA InitIInv == Init => IInv
<1> SUFFICES ASSUME Init PROVE IInv
  OBVIOUS
<1>1. TypeOK
  <2>1. tasks \in [Tasks -> [at : Places, path : Paths \cup {Newline}]]
    BY DEF Init, NoTask, Places
  <2>2. /\ <<>> \in Seq(Paths) /\ <<>> \in Seq(Paths \cup {Newline})
        /\ <<>> \in Seq(0 .. MaxTime) /\ Len(<<>>) = 0
    OBVIOUS
  <2>3. /\ entries \in Seq(Paths) /\ Len(entries) <= MaxTracked /\ recorded \in Seq(Paths)
        /\ log \in Seq(Paths \cup {Newline}) /\ alerts \in Seq(0 .. MaxTime)
    BY <2>2, SizesAssumption DEF Init
  <2>4. /\ seen \subseteq Paths /\ cut \subseteq Paths /\ poisoned \in BOOLEAN
        /\ output \in {"open", "closed"}
    BY DEF Init
  <2>5. now \in 0 .. MaxTime /\ lastAlert \in {Never} \cup 0 .. now
    BY SizesAssumption DEF Init
  <2> QED
    BY <2>1, <2>3, <2>4, <2>5 DEF TypeOK
<1>2. Underway /\ PastMutex /\ MissesAreCounted
  BY DEF Init, Underway, PastMutex, MissesAreCounted, NoTask
<1>3. RecordedOnce /\ LastIsLatest /\ AlertsSpaced
  BY DEF Init, RecordedOnce, LastIsLatest, AlertsSpaced
<1>4. RingIsEnd
  BY SizesAssumption DEF Init, RingIsEnd
<1>5. LinesOnce
  BY DEF Init, LinesOnce, NoTask, Carries
<1> QED
  BY <1>1, <1>2, <1>3, <1>4, <1>5 DEF IInv

-----------------------------------------------------------------------------
(* Recording, under the mutex.                                             *)

\* A push records a new path at the end, and the ring follows.
LEMMA PushKeepsRing ==
    ASSUME TypeOK, RecordedOnce, RingIsEnd, NEW p \in Paths, p \notin seen, Push(p)
    PROVE  /\ RecordedOnce' /\ RingIsEnd'
           /\ entries' \in Seq(Paths) /\ Len(entries') \in Nat /\ Len(entries') <= MaxTracked
           /\ recorded' \in Seq(Paths) /\ Len(recorded') = Len(recorded) + 1
           /\ Len(entries') <= Len(recorded')
           /\ seen' = seen \cup {p}
<1> DEFINE es == Append(entries, p)
<1>1. /\ seen' = seen \cup {p} /\ entries' = Trimmed(es) /\ recorded' = Append(recorded, p)
  BY DEF Push
<1>2. /\ es \in Seq(Paths) /\ Len(es) = Len(entries) + 1
      /\ \A i \in 1 .. Len(entries) : es[i] = entries[i]
      /\ es[Len(entries) + 1] = p
      /\ \A i \in 1 .. Len(es) : i \in 1 .. Len(entries) \/ i = Len(entries) + 1
  BY TypeFacts, Appended
<1>3. /\ recorded' \in Seq(Paths) /\ Len(recorded') = Len(recorded) + 1
      /\ \A i \in 1 .. Len(recorded) : recorded'[i] = recorded[i]
      /\ recorded'[Len(recorded) + 1] = p
      /\ \A i \in 1 .. Len(recorded') : i \in 1 .. Len(recorded) \/ i = Len(recorded) + 1
  BY <1>1, TypeFacts, Appended
<1>4. RecordedOnce'
  BY <1>1, <1>3, TypeFacts DEF RecordedOnce
<1>5. \A i \in 1 .. Len(es) : es[i] = recorded'[Len(recorded') - Len(es) + i]
  <2>1. Len(entries) <= Len(recorded) /\ Len(entries) \in Nat /\ Len(recorded) \in Nat
    BY TypeFacts, SizesAssumption DEF RingIsEnd
  <2>2. Len(recorded') - Len(es) = Len(recorded) - Len(entries)
    BY <1>2, <1>3, <2>1
  <2>3. ASSUME NEW i \in 1 .. Len(entries)
        PROVE  es[i] = recorded'[Len(recorded') - Len(es) + i]
    <3>1. Len(recorded) - Len(entries) + i \in 1 .. Len(recorded)
      BY <2>1
    <3>2. entries[i] = recorded[Len(recorded) - Len(entries) + i]
      BY DEF RingIsEnd
    <3> QED
      BY <1>2, <1>3, <2>2, <3>1, <3>2
  <2>4. es[Len(es)] = recorded'[Len(recorded') - Len(es) + Len(es)]
    BY <1>2, <1>3, <2>1
  <2> QED
    BY <1>2, <2>3, <2>4
<1> HIDE DEF es
<1>6. CASE Len(es) > MaxTracked
  <2>1. /\ entries' \in Seq(Paths) /\ Len(entries') = Len(es) - 1
        /\ \A i \in 1 .. Len(entries') : entries'[i] = es[i + 1]
    BY <1>1, <1>2, <1>6, TypeFacts, SizesAssumption DEF Trimmed
  <2>2. Len(entries') = MaxTracked /\ Len(recorded') > MaxTracked
    <3>1. Len(entries) = MaxTracked /\ Len(recorded) >= MaxTracked
      BY <1>2, <1>6, TypeFacts, SizesAssumption DEF RingIsEnd, TypeOK
    <3> QED
      BY <1>2, <1>3, <2>1, <3>1, TypeFacts, SizesAssumption
  <2>3. \A i \in 1 .. Len(entries') :
           /\ i + 1 \in 1 .. Len(es)
           /\ Len(recorded') - Len(es) + (i + 1) = Len(recorded') - Len(entries') + i
    BY <1>2, <1>3, <2>1, TypeFacts
  <2>4. RingIsEnd'
    BY <1>5, <2>1, <2>2, <2>3 DEF RingIsEnd
  <2> QED
    BY <1>1, <1>3, <1>4, <2>1, <2>2, <2>4, TypeFacts, SizesAssumption
<1>7. CASE ~ Len(es) > MaxTracked
  <2>1. entries' = es
    BY <1>1, <1>7 DEF Trimmed
  <2>2. Len(entries') = Len(recorded') /\ ~ Len(recorded') > MaxTracked
    BY <1>2, <1>3, <1>7, <2>1, TypeFacts, SizesAssumption DEF RingIsEnd
  <2>3. RingIsEnd'
    BY <1>5, <2>1, <2>2 DEF RingIsEnd
  <2> QED
    BY <1>1, <1>2, <1>3, <1>4, <1>7, <2>1, <2>2, <2>3, TypeFacts, SizesAssumption
<1> QED
  BY <1>6, <1>7, <1>2, TypeFacts, SizesAssumption

\* What moving one task does to all.
LEMMA Moved ==
    ASSUME TypeOK, NEW t \in Tasks, NEW place \in Places, Go(t, place)
    PROVE  /\ tasks' \in [Tasks -> [at : Places, path : Paths \cup {Newline}]]
           /\ tasks'[t].at = place /\ tasks'[t].path = tasks[t].path
           /\ \A u \in Tasks : u # t => tasks'[u] = tasks[u]
BY TypeFacts DEF Go

\* The part of the invariant that only looks at the tasks' progress.
LEMMA GoKeepsUnderway ==
    ASSUME TypeOK, Underway, NEW t \in Tasks, tasks[t].at # "idle",
           NEW place \in Places, Go(t, place)
    PROVE  Underway' /\ tasks[t].path \in Paths /\ tasks'[t].path \in Paths
BY Moved DEF Underway

\* A new path: nothing is said of it yet, and its task is on its way with it.
LEMMA RecordKeepsIInv ==
    ASSUME IInv, NEW t \in Tasks, RecordQuietly(t) \/ RecordAndAlert(t)
    PROVE  IInv'
<1> DEFINE p == tasks[t].path
<1>0. TypeOK /\ Underway /\ PastMutex /\ RecordedOnce /\ RingIsEnd /\ LinesOnce /\ MissesAreCounted
      /\ LastIsLatest /\ AlertsSpaced
  BY DEF IInv
<1>1. /\ tasks[t].at = "missed" /\ ~ poisoned /\ p \notin seen /\ Push(p)
      /\ UNCHANGED <<log, now, output>>
      /\ Go(t, "recorded") \/ Go(t, "answered")
  BY DEF RecordQuietly, RecordAndAlert, Known, outside
<1>2. p \in Paths
  BY <1>1, <1>0 DEF Underway
<1>3. /\ RecordedOnce' /\ RingIsEnd'
      /\ entries' \in Seq(Paths) /\ Len(entries') \in Nat /\ Len(entries') <= MaxTracked
      /\ recorded' \in Seq(Paths) /\ Len(recorded') = Len(recorded) + 1
      /\ Len(entries') <= Len(recorded')
      /\ seen' = seen \cup {p}
  BY <1>0, <1>1, <1>2, PushKeepsRing
<1>4. PICK place \in {"recorded", "answered"} : Go(t, place)
  BY <1>1
<1>5. /\ tasks' \in [Tasks -> [at : Places, path : Paths \cup {Newline}]]
      /\ tasks'[t].at = place /\ tasks'[t].path = p
      /\ \A u \in Tasks : u # t => tasks'[u] = tasks[u]
  BY <1>0, <1>4, Moved DEF Places
<1> HIDE DEF p
<1>6. /\ place = "answered" => cut' = cut \cup {p} /\ poisoned' = TRUE /\ output = "closed"
      /\ place = "recorded" => cut' = cut /\ poisoned' = FALSE
  <2>1. Go(t, "recorded") \/ Go(t, "answered")
    BY <1>1
  <2>2. Go(t, "recorded") => place = "recorded"
    BY <1>0, <1>4, <1>5, TypeFacts DEF Go
  <2>3. Go(t, "answered") => place = "answered"
    BY <1>0, <1>4, <1>5, TypeFacts DEF Go
  <2> QED
    BY <1>1, <1>4, <2>1, <2>2, <2>3 DEF RecordQuietly, RecordAndAlert, p
<1>7. \/ UNCHANGED <<lastAlert, alerts>> /\ UNCHANGED poisoned
      \/ AlertDue(Len(entries')) /\ lastAlert' = now /\ alerts' = Append(alerts, now)
  BY <1>1 DEF RecordQuietly, RecordAndAlert
<1>9. alerts' \in Seq(0 .. MaxTime) /\ LastIsLatest' /\ AlertsSpaced' /\ lastAlert' \in {Never} \cup 0 .. now
  <2>1. now \in 0 .. MaxTime /\ now \in Nat /\ alerts \in Seq(0 .. MaxTime) /\ lastAlert \in {Never} \cup 0 .. now
        /\ DOMAIN alerts = 1 .. Len(alerts) /\ Cooldown \in Nat
        /\ \A i \in 1 .. Len(alerts) : alerts[i] \in Nat
    BY <1>0, TypeFacts, SizesAssumption DEF TypeOK
  <2>2. CASE UNCHANGED <<lastAlert, alerts>>
    BY <1>0, <2>1, <2>2 DEF LastIsLatest, AlertsSpaced
  <2>3. CASE AlertDue(Len(entries')) /\ lastAlert' = now /\ alerts' = Append(alerts, now)
    <3>1. /\ alerts' \in Seq(0 .. MaxTime) /\ Len(alerts') = Len(alerts) + 1 /\ Len(alerts) \in Nat
          /\ \A i \in 1 .. Len(alerts) : alerts'[i] = alerts[i]
          /\ alerts'[Len(alerts) + 1] = now
          /\ \A i \in 1 .. Len(alerts') : i \in 1 .. Len(alerts) \/ i = Len(alerts) + 1
          /\ DOMAIN alerts' = 1 .. Len(alerts')
      BY <2>1, <2>3, Appended
    <3>2. \A i \in 1 .. Len(alerts) : alerts[i] <= now /\ now - alerts[i] >= Cooldown
      BY <1>0, <2>1, <2>3 DEF AlertDue, LastIsLatest, Never
    <3>3. LastIsLatest'
      BY <2>1, <2>3, <3>1, <3>2 DEF LastIsLatest, Never
    <3>4. AlertsSpaced'
      BY <1>0, <2>1, <3>1, <3>2 DEF AlertsSpaced
    <3> QED
      BY <2>1, <2>3, <3>1, <3>3, <3>4
  <2> QED
    BY <1>7, <2>2, <2>3
<1>10. TypeOK'
  <2>1. seen' \subseteq Paths /\ cut' \subseteq Paths /\ poisoned' \in BOOLEAN
    BY <1>0, <1>2, <1>3, <1>4, <1>6 DEF TypeOK
  <2> QED
    BY <1>0, <1>1, <1>3, <1>5, <1>9, <2>1 DEF TypeOK
<1>11. Underway' /\ PastMutex'
  BY <1>0, <1>2, <1>3, <1>4, <1>5 DEF Underway, PastMutex
<1>12. LinesOnce'
  <2>1. \A q \in Paths : ~ Carries(t, q) /\ (Carries(t, q)' <=> place = "recorded" /\ q = p)
    BY <1>1, <1>4, <1>5 DEF Carries
  <2>2. \A u \in Tasks, q \in Paths : u # t => (Carries(u, q)' <=> Carries(u, q))
    BY <1>5 DEF Carries
  <2>3. \A u \in Tasks : ~ Carries(u, p)
    BY <1>0, <1>1, <1>2 DEF LinesOnce, p
  <2>4. \A i \in 1 .. Len(log) : log[i] # p
    BY <1>0, <1>1, <1>2 DEF LinesOnce, p
  <2>5. /\ \A u \in Tasks, q \in Paths : Carries(u, q)' => q \in seen'
        /\ \A u, v \in Tasks, q \in Paths : Carries(u, q)' /\ Carries(v, q)' => u = v
        /\ \A u \in Tasks, q \in Paths : Carries(u, q)' => \A i \in 1 .. Len(log) : log[i] # q
    BY <1>0, <1>3, <2>1, <2>2, <2>3, <2>4 DEF LinesOnce
  <2>6. \A q \in Paths :
           q \in seen' /\ q \notin cut' /\ (\A u \in Tasks : ~ Carries(u, q)')
              => \E i \in 1 .. Len(log) : log[i] = q
    BY <1>0, <1>3, <1>4, <1>6, <2>1, <2>2 DEF LinesOnce
  <2>7. /\ \A i \in 1 .. Len(log) : log[i] \in Paths => log[i] \in seen'
        /\ \A i, j \in 1 .. Len(log) : log[i] \in Paths /\ log[i] = log[j] => i = j
    BY <1>0, <1>3 DEF LinesOnce
  <2> QED
    BY <1>1, <2>5, <2>6, <2>7 DEF LinesOnce
<1>13. MissesAreCounted'
  <2>1. \A u \in Tasks : tasks'[u].at = "answered" => tasks'[u].path \in seen' \/ poisoned'
    BY <1>0, <1>1, <1>3, <1>4, <1>5, <1>6 DEF MissesAreCounted
  <2>2. ASSUME poisoned' PROVE output' = "closed" /\ Len(recorded') >= AlertFrom
    <3>1. place = "answered"
      BY <1>4, <1>6, <2>2
    <3>2. AlertDue(Len(entries'))
      BY <1>1, <1>6, <1>7, <3>1
    <3> QED
      BY <1>1, <1>3, <1>6, <3>1, <3>2, SizesAssumption, <1>0, TypeFacts DEF AlertDue
  <2> QED
    BY <2>1, <2>2 DEF MissesAreCounted
<1> QED
  BY <1>3, <1>9, <1>10, <1>11, <1>12, <1>13 DEF IInv

-----------------------------------------------------------------------------
(* The other steps.                                                        *)

\* A request comes in, or is answered without a change to the record.
LEMMA MissKeepsIInv ==
    ASSUME IInv, NEW t \in Tasks, NEW q \in Paths, Miss(t, q)
    PROVE  IInv'
<1>0. /\ TypeOK /\ Underway /\ PastMutex /\ RecordedOnce /\ RingIsEnd /\ LinesOnce /\ MissesAreCounted
      /\ LastIsLatest /\ AlertsSpaced
  BY DEF IInv
<1>1. /\ tasks[t].at \in {"idle", "answered"} /\ UNCHANGED <<ring, log, outside, cut>>
      /\ tasks' \in [Tasks -> [at : Places, path : Paths \cup {Newline}]]
      /\ tasks'[t] = [at |-> "missed", path |-> q]
      /\ \A u \in Tasks : u # t => tasks'[u] = tasks[u]
  BY <1>0, TypeFacts DEF Miss, Places
<1>2. TypeOK' /\ RecordedOnce' /\ RingIsEnd' /\ LastIsLatest' /\ AlertsSpaced'
  BY <1>0, <1>1 DEF TypeOK, RecordedOnce, RingIsEnd, LastIsLatest, AlertsSpaced, ring, outside
<1>3. Underway' /\ PastMutex' /\ MissesAreCounted'
  BY <1>0, <1>1 DEF Underway, PastMutex, MissesAreCounted, ring, outside
<1>4. LinesOnce'
  <2>1. \A u \in Tasks, p \in Paths : Carries(u, p)' <=> Carries(u, p)
    BY <1>1 DEF Carries
  <2> QED
    BY <1>0, <1>1, <2>1 DEF LinesOnce, ring
<1> QED
  BY <1>2, <1>3, <1>4 DEF IInv

LEMMA AnswerKeepsIInv ==
    ASSUME IInv, NEW t \in Tasks, RecordKnown(t) \/ LockFails(t)
    PROVE  IInv'
<1>0. /\ TypeOK /\ Underway /\ PastMutex /\ RecordedOnce /\ RingIsEnd /\ LinesOnce /\ MissesAreCounted
      /\ LastIsLatest /\ AlertsSpaced
  BY DEF IInv
<1>1. /\ tasks[t].at = "missed" /\ UNCHANGED <<ring, log, outside, cut>> /\ Go(t, "answered")
      /\ tasks[t].path \in seen \/ poisoned
  BY DEF RecordKnown, LockFails, Known
<1>2. /\ tasks' \in [Tasks -> [at : Places, path : Paths \cup {Newline}]]
      /\ tasks'[t].at = "answered" /\ tasks'[t].path = tasks[t].path
      /\ \A u \in Tasks : u # t => tasks'[u] = tasks[u]
  BY <1>0, <1>1, Moved DEF Places
<1>3. TypeOK' /\ RecordedOnce' /\ RingIsEnd' /\ LastIsLatest' /\ AlertsSpaced'
  BY <1>0, <1>1, <1>2 DEF TypeOK, RecordedOnce, RingIsEnd, LastIsLatest, AlertsSpaced, ring, outside
<1>4. Underway' /\ PastMutex' /\ MissesAreCounted'
  BY <1>0, <1>1, <1>2 DEF Underway, PastMutex, MissesAreCounted, ring, outside
<1>5. LinesOnce'
  <2>1. \A u \in Tasks, p \in Paths : Carries(u, p)' <=> Carries(u, p)
    BY <1>1, <1>2 DEF Carries
  <2> QED
    BY <1>0, <1>1, <2>1 DEF LinesOnce, ring
<1> QED
  BY <1>3, <1>4, <1>5 DEF IInv

\* What the steps after the mutex leave alone.
LEMMA AppendStep ==
    ASSUME IInv, NEW t \in Tasks, NEW place \in {"opened", "written", "answered"},
           Go(t, place), UNCHANGED <<ring, outside>>,
           tasks[t].at \in {"recorded", "opened", "written"}
    PROVE  /\ tasks' \in [Tasks -> [at : Places, path : Paths \cup {Newline}]]
           /\ tasks[t].path \in Paths
           /\ tasks'[t].at = place /\ tasks'[t].path = tasks[t].path
           /\ \A u \in Tasks : u # t => tasks'[u] = tasks[u]
           /\ Underway' /\ PastMutex' /\ RecordedOnce' /\ RingIsEnd' /\ LastIsLatest' /\ AlertsSpaced'
<1>0. TypeOK /\ Underway /\ PastMutex /\ RecordedOnce /\ RingIsEnd /\ LastIsLatest /\ AlertsSpaced
  BY DEF IInv
<1>1. /\ tasks' \in [Tasks -> [at : Places, path : Paths \cup {Newline}]]
      /\ tasks'[t].at = place /\ tasks'[t].path = tasks[t].path
      /\ \A u \in Tasks : u # t => tasks'[u] = tasks[u]
  BY <1>0, Moved DEF Places
<1>2. tasks[t].path \in Paths
  BY <1>0 DEF Underway
<1>3. Underway' /\ PastMutex'
  BY <1>0, <1>1, <1>2 DEF Underway, PastMutex, ring
<1>4. RecordedOnce' /\ RingIsEnd' /\ LastIsLatest' /\ AlertsSpaced'
  BY <1>0 DEF RecordedOnce, RingIsEnd, LastIsLatest, AlertsSpaced, ring, outside
<1> QED
  BY <1>1, <1>2, <1>3, <1>4

LEMMA AppendKeepsIInv ==
    ASSUME IInv, NEW t \in Tasks,
           Open(t) \/ WriteLine(t) \/ WriteNewline(t) \/ Abandon(t)
    PROVE  IInv'
<1> DEFINE p == tasks[t].path
<1>0. TypeOK /\ Underway /\ PastMutex /\ RecordedOnce /\ RingIsEnd /\ LinesOnce
      /\ MissesAreCounted /\ LastIsLatest /\ AlertsSpaced
  BY DEF IInv
<1>1. /\ tasks[t].at \in {"recorded", "opened", "written"} /\ UNCHANGED <<ring, outside>>
      /\ Go(t, "opened") \/ Go(t, "written") \/ Go(t, "answered")
  BY DEF Open, WriteLine, WriteNewline, Abandon
<1>2. PICK place \in {"opened", "written", "answered"} : Go(t, place)
  BY <1>1
<1>3. /\ tasks' \in [Tasks -> [at : Places, path : Paths \cup {Newline}]]
      /\ p \in Paths
      /\ tasks'[t].at = place /\ tasks'[t].path = p
      /\ \A u \in Tasks : u # t => tasks'[u] = tasks[u]
      /\ Underway' /\ PastMutex' /\ RecordedOnce' /\ RingIsEnd' /\ LastIsLatest' /\ AlertsSpaced'
  BY <1>1, <1>2, AppendStep
<1>4. \A at : Go(t, at) => tasks'[t].at = at
  BY <1>0, TypeFacts DEF Go
<1>5. p \in seen
  BY <1>0, <1>1 DEF PastMutex
<1>6. MissesAreCounted'
  BY <1>0, <1>1, <1>3, <1>5 DEF MissesAreCounted, ring, outside, p
<1>7. \A u \in Tasks, q \in Paths : u # t => (Carries(u, q)' <=> Carries(u, q))
  BY <1>3 DEF Carries
<1>8. CASE Open(t)
  <2>1. tasks[t].at = "recorded" /\ tasks'[t].at = "opened" /\ UNCHANGED <<log, cut>>
    BY <1>4, <1>8 DEF Open
  <2>2. \A u \in Tasks, q \in Paths : Carries(u, q)' <=> Carries(u, q)
    BY <1>3, <1>7, <2>1 DEF Carries, p
  <2>3. LinesOnce'
    BY <1>0, <1>1, <2>1, <2>2 DEF LinesOnce, ring
  <2>4. TypeOK'
    BY <1>0, <1>1, <1>3, <2>1 DEF TypeOK, ring, outside
  <2> QED
    BY <1>3, <1>6, <2>3, <2>4 DEF IInv
<1>9. CASE WriteLine(t)
  <2>1. /\ tasks[t].at = "opened" /\ tasks'[t].at = "written" /\ UNCHANGED cut
        /\ log' = Append(log, p)
    BY <1>4, <1>9 DEF WriteLine
  <2>2. /\ log' \in Seq(Paths \cup {Newline}) /\ Len(log') = Len(log) + 1 /\ Len(log) \in Nat
        /\ \A i \in 1 .. Len(log) : log'[i] = log[i]
        /\ log'[Len(log) + 1] = p
        /\ \A i \in 1 .. Len(log') : i \in 1 .. Len(log) \/ i = Len(log) + 1
    BY <1>0, <1>3, <2>1, TypeFacts, Appended
  <2>3. \A q \in Paths : (Carries(t, q) <=> q = p) /\ ~ Carries(t, q)'
    BY <1>3, <2>1 DEF Carries, p
  <2>4. /\ \A i \in 1 .. Len(log) : log[i] # p
        /\ \A u \in Tasks : u # t => ~ Carries(u, p)
    BY <1>0, <1>3, <2>3 DEF LinesOnce
  <2> HIDE DEF p
  <2>5. /\ \A u \in Tasks, q \in Paths : Carries(u, q)' => q \in seen'
        /\ \A u, v \in Tasks, q \in Paths : Carries(u, q)' /\ Carries(v, q)' => u = v
    BY <1>0, <1>1, <1>7, <2>3 DEF LinesOnce, ring
  <2>6. \A u \in Tasks, q \in Paths : Carries(u, q)' => \A i \in 1 .. Len(log') : log'[i] # q
    BY <1>0, <1>7, <2>2, <2>3, <2>4 DEF LinesOnce
  <2>7. \A i \in 1 .. Len(log') : log'[i] \in Paths => log'[i] \in seen'
    BY <1>0, <1>1, <1>5, <2>2 DEF LinesOnce, ring
  <2>8. \A i, j \in 1 .. Len(log') : log'[i] \in Paths /\ log'[i] = log'[j] => i = j
    BY <1>0, <2>2, <2>4 DEF LinesOnce
  <2>9. ASSUME NEW q \in Paths, q \in seen', q \notin cut', \A u \in Tasks : ~ Carries(u, q)'
        PROVE  \E i \in 1 .. Len(log') : log'[i] = q
    <3>1. CASE q = p
      BY <2>2, <3>1
    <3>2. CASE q # p
      <4>1. \E i \in 1 .. Len(log) : log[i] = q
        BY <1>0, <1>1, <1>7, <2>1, <2>3, <2>9, <3>2 DEF LinesOnce, ring
      <4> QED
        BY <2>2, <4>1
    <3> QED
      BY <3>1, <3>2
  <2>10. LinesOnce'
    BY <2>5, <2>6, <2>7, <2>8, <2>9 DEF LinesOnce
  <2>11. TypeOK'
    BY <1>0, <1>1, <1>3, <2>1, <2>2 DEF TypeOK, ring, outside
  <2> QED
    BY <1>3, <1>6, <2>10, <2>11 DEF IInv
<1>10. CASE WriteNewline(t)
  <2>1. /\ tasks[t].at = "written" /\ tasks'[t].at = "answered" /\ UNCHANGED cut
        /\ log' = Append(log, Newline)
    BY <1>4, <1>10 DEF WriteNewline
  <2>2. /\ log' \in Seq(Paths \cup {Newline}) /\ Len(log') = Len(log) + 1 /\ Len(log) \in Nat
        /\ \A i \in 1 .. Len(log) : log'[i] = log[i]
        /\ log'[Len(log) + 1] = Newline
        /\ \A i \in 1 .. Len(log') : i \in 1 .. Len(log) \/ i = Len(log) + 1
    BY <1>0, <2>1, TypeFacts, Appended
  <2>3. \A u \in Tasks, q \in Paths : Carries(u, q)' <=> Carries(u, q)
    BY <1>7, <2>1 DEF Carries
  <2>4. \A u \in Tasks, q \in Paths : Carries(u, q)' => \A i \in 1 .. Len(log') : log'[i] # q
    BY <1>0, <2>2, <2>3, PathsAssumption DEF LinesOnce
  <2>5. /\ \A i \in 1 .. Len(log') : log'[i] \in Paths => log'[i] \in seen'
        /\ \A i, j \in 1 .. Len(log') : log'[i] \in Paths /\ log'[i] = log'[j] => i = j
    BY <1>0, <1>1, <2>2, PathsAssumption DEF LinesOnce, ring
  <2>6. ASSUME NEW q \in Paths, q \in seen', q \notin cut', \A u \in Tasks : ~ Carries(u, q)'
        PROVE  \E i \in 1 .. Len(log') : log'[i] = q
    <3>1. \E i \in 1 .. Len(log) : log[i] = q
      BY <1>0, <1>1, <2>1, <2>3, <2>6 DEF LinesOnce, ring
    <3> QED
      BY <2>2, <3>1
  <2>7. LinesOnce'
    BY <1>0, <1>1, <2>3, <2>4, <2>5, <2>6 DEF LinesOnce, ring
  <2>8. TypeOK'
    BY <1>0, <1>1, <1>3, <2>1, <2>2 DEF TypeOK, ring, outside
  <2> QED
    BY <1>3, <1>6, <2>7, <2>8 DEF IInv
<1>11. CASE Abandon(t)
  <2>1. tasks'[t].at = "answered" /\ cut' = cut \cup {p} /\ UNCHANGED log
    BY <1>4, <1>11 DEF Abandon
  <2>2. \A q \in Paths : ~ Carries(t, q)' /\ (q # p => ~ Carries(t, q))
    BY <2>1 DEF Carries, p
  <2>3. LinesOnce'
    BY <1>0, <1>1, <1>7, <2>1, <2>2 DEF LinesOnce, ring
  <2>4. TypeOK'
    BY <1>0, <1>1, <1>3, <2>1 DEF TypeOK, ring, outside
  <2> QED
    BY <1>3, <1>6, <2>3, <2>4 DEF IInv
<1> QED
  BY <1>8, <1>9, <1>10, <1>11

LEMMA OutsideKeepsIInv == IInv /\ (Tick \/ OutputCloses) => IInv'
<1> SUFFICES ASSUME IInv, Tick \/ OutputCloses PROVE IInv'
  OBVIOUS
<1>0. TypeOK /\ Underway /\ PastMutex /\ RecordedOnce /\ RingIsEnd /\ LinesOnce
      /\ MissesAreCounted /\ LastIsLatest /\ AlertsSpaced
  BY DEF IInv
<1>1. /\ UNCHANGED <<ring, tasks, log, cut>>
      /\ now' \in 0 .. MaxTime /\ now <= now' /\ output' \in {"open", "closed"}
      /\ output = "closed" => output' = "closed"
  BY <1>0, SizesAssumption DEF Tick, OutputCloses, TypeOK
<1>2. TypeOK'
  BY <1>0, <1>1, SizesAssumption DEF TypeOK, ring
<1>3. /\ Underway' /\ PastMutex' /\ RecordedOnce' /\ RingIsEnd' /\ LinesOnce'
      /\ LastIsLatest' /\ AlertsSpaced'
  BY <1>0, <1>1 DEF Underway, PastMutex, RecordedOnce, RingIsEnd, LinesOnce, Carries,
                    LastIsLatest, AlertsSpaced, ring
<1>4. MissesAreCounted'
  BY <1>0, <1>1 DEF MissesAreCounted, ring
<1> QED
  BY <1>2, <1>3, <1>4 DEF IInv

LEMMA StutterKeepsIInv == IInv /\ UNCHANGED vars => IInv'
<1> SUFFICES ASSUME IInv, UNCHANGED vars PROVE IInv'
  OBVIOUS
<1>1. UNCHANGED <<ring, tasks, log, outside, cut>>
  BY DEF vars
<1>2. TypeOK'
  BY <1>1 DEF IInv, TypeOK, ring, outside
<1>3. Underway' /\ PastMutex' /\ LinesOnce'
  BY <1>1 DEF IInv, Underway, PastMutex, LinesOnce, Carries, ring
<1>4. RecordedOnce' /\ RingIsEnd' /\ MissesAreCounted' /\ LastIsLatest' /\ AlertsSpaced'
  BY <1>1 DEF IInv, RecordedOnce, RingIsEnd, MissesAreCounted, LastIsLatest, AlertsSpaced,
              ring, outside
<1> QED
  BY <1>2, <1>3, <1>4 DEF IInv

LEMMA SpecIInv == Spec => []IInv
<1>1. IInv /\ [Next]_vars => IInv'
  BY MissKeepsIInv, AnswerKeepsIInv, RecordKeepsIInv, AppendKeepsIInv, OutsideKeepsIInv,
     StutterKeepsIInv DEF Next
<1> QED
  BY <1>1, InitIInv, PTL DEF Spec

-----------------------------------------------------------------------------
(* The theorems.                                                           *)

\* Every variable has its type and the ring is within its limit.
THEOREM LogTypeCorrect == Spec => []TypeOK
<1>1. IInv => TypeOK
  BY DEF IInv
<1> QED
  BY <1>1, SpecIInv, PTL

\* The ring and the summary are the latest misses, in order and without a repeat.
THEOREM SummaryShowsLatest == Spec => []SummaryIsLatest
<1>1. IInv => SummaryIsLatest
  <2> SUFFICES ASSUME IInv PROVE SummaryIsLatest
    OBVIOUS
  <2>1. TypeOK /\ RecordedOnce /\ RingIsEnd
    BY DEF IInv
  <2> DEFINE L == Len(recorded)
             E == Len(entries)
             start == IF E > SummarySize THEN E - SummarySize ELSE 0
             size == IF SummarySize < MaxTracked THEN SummarySize ELSE MaxTracked
             first == (IF L > size THEN L - size ELSE 0)
             ringFirst == (IF L > MaxTracked THEN L - MaxTracked ELSE 0)
  <2>2. /\ entries \in Seq(Paths) /\ recorded \in Seq(Paths) /\ E \in Nat /\ L \in Nat
        /\ E = IF L > MaxTracked THEN MaxTracked ELSE L
        /\ \A i \in 1 .. E : entries[i] = recorded[L - E + i]
        /\ SummarySize \in Nat /\ MaxTracked \in Nat
    BY <2>1, TypeFacts, SizesAssumption DEF RingIsEnd
  <2> HIDE DEF L, E
  <2>3. ringFirst = L - E /\ first = (L - E) + start /\ L - first = E - start
        /\ start \in Nat /\ start <= E /\ L - E \in Nat
    <3>1. CASE L > MaxTracked
      BY <2>2, <3>1
    <3>2. CASE ~ L > MaxTracked
      BY <2>2, <3>2
    <3> QED
      BY <3>1, <3>2
  <2> HIDE DEF start, first, ringFirst, size
  <2>4. entries = SubSeq(recorded, ringFirst + 1, L)
    <3>1. SubSeq(recorded, ringFirst + 1, L) \in Seq(Paths)
      BY <2>2, <2>3 DEF L
    <3>2. /\ Len(SubSeq(recorded, ringFirst + 1, L)) = E
          /\ \A i \in 1 .. E : SubSeq(recorded, ringFirst + 1, L)[i] = recorded[L - E + i]
      <4>1. \A i \in ringFirst + 1 .. L : recorded[i] \in Paths
        BY <2>2, <2>3 DEF L
      <4> QED
        BY <2>2, <2>3, <4>1, SubSeqProperties
    <3> QED
      BY <2>2, <3>1, <3>2, SeqEqual DEF E
  <2>5. SubSeq(entries, start + 1, E) = SubSeq(recorded, first + 1, L)
    <3> DEFINE s == SubSeq(entries, start + 1, E)
               r == SubSeq(recorded, first + 1, L)
    <3>1. s \in Seq(Paths) /\ r \in Seq(Paths)
      BY <2>2, <2>3 DEF L, E
    <3>2. Len(s) = E - start /\ \A i \in 1 .. E - start : s[i] = entries[start + i]
      BY <2>2, <2>3 DEF E
    <3>3. Len(r) = E - start /\ \A i \in 1 .. E - start : r[i] = recorded[first + i]
      <4>1. \A i \in first + 1 .. L : recorded[i] \in Paths
        BY <2>2, <2>3 DEF L
      <4> QED
        BY <2>2, <2>3, <4>1, SubSeqProperties
    <3>4. \A i \in 1 .. E - start : entries[start + i] = recorded[first + i]
      BY <2>2, <2>3
    <3> HIDE DEF s, r
    <3>5. s = r
      BY <3>1, <3>2, <3>3, <3>4, SeqEqual
    <3> QED
      BY <3>5 DEF s, r
  <2>6. entries = Latest(recorded, MaxTracked)
    BY <2>4 DEF Latest, L, ringFirst
  <2>7. Summary.files = Latest(recorded, size)
    BY <2>5 DEF Summary, Latest, L, E, start, first
  <2>8. \A i, j \in DOMAIN recorded : recorded[i] = recorded[j] => i = j
    BY <2>1, TypeFacts DEF RecordedOnce
  <2> QED
    BY <2>6, <2>7, <2>8 DEF SummaryIsLatest, size
<1> QED
  BY <1>1, SpecIInv, PTL

\* Every path that was missed has its one line in the file, or is on its way.
THEOREM PathsAreLoggedOnce == Spec => []EachLoggedOnce
<1>1. IInv => EachLoggedOnce
  <2> SUFFICES ASSUME IInv, NEW p \in Paths
               PROVE  /\ Cardinality(LinesOf(p)) <= 1
                      /\ LinesOf(p) # {} => p \in seen
                      /\ p \in seen /\ ~ OnItsWay(p) /\ p \notin cut => LinesOf(p) # {}
    BY DEF EachLoggedOnce
  <2>1. TypeOK /\ LinesOnce /\ DOMAIN log = 1 .. Len(log)
    BY TypeFacts DEF IInv
  <2>2. Cardinality(LinesOf(p)) <= 1
    <3>1. CASE LinesOf(p) = {}
      BY <3>1, FS_EmptySet
    <3>2. CASE LinesOf(p) # {}
      <4>1. PICK i \in LinesOf(p) : TRUE
        BY <3>2
      <4>2. LinesOf(p) = {i}
        BY <2>1, <4>1 DEF LinesOf, LinesOnce
      <4>3. Cardinality({i}) = 1
        BY FS_Singleton
      <4> QED
        BY <4>2, <4>3
    <3> QED
      BY <3>1, <3>2
  <2>3. LinesOf(p) # {} => p \in seen
    BY <2>1 DEF LinesOf, LinesOnce
  <2>4. p \in seen /\ ~ OnItsWay(p) /\ p \notin cut => LinesOf(p) # {}
    BY <2>1 DEF LinesOf, LinesOnce, OnItsWay, Carries
  <2> QED
    BY <2>2, <2>3, <2>4
<1> QED
  BY <1>1, SpecIInv, PTL

\* A request answered 404 has left its path on record, unless an alert could not
\* be printed.
THEOREM MissesAreOnRecord == Spec => []MissesAreCounted
<1>1. IInv => MissesAreCounted
  BY DEF IInv
<1> QED
  BY <1>1, SpecIInv, PTL

\* Alerts are at least the cooldown apart.
THEOREM AlertsKeepCooldown == Spec => []AlertsSpaced
<1>1. IInv => AlertsSpaced
  BY DEF IInv
<1> QED
  BY <1>1, SpecIInv, PTL
=============================================================================
