--------------------------- MODULE AssetStoreProofs ---------------------------
(***************************************************************************)
(* The invariants of AssetStore, for every set of paths, layers, workers   *)
(* and extractions.                                                        *)
(***************************************************************************)
EXTENDS AssetStore, TLAPS

-----------------------------------------------------------------------------
(* Types.                                                                  *)

LEMMA WholeIsContent ==
    ASSUME NEW p \in Paths, NEW l \in Layers
    PROVE  /\ Whole(p, l) \in Content
           /\ Whole(p, l).path = p /\ Whole(p, l).from = l /\ Whole(p, l).has = Chunks
BY DEF Whole, Content

LEMMA IdleIsRequest == Idle \in Request /\ Idle.at = "idle" /\ Idle.got = {} /\ Idle.game
BY LayersAssumption DEF Idle, Request, Steps

\* What a layer offers is content of the layer, or a file under the root.
LEMMA OfferedContent ==
    ASSUME TypeOK, NEW w \in Workers, Reading(w), NEW c \in Offered(req[w])
    PROVE  /\ c \in Content
           /\ req[w].path \in Paths
           /\ \/ /\ req[w].at = "root" /\ req[w].path \in DOMAIN disk
                 /\ c = disk[req[w].path]
              \/ /\ req[w].at = "client" /\ req[w].game /\ req[w].path \in ClientFiles
                 /\ c = Whole(req[w].path, "client")
              \/ /\ req[w].at = "override" /\ req[w].path \in OverrideFiles
                 /\ c = Whole(req[w].path, "override")
              \/ /\ req[w].at = "archive" /\ req[w].path \in ArchiveFiles
                 /\ c = Whole(req[w].path, "archive")
<1>1. req[w] \in Request
  BY DEF TypeOK
<1>2. req[w].path \in Paths
  BY <1>1 DEF Request
<1>3. "client" \in Layers /\ "override" \in Layers /\ "archive" \in Layers
  BY DEF Layers
<1> QED
  BY <1>1, <1>2, <1>3, WholeIsContent DEF Offered, Reading, Layers, TypeOK, Request

\* Putting content in the cache keeps it a cache of content.
LEMMA PutTyped ==
    ASSUME TypeOK, NEW p \in Paths, NEW c \in Content, Cache!Put(KeyOf[p], c)
    PROVE  /\ DOMAIN cache' \subseteq {KeyOf[q] : q \in Paths}
           /\ \A k \in DOMAIN cache' : cache'[k] \in Content
           /\ KeyOf[p] \in DOMAIN cache' /\ cache'[KeyOf[p]] = c
           /\ \A k \in DOMAIN cache' : k # KeyOf[p] => k \in DOMAIN cache /\ cache'[k] = cache[k]
BY DEF TypeOK, Cache!Put

LEMMA DropTyped ==
    ASSUME TypeOK, Cache!Drop
    PROVE  /\ DOMAIN cache' \subseteq DOMAIN cache
           /\ \A k \in DOMAIN cache' : cache'[k] = cache[k]
BY DEF TypeOK, Cache!Drop

LEMMA NextTypeOK == TypeOK /\ [Next]_vars => TypeOK'
<1> SUFFICES ASSUME TypeOK, [Next]_vars PROVE TypeOK'
  OBVIOUS
<1> USE DEF limits
<1>1. CASE UNCHANGED vars
  BY <1>1 DEF vars, TypeOK
<1>2. ASSUME NEW w \in Workers, NEW p \in Paths, NEW game \in BOOLEAN, Arrive(w, p, game)
      PROVE  TypeOK'
  BY <1>2 DEF Arrive, TypeOK, Request, Steps
<1>3. ASSUME NEW w \in Workers, LookUp(w)
      PROVE  TypeOK'
  <2>1. req[w] \in Request
    BY DEF TypeOK
  <2>2. ASSUME KeyOf[req[w].path] \in DOMAIN cache, Take(w, "done", cache[KeyOf[req[w].path]])
        PROVE  req' \in [Workers -> Request]
    <3>1. cache[KeyOf[req[w].path]] \in Content
      BY <2>2 DEF TypeOK
    <3> QED
      BY <2>1, <2>2, <3>1 DEF Take, TypeOK, Request, Steps
  <2>3. ASSUME Go(w, IF At(w, "fast") THEN "again" ELSE "root")
        PROVE  req' \in [Workers -> Request]
    BY <2>1, <2>3 DEF Go, TypeOK, Request, Steps
  <2> QED
    BY <1>3, <2>2, <2>3 DEF LookUp, TypeOK
<1>4. ASSUME NEW w \in Workers, ReadLayer(w)
      PROVE  TypeOK'
  <2>1. PICK c \in Offered(req[w]) : Take(w, "insert", c)
    BY <1>4 DEF ReadLayer
  <2>2. c \in Content /\ req[w].path \in Paths /\ req[w] \in Request
    BY <1>4, OfferedContent DEF ReadLayer, TypeOK
  <2>3. req' \in [Workers -> Request]
    BY <2>1, <2>2 DEF Take, TypeOK, Request, Steps
  <2>4. /\ DOMAIN writes' \subseteq Slots
        /\ \A s \in DOMAIN writes' : writes'[s] \in [path : Paths, next : 0 .. ChunkCount]
    <3>1. CASE UNCHANGED writes
      BY <3>1 DEF TypeOK
    <3>2. CASE Spawn(req[w].path)
      BY <2>2, <3>2, LayersAssumption DEF Spawn, Bind, TypeOK
    <3> QED
      BY <1>4, <3>1, <3>2 DEF ReadLayer
  <2> QED
    BY <1>4, <2>3, <2>4 DEF ReadLayer, TypeOK
<1>5. ASSUME NEW w \in Workers, MissLayer(w) \/ FailLayer(w)
      PROVE  TypeOK'
  <2>1. req[w] \in Request /\ AfterMiss(req[w]) \in Steps
    BY DEF TypeOK, AfterMiss, Steps
  <2>2. Go(w, AfterMiss(req[w]))
    BY <1>5 DEF MissLayer, FailLayer
  <2>3. req' \in [Workers -> Request]
    BY <2>1, <2>2 DEF Go, TypeOK, Request
  <2>4. misread' \subseteq Paths \X Layers /\ mishaps' \in Nat
    BY <1>5, <2>1 DEF MissLayer, FailLayer, Reading, Request, TypeOK
  <2> QED
    BY <1>5, <2>3, <2>4 DEF MissLayer, FailLayer, TypeOK
<1>6. ASSUME NEW w \in Workers, Insert(w)
      PROVE  TypeOK'
  <2>1. req[w] \in Request
    BY DEF TypeOK
  <2>2. PICK c \in req[w].got : Cache!Put(KeyOf[req[w].path], c) \/ UNCHANGED cache
    BY <1>6 DEF Insert
  <2>3. c \in Content /\ req[w].path \in Paths
    BY <2>1 DEF Request
  <2>4. req' \in [Workers -> Request]
    BY <1>6, <2>1 DEF Insert, Go, TypeOK, Request, Steps
  <2>5. /\ DOMAIN cache' \subseteq {KeyOf[q] : q \in Paths}
        /\ \A k \in DOMAIN cache' : cache'[k] \in Content
    BY <2>2, <2>3, PutTyped DEF TypeOK
  <2> QED
    BY <1>6, <2>4, <2>5 DEF Insert, TypeOK
<1>7. ASSUME NEW w \in Workers, Reply(w)
      PROVE  TypeOK'
  BY <1>7, IdleIsRequest DEF Reply, TypeOK
<1>8. CASE Evict
  BY <1>8, DropTyped DEF Evict, TypeOK
<1>9. ASSUME NEW s \in Slots, OpenExtracted(s)
      PROVE  TypeOK'
  <2>1. /\ DOMAIN disk' \subseteq Paths
        /\ \A p \in DOMAIN disk' : disk'[p] \in Content
    BY <1>9 DEF OpenExtracted, Bind, TypeOK, Content, Layers
  <2>2. /\ DOMAIN writes' = DOMAIN writes
        /\ \A t \in DOMAIN writes' : writes'[t] \in [path : Paths, next : 0 .. ChunkCount]
    BY <1>9, LayersAssumption DEF OpenExtracted, TypeOK
  <2> QED
    BY <1>9, <2>1, <2>2 DEF OpenExtracted, TypeOK
<1>10. ASSUME NEW s \in Slots, OpenFails(s) \/ WriteFails(s)
       PROVE  TypeOK'
  BY <1>10 DEF OpenFails, WriteFails, Without, TypeOK
<1>11. ASSUME NEW s \in Slots, WriteChunk(s)
       PROVE  TypeOK'
  <2> DEFINE p == writes[s].path
             n == writes[s].next
  <2>1. s \in DOMAIN writes /\ p \in Paths /\ n \in Chunks
    BY <1>11, LayersAssumption DEF WriteChunk, TypeOK, Chunks
  <2>2. /\ DOMAIN disk' = DOMAIN disk
        /\ \A q \in DOMAIN disk : disk'[q] \in Content
    <3>1. \A q \in DOMAIN disk : q # p => disk'[q] = disk[q]
      BY <1>11 DEF WriteChunk, TypeOK
    <3>2. p \in DOMAIN disk => disk'[p] = [disk[p] EXCEPT !.has = @ \cup {n}]
      BY <1>11 DEF WriteChunk, TypeOK
    <3>3. ASSUME NEW c \in Content
          PROVE  [c EXCEPT !.has = @ \cup {n}] \in Content
      BY <2>1 DEF Content
    <3> QED
      BY <1>11, <3>1, <3>2, <3>3 DEF WriteChunk, TypeOK
  <2>3. /\ DOMAIN writes' \subseteq Slots
        /\ \A t \in DOMAIN writes' : writes'[t] \in [path : Paths, next : 0 .. ChunkCount]
    BY <1>11, <2>1, LayersAssumption DEF WriteChunk, TypeOK, Without, LastChunk, Chunks
  <2> QED
    BY <1>11, <2>2, <2>3 DEF WriteChunk, TypeOK
<1>12. ASSUME NEW p \in Paths, Warm(p)
       PROVE  TypeOK'
  <2>1. p \in Paths /\ Whole(p, "archive") \in Content
    BY WholeIsContent DEF Layers
  <2>2. /\ DOMAIN cache' \subseteq {KeyOf[q] : q \in Paths}
        /\ \A k \in DOMAIN cache' : cache'[k] \in Content
    BY <1>12, <2>1, PutTyped DEF Warm, TypeOK
  <2> QED
    BY <1>12, <2>2 DEF Warm, TypeOK
<1>13. CASE Restart
  <2>1. {writes[s].path : s \in {t \in DOMAIN writes : writes[t].next > 0}} \subseteq Paths
    BY DEF TypeOK
  <2> QED
    BY <1>13, <2>1, IdleIsRequest DEF Restart, TypeOK
<1> QED
  BY <1>1, <1>2, <1>3, <1>4, <1>5, <1>6, <1>7, <1>8, <1>9, <1>10, <1>11, <1>12, <1>13 DEF Next

LEMMA InitTypeOK == Init => TypeOK
<1> SUFFICES ASSUME Init PROVE TypeOK
  OBVIOUS
<1>1. \A p \in RootFiles : Whole(p, "root") \in Content
  BY LayersAssumption, WholeIsContent DEF Layers
<1> QED
  BY <1>1, IdleIsRequest, LayersAssumption DEF Init, TypeOK

\* Type correctness: what is under the root, in the cache and in an answer is
\* always some layer's content for some path.
THEOREM StoreTypeCorrect == Spec => []TypeOK
BY InitTypeOK, NextTypeOK, PTL DEF Spec

-----------------------------------------------------------------------------
(* Remote requests.  They skip both looks in the cache and never reach the *)
(* archives; and with no extraction the root holds the host's files only.  *)

RemoteInv ==
    /\ ~ RemoteGrfData => DOMAIN writes = {} /\ \A p \in DOMAIN disk : disk[p].from = "root"
    /\ \A w \in Workers : ~ req[w].game =>
          /\ ~ RemoteGrfData
          /\ req[w].at \notin {"fast", "again", "archive"}
          /\ \A c \in req[w].got : c.from \in {"root", "override"}

LEMMA NextRemoteInv == TypeOK /\ RemoteInv /\ [Next]_vars => RemoteInv'
<1> SUFFICES ASSUME TypeOK, RemoteInv, [Next]_vars PROVE RemoteInv'
  OBVIOUS
<1> USE DEF limits
<1>1. CASE UNCHANGED vars
  BY <1>1 DEF vars, RemoteInv
<1>2. ASSUME NEW w \in Workers, NEW p \in Paths, NEW game \in BOOLEAN, Arrive(w, p, game)
      PROVE  RemoteInv'
  <2>1. \A v \in Workers : v # w => req'[v] = req[v]
    BY <1>2 DEF Arrive, TypeOK
  <2>2. /\ req'[w].game = game /\ req'[w].got = {}
        /\ ~ game => req'[w].at \notin {"fast", "again", "archive"} /\ ~ RemoteGrfData
    BY <1>2 DEF Arrive, TypeOK
  <2> QED
    BY <1>2, <2>1, <2>2 DEF Arrive, RemoteInv
<1>3. ASSUME NEW w \in Workers, LookUp(w)
      PROVE  RemoteInv'
  <2>1. req[w].game
    BY <1>3 DEF LookUp, At, RemoteInv
  <2>2. req'[w].game /\ \A v \in Workers : v # w => req'[v] = req[v]
    BY <1>3, <2>1 DEF LookUp, Go, Take, TypeOK, Request
  <2> QED
    BY <1>3, <2>2 DEF LookUp, RemoteInv
<1>4. ASSUME NEW w \in Workers, ReadLayer(w)
      PROVE  RemoteInv'
  <2>1. PICK c \in Offered(req[w]) : Take(w, "insert", c)
    BY <1>4 DEF ReadLayer
  <2>2. /\ req'[w] = [req[w] EXCEPT !.at = "insert", !.got = {c}]
        /\ req[w] \in Request /\ \A v \in Workers : v # w => req'[v] = req[v]
    BY <2>1 DEF Take, TypeOK
  <2>3. ~ req[w].game => c.from \in {"root", "override"}
    BY <1>4, OfferedContent DEF ReadLayer, RemoteInv, Whole
  <2>4. ~ RemoteGrfData => UNCHANGED writes
    BY <1>4 DEF ReadLayer, ExtractsRead, Extracts
  <2>5. /\ req'[w].at = "insert" /\ req'[w].got = {c}
        /\ req'[w].game = req[w].game
    BY <2>2 DEF Request
  <2>6. UNCHANGED disk
    BY <1>4 DEF ReadLayer
  <2> QED
    BY <2>2, <2>3, <2>4, <2>5, <2>6 DEF RemoteInv
<1>5. ASSUME NEW w \in Workers, MissLayer(w) \/ FailLayer(w)
      PROVE  RemoteInv'
  <2>1. /\ req'[w] = [req[w] EXCEPT !.at = AfterMiss(req[w])]
        /\ req[w] \in Request /\ \A v \in Workers : v # w => req'[v] = req[v]
    BY <1>5 DEF MissLayer, FailLayer, Go, TypeOK
  <2>2. ~ req[w].game => AfterMiss(req[w]) \notin {"fast", "again", "archive"}
    BY DEF AfterMiss
  <2>3. UNCHANGED <<disk, writes>>
    BY <1>5 DEF MissLayer, FailLayer
  <2> QED
    BY <2>1, <2>2, <2>3 DEF RemoteInv, Request
<1>6. ASSUME NEW w \in Workers, Insert(w)
      PROVE  RemoteInv'
  <2>1. /\ req'[w] = [req[w] EXCEPT !.at = "done"]
        /\ req[w] \in Request /\ \A v \in Workers : v # w => req'[v] = req[v]
    BY <1>6 DEF Insert, Go, TypeOK
  <2> QED
    BY <1>6, <2>1 DEF Insert, RemoteInv, Request
<1>7. ASSUME NEW w \in Workers, Reply(w)
      PROVE  RemoteInv'
  <2>1. req'[w] = Idle /\ \A v \in Workers : v # w => req'[v] = req[v]
    BY <1>7 DEF Reply, TypeOK
  <2> QED
    BY <1>7, <2>1, IdleIsRequest DEF Reply, RemoteInv
<1>8. CASE Evict \/ (\E p \in Paths : Warm(p))
  BY <1>8 DEF Evict, Warm, RemoteInv
<1>9. ASSUME NEW s \in Slots, OpenExtracted(s) \/ OpenFails(s) \/ WriteChunk(s) \/ WriteFails(s)
      PROVE  RemoteInv'
  <2>1. RemoteGrfData /\ UNCHANGED req
    BY <1>9, LayersAssumption DEF OpenExtracted, OpenFails, WriteChunk, WriteFails, RemoteInv
  <2> QED
    BY <2>1 DEF RemoteInv
<1>10. CASE Restart
  BY <1>10, IdleIsRequest DEF Restart, RemoteInv
<1> QED
  BY <1>1, <1>2, <1>3, <1>4, <1>5, <1>6, <1>7, <1>8, <1>9, <1>10 DEF Next

LEMMA InitRemoteInv == Init => RemoteInv
BY IdleIsRequest DEF Init, RemoteInv, Whole

\* A remote request is never given game data, by way of the cache and of
\* extracted copies included.
THEOREM RemoteRequestsGetHostFiles == Spec => []RemoteOnlyHostFiles
<1>1. RemoteInv => RemoteOnlyHostFiles
  BY DEF RemoteInv, RemoteOnlyHostFiles
<1> QED
  BY <1>1, InitTypeOK, NextTypeOK, InitRemoteInv, NextRemoteInv, PTL DEF Spec

-----------------------------------------------------------------------------
(* Overlapping extractions.  Whatever piece a file lacks, some open task   *)
(* on it has still to write; a truncation makes the task that did it the   *)
(* one that has every piece to write.                                      *)

MissingCovered ==
    /\ \A s \in DOMAIN writes : writes[s].next > 0 => writes[s].path \in DOMAIN disk
    /\ \A p \in DOMAIN disk :
          /\ disk[p].has \subseteq Chunks
          /\ p \notin spoiled =>
                \A i \in Chunks \ disk[p].has :
                   \E s \in DOMAIN writes :
                      writes[s].path = p /\ writes[s].next > 0 /\ writes[s].next <= i

LEMMA NextMissingCovered == TypeOK /\ MissingCovered /\ [Next]_vars => MissingCovered'
<1> SUFFICES ASSUME TypeOK, MissingCovered, [Next]_vars PROVE MissingCovered'
  OBVIOUS
<1> USE DEF limits
<1>1. CASE UNCHANGED <<disk, writes, spoiled>>
  BY <1>1 DEF MissingCovered, Chunks
<1>2. ASSUME NEW p \in Paths, Spawn(p), UNCHANGED <<disk, spoiled>>
      PROVE  MissingCovered'
  <2>1. PICK t \in Slots \ DOMAIN writes : writes' = Bind(writes, t, [path |-> p, next |-> 0])
    BY <1>2 DEF Spawn
  <2>2. /\ DOMAIN writes' = DOMAIN writes \cup {t} /\ writes'[t].next = 0
        /\ \A s \in DOMAIN writes : writes'[s] = writes[s]
    BY <2>1 DEF Bind
  <2> QED
    BY <1>2, <2>2 DEF MissingCovered, Chunks
<1>3. ASSUME NEW t \in Slots, OpenExtracted(t)
      PROVE  MissingCovered'
  <2> DEFINE p == writes[t].path
  <2>1. /\ DOMAIN disk' = DOMAIN disk \cup {p} /\ disk'[p].has = {}
        /\ \A q \in DOMAIN disk : q # p => disk'[q] = disk[q]
        /\ UNCHANGED spoiled
    BY <1>3 DEF OpenExtracted, Bind
  <2>2. /\ DOMAIN writes' = DOMAIN writes /\ t \in DOMAIN writes
        /\ writes'[t].path = p /\ writes'[t].next = 1 /\ writes[t].next = 0
        /\ \A s \in DOMAIN writes : s # t => writes'[s] = writes[s]
    BY <1>3 DEF OpenExtracted, TypeOK
  <2>3. \A s \in DOMAIN writes' : writes'[s].next > 0 => writes'[s].path \in DOMAIN disk'
    BY <2>1, <2>2 DEF MissingCovered
  <2>4. ASSUME NEW q \in DOMAIN disk', q \notin spoiled, NEW i \in Chunks \ disk'[q].has
        PROVE  \E s \in DOMAIN writes' :
                  writes'[s].path = q /\ writes'[s].next > 0 /\ writes'[s].next <= i
    <3>1. CASE q = p
      BY <2>2, <3>1 DEF Chunks
    <3>2. CASE q # p
      BY <2>1, <2>2, <2>4, <3>2 DEF MissingCovered
    <3> QED
      BY <3>1, <3>2
  <2> QED
    BY <2>1, <2>3, <2>4 DEF MissingCovered, Chunks
<1>4. ASSUME NEW t \in Slots, OpenFails(t)
      PROVE  MissingCovered'
  <2>1. /\ DOMAIN writes' = DOMAIN writes \ {t} /\ writes[t].next = 0
        /\ \A s \in DOMAIN writes' : writes'[s] = writes[s]
        /\ UNCHANGED <<disk, spoiled>>
    BY <1>4 DEF OpenFails, Without
  <2> QED
    BY <2>1 DEF MissingCovered, Chunks
<1>5. ASSUME NEW t \in Slots, WriteChunk(t)
      PROVE  MissingCovered'
  <2> DEFINE p == writes[t].path
             n == writes[t].next
  <2>1. /\ t \in DOMAIN writes /\ n \in Chunks /\ n > 0 /\ p \in DOMAIN disk
        /\ disk[p] \in Content /\ UNCHANGED spoiled
    BY <1>5, LayersAssumption DEF WriteChunk, TypeOK, Chunks, MissingCovered
  <2>2. /\ DOMAIN disk' = DOMAIN disk /\ disk'[p].has = disk[p].has \cup {n}
        /\ \A q \in DOMAIN disk : q # p => disk'[q] = disk[q]
    BY <1>5, <2>1 DEF WriteChunk, Content
  <2>3. CASE LastChunk(n)
    <3>1. /\ DOMAIN writes' = DOMAIN writes \ {t}
          /\ \A s \in DOMAIN writes' : writes'[s] = writes[s]
      BY <1>5, <2>3 DEF WriteChunk, Without
    <3>2. n = ChunkCount
      BY <2>1, <2>3, LayersAssumption DEF LastChunk, Chunks
    <3>3. ASSUME NEW q \in DOMAIN disk', q \notin spoiled, NEW i \in Chunks \ disk'[q].has
          PROVE  \E s \in DOMAIN writes' :
                    writes'[s].path = q /\ writes'[s].next > 0 /\ writes'[s].next <= i
      <4>1. i \in Chunks \ disk[q].has /\ (q = p => i < n)
        BY <2>1, <2>2, <3>2, <3>3, LayersAssumption DEF Chunks
      <4>2. PICK s \in DOMAIN writes :
                    writes[s].path = q /\ writes[s].next > 0 /\ writes[s].next <= i
        BY <2>1, <2>2, <3>3, <4>1 DEF MissingCovered
      <4>3. s # t
        BY <2>1, <4>1, <4>2 DEF Chunks
      <4> QED
        BY <3>1, <4>2, <4>3
    <3> QED
      BY <2>1, <2>2, <3>1, <3>3 DEF MissingCovered, Chunks
  <2>4. CASE ~ LastChunk(n)
    <3>1. /\ DOMAIN writes' = DOMAIN writes /\ writes'[t].path = p /\ writes'[t].next = n + 1
          /\ \A s \in DOMAIN writes : s # t => writes'[s] = writes[s]
      BY <1>5, <2>1, <2>4 DEF WriteChunk, TypeOK
    <3>2. ASSUME NEW q \in DOMAIN disk', q \notin spoiled, NEW i \in Chunks \ disk'[q].has
          PROVE  \E s \in DOMAIN writes' :
                    writes'[s].path = q /\ writes'[s].next > 0 /\ writes'[s].next <= i
      <4>1. i \in Chunks \ disk[q].has /\ (q = p => i # n)
        BY <2>2, <3>2
      <4>2. PICK s \in DOMAIN writes :
                    writes[s].path = q /\ writes[s].next > 0 /\ writes[s].next <= i
        BY <2>1, <2>2, <3>2, <4>1 DEF MissingCovered
      <4>3. CASE s = t
        <5>1. n <= i /\ n # i /\ i \in Int /\ n \in Int
          BY <2>1, <4>1, <4>2, <4>3 DEF Chunks
        <5> QED
          BY <2>1, <3>1, <4>2, <4>3, <5>1
      <4>4. CASE s # t
        BY <3>1, <4>2, <4>4
      <4> QED
        BY <4>3, <4>4
    <3> QED
      BY <2>1, <2>2, <3>1, <3>2 DEF MissingCovered, Chunks
  <2> QED
    BY <2>3, <2>4
<1>6. ASSUME NEW t \in Slots, WriteFails(t)
      PROVE  MissingCovered'
  <2>1. /\ DOMAIN writes' = DOMAIN writes \ {t}
        /\ \A s \in DOMAIN writes' : writes'[s] = writes[s]
        /\ UNCHANGED disk /\ spoiled' = spoiled \cup {writes[t].path}
    BY <1>6 DEF WriteFails, Without
  <2> QED
    BY <2>1 DEF MissingCovered, Chunks
<1>7. CASE Restart
  <2>1. /\ DOMAIN writes' = {} /\ UNCHANGED disk
        /\ \A s \in DOMAIN writes : writes[s].next > 0 => writes[s].path \in spoiled'
        /\ spoiled \subseteq spoiled'
    BY <1>7 DEF Restart
  <2> QED
    BY <2>1 DEF MissingCovered, Chunks
<1>8. ASSUME NEW w \in Workers, ReadLayer(w)
      PROVE  MissingCovered'
  <2>1. req[w].path \in Paths
    BY DEF TypeOK, Request
  <2> QED
    BY <1>1, <1>2, <1>8, <2>1 DEF ReadLayer
<1> QED
  BY <1>1, <1>3, <1>4, <1>5, <1>6, <1>7, <1>8
     DEF Next, vars, Arrive, LookUp, MissLayer, FailLayer, Insert, Reply, Evict, Warm

LEMMA InitMissingCovered == Init => MissingCovered
BY DEF Init, MissingCovered, Whole

\* Overlapping extractions of a path leave it whole once all have finished.
THEOREM QuietFilesAreWhole == Spec => []QuietDiskWhole
<1>1. ASSUME MissingCovered PROVE QuietDiskWhole
  <2> SUFFICES ASSUME NEW p \in DOMAIN disk \ spoiled,
                      \A s \in DOMAIN writes : writes[s].path = p => writes[s].next = 0
               PROVE  disk[p].has = Chunks
    BY DEF QuietDiskWhole
  <2>1. Chunks \ disk[p].has = {}
    BY <1>1 DEF MissingCovered
  <2> QED
    BY <1>1, <2>1 DEF MissingCovered
<1> QED
  BY <1>1, InitTypeOK, NextTypeOK, InitMissingCovered, NextMissingCovered, PTL DEF Spec

-----------------------------------------------------------------------------
(* The host's files.  A request only gets past the root layer for a path   *)
(* that is not there, unless the read fails; so no archive read, and no    *)
(* extraction, is about a file of the host that was never misread.         *)

Readable(p) == p \in RootFiles /\ <<p, "root">> \notin misread

HostInv ==
    /\ HostFilesKept
    /\ \A s \in DOMAIN writes : ~ Readable(writes[s].path)
    /\ \A w \in Workers :
          req[w].at \in {"client", "override", "archive"} => ~ Readable(req[w].path)

\* What was misread stays so.
LEMMA MisreadGrows == [Next]_vars => misread \subseteq misread'
BY DEF Next, vars, limits, Arrive, LookUp, ReadLayer, MissLayer, FailLayer, Insert, Reply, Evict,
   OpenExtracted, OpenFails, WriteChunk, WriteFails, Warm, Restart

LEMMA NextHostInv == TypeOK /\ HostInv /\ [Next]_vars => HostInv'
<1> SUFFICES ASSUME TypeOK, HostInv, [Next]_vars PROVE HostInv'
  OBVIOUS
<1> USE DEF limits
<1>0. \A p : Readable(p)' => Readable(p)
  BY MisreadGrows DEF Readable
<1>1. CASE UNCHANGED vars
  BY <1>1 DEF vars, HostInv, HostFilesKept, Readable
<1>2. ASSUME NEW w \in Workers, NEW p \in Paths, NEW game \in BOOLEAN, Arrive(w, p, game)
      PROVE  HostInv'
  <2>1. /\ req'[w].at \in {"done", "fast", "root"}
        /\ \A v \in Workers : v # w => req'[v] = req[v]
    BY <1>2 DEF Arrive, TypeOK
  <2> QED
    BY <1>2, <2>1 DEF Arrive, HostInv, HostFilesKept, Readable
<1>3. ASSUME NEW w \in Workers, LookUp(w) \/ Insert(w) \/ Reply(w)
      PROVE  HostInv'
  <2>1. req'[w].at \in {"idle", "again", "root", "done"}
    BY <1>3, IdleIsRequest DEF LookUp, Insert, Reply, Go, Take, TypeOK, Request
  <2>2. \A v \in Workers : v # w => req'[v] = req[v]
    BY <1>3 DEF LookUp, Insert, Reply, Go, Take, TypeOK
  <2>3. UNCHANGED <<disk, writes, misread>>
    BY <1>3 DEF LookUp, Insert, Reply
  <2> QED
    BY <2>1, <2>2, <2>3 DEF HostInv, HostFilesKept, Readable
<1>4. ASSUME NEW w \in Workers, ReadLayer(w)
      PROVE  HostInv'
  <2>1. /\ req'[w].at = "insert" /\ UNCHANGED <<disk, misread>>
        /\ \A v \in Workers : v # w => req'[v] = req[v]
    BY <1>4 DEF ReadLayer, Take, TypeOK, Request
  <2>2. \A s \in DOMAIN writes' : ~ Readable(writes'[s].path)
    <3>1. CASE UNCHANGED writes
      BY <3>1 DEF HostInv
    <3>2. CASE Spawn(req[w].path) /\ At(w, "archive")
      <4>1. ~ Readable(req[w].path)
        BY <3>2 DEF At, HostInv
      <4> QED
        BY <3>2, <4>1 DEF Spawn, Bind, HostInv
    <3> QED
      BY <1>4, <3>1, <3>2 DEF ReadLayer, ExtractsRead
  <2> QED
    BY <2>1, <2>2 DEF HostInv, HostFilesKept, Readable
<1>5. ASSUME NEW w \in Workers, MissLayer(w) \/ FailLayer(w)
      PROVE  HostInv'
  <2>1. /\ req'[w].at = AfterMiss(req[w]) /\ req'[w].path = req[w].path
        /\ \A v \in Workers : v # w => req'[v] = req[v]
        /\ UNCHANGED <<disk, writes>>
    BY <1>5 DEF MissLayer, FailLayer, Go, TypeOK, Request
  <2>2. ~ Readable(req[w].path)'
    <3>1. CASE req[w].at = "root" /\ MissLayer(w)
      <4>1. req[w].path \notin DOMAIN disk
        BY <3>1 DEF MissLayer, Offered
      <4>2. ~ Readable(req[w].path)
        BY <4>1 DEF HostInv, HostFilesKept, Readable
      <4> QED
        BY <2>1, <4>2, <1>0
    <3>2. CASE req[w].at = "root" /\ FailLayer(w)
      BY <2>1, <3>2 DEF FailLayer, Readable
    <3>3. CASE req[w].at # "root"
      <4>1. req[w].at \in {"client", "override", "archive"}
        BY <1>5, <3>3 DEF MissLayer, FailLayer, Reading, Layers
      <4> QED
        BY <2>1, <4>1, <1>0 DEF HostInv
    <3> QED
      BY <1>5, <3>1, <3>2, <3>3
  <2>3. HostFilesKept'
    BY <2>1, <1>0 DEF HostInv, HostFilesKept, Readable
  <2>4. \A s \in DOMAIN writes' : ~ Readable(writes[s].path)'
    BY <2>1, <1>0 DEF HostInv
  <2>5. ASSUME NEW v \in Workers, req'[v].at \in {"client", "override", "archive"}
        PROVE  ~ Readable(req[v].path)'
    BY <2>1, <2>2, <2>5, <1>0 DEF HostInv
  <2> QED
    BY <2>3, <2>4, <2>5 DEF HostInv
<1>7. CASE Evict \/ (\E p \in Paths : Warm(p))
  BY <1>7 DEF Evict, Warm, HostInv, HostFilesKept, Readable
<1>8. ASSUME NEW s \in Slots, OpenExtracted(s) \/ OpenFails(s) \/ WriteChunk(s) \/ WriteFails(s)
      PROVE  HostInv'
  <2>1. \A p : Readable(p) => p \in DOMAIN disk' /\ disk'[p] = disk[p]
    BY <1>8 DEF OpenExtracted, OpenFails, WriteChunk, WriteFails, Bind, HostInv, HostFilesKept,
       Readable
  <2>2. \A t \in DOMAIN writes' : t \in DOMAIN writes /\ writes'[t].path = writes[t].path
    BY <1>8 DEF OpenExtracted, OpenFails, WriteChunk, WriteFails, Without, TypeOK
  <2>3. UNCHANGED <<req, misread>>
    BY <1>8 DEF OpenExtracted, OpenFails, WriteChunk, WriteFails
  <2> QED
    BY <2>1, <2>2, <2>3 DEF HostInv, HostFilesKept, Readable
<1>9. CASE Restart
  BY <1>9, IdleIsRequest DEF Restart, HostInv, HostFilesKept, Readable
<1> QED
  BY <1>1, <1>2, <1>3, <1>4, <1>5, <1>7, <1>8, <1>9 DEF Next

LEMMA InitHostInv == Init => HostInv
BY IdleIsRequest DEF Init, HostInv, HostFilesKept

\* Whatever reads fail, and wherever: the server only ever writes to a file of
\* the host after a read of that file itself has failed.
THEOREM HostFilesAreKept == Spec => []HostFilesKept
<1>1. HostInv => HostFilesKept
  BY DEF HostInv
<1> QED
  BY <1>1, InitTypeOK, NextTypeOK, InitHostInv, NextHostInv, PTL DEF Spec

-----------------------------------------------------------------------------
(* Precedence, for a server with one spelling per path.  A request at a    *)
(* layer has missed in all the layers before it, or one of them has been   *)
(* misread; so what is read, cached or extracted for a path nothing has    *)
(* disturbed is from the best layer of it.  Each path is an argument of    *)
(* its own: a disturbed one does not touch what is kept for the others.    *)

OneSpelling == \A p, q \in Paths : KeyOf[p] = KeyOf[q] => p = q

\* Undisturbed, by what had been misread at some moment.
Calm(p, m) ==
    /\ \A layer \in Layers : <<p, layer>> \notin m
    /\ p \in WarmPaths => Best(p, TRUE) = {"archive"}
    /\ RemoteGrfData \/ Best(p, TRUE) # {"client"} \/ Best(p, FALSE) = {}

From(c, p, game) == c.path = p /\ Best(p, game) = {c.from}

Missed(r) ==
    /\ r.at \in {"client", "override", "archive"} => r.path \notin RootFiles
    /\ r.at \in {"override", "archive"} /\ r.game => r.path \notin ClientFiles
    /\ r.at = "archive" => r.path \notin OverrideFiles

Answered(r) ==
    /\ r.at = "insert" => \E c \in r.got : r.got = {c} /\ From(c, r.path, r.game)
    /\ r.at = "done" => \/ r.got = {} /\ Best(r.path, r.game) = {}
                        \/ \E c \in r.got : r.got = {c} /\ From(c, r.path, r.game)

GoodRequest(r, m) ==
    /\ ~ r.game => ~ RemoteGrfData /\ r.at \notin {"fast", "again", "archive"}
    /\ r.at \notin {"idle", "done"} => r.path \in PublicPaths
    /\ r.at \notin {"insert", "done"} => r.got = {}
    /\ Calm(r.path, m) => Missed(r) /\ Answered(r)

GoodFiles ==
    /\ RootFiles \subseteq DOMAIN disk
    /\ \A p \in DOMAIN disk \cap PublicPaths : Calm(p, misread) => From(disk[p], p, TRUE)
GoodWrites ==
    \A s \in DOMAIN writes :
       Calm(writes[s].path, misread) => Best(writes[s].path, TRUE) = {"archive"}
GoodCache ==
    \A p \in PublicPaths :
       Calm(p, misread) /\ KeyOf[p] \in DOMAIN cache => From(cache[KeyOf[p]], p, TRUE)
GoodRequests == \A w \in Workers : GoodRequest(req[w], misread)

PrecedenceInv == GoodFiles /\ GoodWrites /\ GoodCache /\ GoodRequests

LEMMA BestFacts ==
    ASSUME NEW p, NEW game \in BOOLEAN
    PROVE  /\ p \notin PublicPaths => Best(p, game) = {}
           /\ p \in PublicPaths =>
                /\ p \in RootFiles => Best(p, game) = {"root"}
                /\ p \notin RootFiles =>
                     /\ p \in ClientFiles /\ game => Best(p, game) = {"client"}
                     /\ p \notin ClientFiles \/ ~ game =>
                          /\ p \in OverrideFiles => Best(p, game) = {"override"}
                          /\ p \notin OverrideFiles =>
                               /\ p \in ArchiveFiles /\ game => Best(p, game) = {"archive"}
                               /\ p \notin ArchiveFiles \/ ~ game => Best(p, game) = {}
BY DEF Best

LEMMA CalmIsUndisturbed == \A p : Undisturbed(p) <=> Calm(p, misread)
BY DEF Undisturbed, Calm

LEMMA CalmBefore ==
    ASSUME NEW m, NEW n, m \subseteq n, NEW p, Calm(p, n)
    PROVE  Calm(p, m)
BY DEF Calm

\* What a remote request caches for an undisturbed path is best for everyone.
LEMMA BestForAll ==
    ASSUME NEW c, NEW p, NEW game \in BOOLEAN, NEW m, Calm(p, m), From(c, p, game),
           ~ game => ~ RemoteGrfData
    PROVE  From(c, p, TRUE)
<1>1. CASE game
  BY <1>1
<1>2. CASE ~ game
  <2>1. Best(p, FALSE) # {} /\ Best(p, TRUE) # {"client"} /\ p \in PublicPaths
    BY <1>2, BestFacts DEF Calm, From
  <2>2. p \in RootFiles \/ p \notin ClientFiles
    BY <2>1, BestFacts
  <2>3. Best(p, TRUE) = Best(p, FALSE)
    BY <2>1, <2>2, BestFacts
  <2> QED
    BY <1>2, <2>3 DEF From
<1> QED
  BY <1>1, <1>2

\* It is enough to look at the request that moved.
LEMMA OneRequest ==
    ASSUME TypeOK, GoodRequests, NEW w \in Workers, NEW r, misread \subseteq misread',
           req' = [req EXCEPT ![w] = r], GoodRequest(r, misread')
    PROVE  GoodRequests'
<1>1. ASSUME NEW v \in Workers, v # w
      PROVE  GoodRequest(req'[v], misread')
  <2>1. req'[v] = req[v] /\ GoodRequest(req[v], misread)
    BY <1>1 DEF TypeOK, GoodRequests
  <2>2. Calm(req[v].path, misread') => Calm(req[v].path, misread)
    BY CalmBefore
  <2> QED
    BY <2>1, <2>2 DEF GoodRequest
<1>2. req'[w] = r
  BY DEF TypeOK
<1> QED
  BY <1>1, <1>2 DEF GoodRequests

\* What a layer offers to a request for an undisturbed path is from the best
\* layer for it.
LEMMA OfferedIsBest ==
    ASSUME TypeOK, RemoteInv, PrecedenceInv, NEW w \in Workers, Reading(w),
           NEW c \in Offered(req[w]), Calm(req[w].path, misread)
    PROVE  From(c, req[w].path, req[w].game)
<1> DEFINE p == req[w].path
<1>1. /\ GoodRequest(req[w], misread) /\ req[w] \in Request /\ req[w].game \in BOOLEAN
      /\ Missed(req[w]) /\ p \in PublicPaths
  BY DEF PrecedenceInv, GoodRequests, GoodRequest, TypeOK, Request, Reading, Layers
<1>2. CASE req[w].at = "root"
  <2>1. c = disk[p] /\ p \in DOMAIN disk
    BY <1>2, OfferedContent
  <2>2. From(c, p, TRUE)
    BY <1>1, <2>1 DEF PrecedenceInv, GoodFiles
  <2>3. CASE ~ req[w].game
    <3>1. c.from = "root"
      BY <1>1, <2>1, <2>3 DEF GoodRequest, RemoteInv
    <3>2. p \in RootFiles
      BY <1>1, <2>2, <3>1, BestFacts DEF From
    <3> QED
      BY <1>1, <2>2, <3>1, <3>2, BestFacts DEF From
  <2> QED
    BY <1>1, <2>2, <2>3
<1>3. CASE req[w].at = "client"
  <2>1. c = Whole(p, "client") /\ p \in ClientFiles /\ req[w].game
    BY <1>3, OfferedContent
  <2>2. c.path = p /\ c.from = "client"
    BY <2>1 DEF Whole
  <2> QED
    BY <1>1, <1>3, <2>1, <2>2, BestFacts DEF From, Missed
<1>4. CASE req[w].at = "override"
  <2>1. c = Whole(p, "override") /\ p \in OverrideFiles
    BY <1>4, OfferedContent
  <2>2. c.path = p /\ c.from = "override"
    BY <2>1 DEF Whole
  <2>3. p \notin RootFiles /\ (p \notin ClientFiles \/ ~ req[w].game)
    BY <1>1, <1>4 DEF Missed
  <2> QED
    BY <1>1, <2>1, <2>2, <2>3, BestFacts DEF From
<1>5. CASE req[w].at = "archive"
  <2>1. c = Whole(p, "archive") /\ p \in ArchiveFiles
    BY <1>5, OfferedContent
  <2>2. c.path = p /\ c.from = "archive"
    BY <2>1 DEF Whole
  <2>3. /\ p \notin RootFiles /\ p \notin ClientFiles /\ p \notin OverrideFiles
        /\ req[w].game
    BY <1>1, <1>5 DEF Missed, GoodRequest
  <2> QED
    BY <1>1, <2>1, <2>2, <2>3, BestFacts DEF From
<1> QED
  BY <1>2, <1>3, <1>4, <1>5 DEF Reading, Layers

\* A step that reads no file: of the files, the writes, the cache and the
\* requests it keeps what is right of those it leaves alone.
LEMMA SameParts ==
    ASSUME PrecedenceInv, UNCHANGED misread
    PROVE  /\ UNCHANGED disk => GoodFiles'
           /\ UNCHANGED writes => GoodWrites'
           /\ UNCHANGED cache => GoodCache'
           /\ UNCHANGED req => GoodRequests'
BY DEF PrecedenceInv, GoodFiles, GoodWrites, GoodCache, GoodRequests

\* Content from the best layer of a path may go under the path's key.
LEMMA GoodPut ==
    ASSUME OneSpelling, TypeOK, PrecedenceInv, UNCHANGED misread, NEW p \in Paths,
           NEW c \in Content, Cache!Put(KeyOf[p], c),
           p \in PublicPaths /\ Calm(p, misread) => From(c, p, TRUE)
    PROVE  GoodCache'
<1> SUFFICES ASSUME NEW q \in PublicPaths, Calm(q, misread), KeyOf[q] \in DOMAIN cache'
             PROVE  From(cache'[KeyOf[q]], q, TRUE)
  BY DEF GoodCache
<1>1. q \in Paths
  BY LayersAssumption
<1>2. CASE q = p
  BY <1>2, PutTyped
<1>3. CASE q # p
  <2>1. KeyOf[q] # KeyOf[p]
    BY <1>1, <1>3 DEF OneSpelling
  <2> QED
    BY <2>1, PutTyped DEF PrecedenceInv, GoodCache
<1> QED
  BY <1>2, <1>3

LEMMA NextPrecedenceInv ==
    ASSUME OneSpelling
    PROVE  TypeOK /\ RemoteInv /\ PrecedenceInv /\ [Next]_vars => PrecedenceInv'
<1> SUFFICES ASSUME TypeOK, RemoteInv, PrecedenceInv, [Next]_vars PROVE PrecedenceInv'
  OBVIOUS
<1> USE DEF limits
<1>0. \A w \in Workers : req[w] \in Request /\ GoodRequest(req[w], misread)
  BY DEF TypeOK, PrecedenceInv, GoodRequests
<1>a. GoodFiles /\ GoodWrites /\ GoodCache /\ GoodRequests
  BY DEF PrecedenceInv
<1>b. SUFFICES GoodFiles' /\ GoodWrites' /\ GoodCache' /\ GoodRequests'
  BY DEF PrecedenceInv
<1>1. CASE UNCHANGED vars
  BY <1>1, SameParts DEF vars
<1>2. ASSUME NEW w \in Workers, NEW p \in Paths, NEW game \in BOOLEAN, Arrive(w, p, game)
      PROVE  GoodFiles' /\ GoodWrites' /\ GoodCache' /\ GoodRequests'
  <2> DEFINE r == [at |-> IF p \notin PublicPaths THEN "done" ELSE IF game THEN "fast" ELSE "root",
                   path |-> p, game |-> game, got |-> {}]
  <2>1. req' = [req EXCEPT ![w] = r] /\ (RemoteGrfData => game) /\ UNCHANGED misread
    BY <1>2 DEF Arrive
  <2>2. GoodRequest(r, misread')
    <3>1. r.at \in {"done", "fast", "root"} /\ r.path = p /\ r.game = game /\ r.got = {}
      OBVIOUS
    <3>2. r.at = "done" => Best(p, game) = {}
      BY BestFacts
    <3>3. (r.at # "done" => p \in PublicPaths) /\ (r.at = "fast" => game)
      OBVIOUS
    <3> QED
      BY <2>1, <3>1, <3>2, <3>3 DEF GoodRequest, Missed, Answered
  <2>3. GoodRequests'
    BY <1>a, <2>1, <2>2, OneRequest
  <2> QED
    BY <1>2, <2>3, SameParts DEF Arrive
<1>3. ASSUME NEW w \in Workers, LookUp(w)
      PROVE  GoodFiles' /\ GoodWrites' /\ GoodCache' /\ GoodRequests'
  <2> DEFINE key == KeyOf[req[w].path]
  <2>1. /\ req[w].path \in PublicPaths /\ req[w].at \in {"fast", "again"} /\ req[w].game = TRUE
        /\ UNCHANGED misread
    BY <1>0, <1>3 DEF LookUp, At, GoodRequest, Request
  <2>2. CASE key \in DOMAIN cache /\ Take(w, "done", cache[key])
    <3> DEFINE r == [req[w] EXCEPT !.at = "done", !.got = {cache[key]}]
    <3>1. /\ req' = [req EXCEPT ![w] = r]
          /\ r.at = "done" /\ r.got = {cache[key]} /\ r.path = req[w].path /\ r.game = TRUE
      BY <1>0, <2>1, <2>2 DEF Take, TypeOK, Request
    <3>2. Calm(req[w].path, misread) => From(cache[key], req[w].path, TRUE)
      BY <1>a, <2>1, <2>2 DEF GoodCache
    <3>3. GoodRequest(r, misread')
      BY <2>1, <3>1, <3>2 DEF GoodRequest, Missed, Answered
    <3>4. GoodRequests'
      BY <1>a, <2>1, <3>1, <3>3, OneRequest
    <3> QED
      BY <1>3, <3>4, SameParts DEF LookUp
  <2>3. CASE Go(w, IF At(w, "fast") THEN "again" ELSE "root")
    <3> DEFINE r == [req[w] EXCEPT !.at = IF At(w, "fast") THEN "again" ELSE "root"]
    <3>1. /\ req' = [req EXCEPT ![w] = r]
          /\ r.at \in {"again", "root"} /\ r.got = {} /\ r.path = req[w].path /\ r.game = TRUE
      BY <1>0, <2>1, <2>3 DEF Go, TypeOK, Request, GoodRequest
    <3>2. GoodRequest(r, misread')
      BY <2>1, <3>1 DEF GoodRequest, Missed, Answered
    <3>3. GoodRequests'
      BY <1>a, <2>1, <3>1, <3>2, OneRequest
    <3> QED
      BY <1>3, <3>3, SameParts DEF LookUp
  <2> QED
    BY <1>3, <2>2, <2>3 DEF LookUp
<1>4. ASSUME NEW w \in Workers, ReadLayer(w)
      PROVE  GoodFiles' /\ GoodWrites' /\ GoodCache' /\ GoodRequests'
  <2>1. PICK c \in Offered(req[w]) : Take(w, "insert", c)
    BY <1>4 DEF ReadLayer
  <2> DEFINE r == [req[w] EXCEPT !.at = "insert", !.got = {c}]
  <2>2. /\ Reading(w) /\ UNCHANGED misread
        /\ Calm(req[w].path, misread) => From(c, req[w].path, req[w].game)
    BY <1>4, OfferedIsBest DEF ReadLayer
  <2>3. /\ req' = [req EXCEPT ![w] = r]
        /\ r.at = "insert" /\ r.got = {c} /\ r.path = req[w].path /\ r.game = req[w].game
    BY <1>0, <2>1 DEF Take, TypeOK, Request
  <2>4. GoodRequest(r, misread')
    BY <1>0, <2>2, <2>3 DEF GoodRequest, Missed, Answered, Reading, Layers
  <2>5. GoodRequests'
    BY <1>a, <2>2, <2>3, <2>4, OneRequest
  <2>6. GoodWrites'
    <3>1. CASE UNCHANGED writes
      BY <2>2, <3>1, SameParts
    <3>2. CASE Spawn(req[w].path) /\ At(w, "archive")
      <4>1. c.from = "archive" /\ req[w].game = TRUE
        BY <1>0, <2>2, <3>2, OfferedContent DEF At, Whole, GoodRequest, Request
      <4>2. Calm(req[w].path, misread) => Best(req[w].path, TRUE) = {"archive"}
        BY <2>2, <4>1 DEF From
      <4>3. PICK t \in Slots \ DOMAIN writes :
               writes' = Bind(writes, t, [path |-> req[w].path, next |-> 0])
        BY <3>2 DEF Spawn
      <4>4. /\ DOMAIN writes' = DOMAIN writes \cup {t}
            /\ writes'[t].path = req[w].path
            /\ \A s \in DOMAIN writes : writes'[s] = writes[s]
        BY <4>3 DEF Bind
      <4> QED
        BY <1>a, <2>2, <4>2, <4>4 DEF GoodWrites
    <3> QED
      BY <1>4, <3>1, <3>2 DEF ReadLayer, ExtractsRead
  <2> QED
    BY <1>4, <2>5, <2>6, SameParts DEF ReadLayer
<1>5. ASSUME NEW w \in Workers, MissLayer(w)
      PROVE  GoodFiles' /\ GoodWrites' /\ GoodCache' /\ GoodRequests'
  <2> DEFINE at == AfterMiss(req[w])
  <2> DEFINE p == req[w].path
  <2> DEFINE r == [req[w] EXCEPT !.at = at]
  <2>1. /\ req' = [req EXCEPT ![w] = r] /\ UNCHANGED misread
        /\ r.at = at /\ r.got = {} /\ r.path = p /\ r.game = req[w].game /\ req[w].game \in BOOLEAN
        /\ p \in PublicPaths
        /\ req[w].at \in {"root", "client", "override", "archive"} /\ Offered(req[w]) = {}
    BY <1>0, <1>5 DEF MissLayer, Go, TypeOK, Request, GoodRequest, Reading, Layers
  <2>2. /\ Calm(p, misread) => Missed(req[w])
        /\ ~ req[w].game => ~ RemoteGrfData /\ req[w].at # "archive"
    BY <1>0 DEF GoodRequest
  <2>3. ASSUME req[w].at = "root"
      PROVE  GoodRequest(r, misread')
    <3>1. p \notin RootFiles /\ at = "client"
      BY <1>a, <2>1, <2>3 DEF Offered, AfterMiss, GoodFiles
    <3> QED
      BY <2>1, <2>2, <3>1 DEF GoodRequest, Missed, Answered
  <2>4. ASSUME req[w].at = "client"
      PROVE  GoodRequest(r, misread')
    <3>1. (req[w].game => p \notin ClientFiles) /\ at = "override"
      BY <2>1, <2>4 DEF Offered, AfterMiss
    <3> QED
      BY <2>1, <2>2, <2>4, <3>1 DEF GoodRequest, Missed, Answered
  <2>5. ASSUME req[w].at = "override"
      PROVE  GoodRequest(r, misread')
    <3>1. p \notin OverrideFiles /\ at = (IF req[w].game THEN "archive" ELSE "done")
      BY <2>1, <2>5 DEF Offered, AfterMiss
    <3>2. ASSUME req[w].game
          PROVE  GoodRequest(r, misread')
      BY <2>1, <2>2, <2>5, <3>1, <3>2 DEF GoodRequest, Missed, Answered
    <3>3. ASSUME ~ req[w].game
          PROVE  GoodRequest(r, misread')
      <4>1. Calm(p, misread) => Best(p, req[w].game) = {}
        BY <2>1, <2>2, <2>5, <3>1, <3>3, BestFacts DEF Missed
      <4>2. at = "done" /\ req[w].game = FALSE
        BY <2>1, <3>1, <3>3
      <4>3. GoodRequest(r, misread)
        BY <2>1, <2>2, <4>1, <4>2 DEF GoodRequest, Missed, Answered
      <4> QED
        BY <2>1, <4>3
    <3> QED
      BY <3>2, <3>3
  <2>6. ASSUME req[w].at = "archive"
      PROVE  GoodRequest(r, misread')
    <3>1. p \notin ArchiveFiles /\ at = "done" /\ req[w].game
      BY <2>1, <2>2, <2>6 DEF Offered, AfterMiss
    <3>2. Calm(p, misread) => Best(p, req[w].game) = {}
      BY <2>1, <2>2, <2>6, <3>1, BestFacts DEF Missed
    <3> QED
      BY <2>1, <2>2, <3>1, <3>2 DEF GoodRequest, Missed, Answered
  <2>7. GoodRequest(r, misread')
    BY <2>1, <2>3, <2>4, <2>5, <2>6
  <2>8. GoodRequests'
    BY <1>a, <2>1, <2>7, OneRequest
  <2> QED
    BY <1>5, <2>8, SameParts DEF MissLayer
<1>6. ASSUME NEW w \in Workers, FailLayer(w)
      PROVE  GoodFiles' /\ GoodWrites' /\ GoodCache' /\ GoodRequests'
  <2> DEFINE r == [req[w] EXCEPT !.at = AfterMiss(req[w])]
  <2>1. /\ req' = [req EXCEPT ![w] = r]
        /\ r.at = AfterMiss(req[w]) /\ r.got = {} /\ r.path = req[w].path
        /\ r.game = req[w].game /\ r.path \in PublicPaths
        /\ <<req[w].path, req[w].at>> \in misread' /\ req[w].at \in Layers
        /\ misread \subseteq misread'
        /\ UNCHANGED <<disk, cache, writes>>
    BY <1>0, <1>6 DEF FailLayer, Go, TypeOK, Request, GoodRequest, Reading, Layers
  <2>2. ~ Calm(r.path, misread')
    BY <2>1 DEF Calm
  <2>3. ~ r.game => ~ RemoteGrfData /\ r.at \notin {"fast", "again", "archive"}
    BY <1>0, <2>1 DEF GoodRequest, AfterMiss
  <2>4. r.at # "insert"
    BY <2>1 DEF AfterMiss
  <2>5. GoodRequest(r, misread')
    BY <2>1, <2>2, <2>3, <2>4 DEF GoodRequest
  <2>6. GoodRequests'
    BY <1>a, <2>1, <2>5, OneRequest
  <2>7. \A p : Calm(p, misread') => Calm(p, misread)
    BY <2>1, CalmBefore
  <2> QED
    BY <1>a, <2>1, <2>6, <2>7 DEF GoodFiles, GoodWrites, GoodCache
<1>7. ASSUME NEW w \in Workers, Insert(w)
      PROVE  GoodFiles' /\ GoodWrites' /\ GoodCache' /\ GoodRequests'
  <2> DEFINE r == [req[w] EXCEPT !.at = "done"]
  <2>1. /\ req' = [req EXCEPT ![w] = r] /\ req[w].at = "insert"
        /\ r.at = "done" /\ r.got = req[w].got /\ r.path = req[w].path /\ r.game = req[w].game
        /\ UNCHANGED misread
    BY <1>0, <1>7 DEF Insert, Go, At, TypeOK, Request
  <2>2. GoodRequest(r, misread')
    BY <1>0, <2>1 DEF GoodRequest, Missed, Answered
  <2>3. GoodRequests'
    BY <1>a, <2>1, <2>2, OneRequest
  <2>4. ASSUME NEW c \in req[w].got, Cache!Put(KeyOf[req[w].path], c)
        PROVE  GoodCache'
    <3>1. c \in Content /\ req[w].path \in Paths /\ req[w].game \in BOOLEAN
      BY <1>0, <2>4 DEF Request
    <3>2. ASSUME Calm(req[w].path, misread)
          PROVE  From(c, req[w].path, TRUE)
      <4>1. From(c, req[w].path, req[w].game) /\ (~ req[w].game => ~ RemoteGrfData)
        BY <1>0, <2>1, <2>4, <3>2 DEF GoodRequest, Answered
      <4> QED
        BY <3>1, <3>2, <4>1, BestForAll
    <3> QED
      BY <2>1, <2>4, <3>1, <3>2, GoodPut
  <2>5. GoodCache'
    BY <1>7, <2>1, <2>4, SameParts DEF Insert
  <2> QED
    BY <1>7, <2>1, <2>3, <2>5, SameParts DEF Insert
<1>i. GoodRequest(Idle, misread)
  BY IdleIsRequest DEF GoodRequest, Missed, Answered
<1>8. ASSUME NEW w \in Workers, Reply(w)
      PROVE  GoodFiles' /\ GoodWrites' /\ GoodCache' /\ GoodRequests'
  <2>1. GoodRequests'
    BY <1>a, <1>i, <1>8, OneRequest DEF Reply
  <2> QED
    BY <1>8, <2>1, SameParts DEF Reply
<1>9. CASE Evict
  <2>1. GoodCache'
    BY <1>a, <1>9, DropTyped DEF Evict, GoodCache
  <2> QED
    BY <1>9, <2>1, SameParts DEF Evict
<1>10. ASSUME NEW s \in Slots, OpenExtracted(s)
       PROVE  GoodFiles' /\ GoodWrites' /\ GoodCache' /\ GoodRequests'
  <2> DEFINE p == writes[s].path
  <2>1. /\ DOMAIN disk' = DOMAIN disk \cup {p}
        /\ disk'[p].path = p /\ disk'[p].from = "archive"
        /\ \A q \in DOMAIN disk \ {p} : disk'[q] = disk[q]
    BY <1>10 DEF OpenExtracted, Bind
  <2>2. Calm(p, misread) => Best(p, TRUE) = {"archive"}
    BY <1>a, <1>10 DEF OpenExtracted, GoodWrites
  <2>3. GoodFiles'
    <3>1. UNCHANGED misread
      BY <1>10 DEF OpenExtracted
    <3>2. From(disk'[p], p, TRUE) \/ ~ Calm(p, misread)
      BY <2>1, <2>2 DEF From
    <3> QED
      BY <1>a, <2>1, <3>1, <3>2 DEF GoodFiles
  <2>4. /\ DOMAIN writes' = DOMAIN writes
        /\ \A t \in DOMAIN writes : writes'[t].path = writes[t].path
    BY <1>10 DEF OpenExtracted, TypeOK
  <2>5. GoodWrites'
    BY <1>a, <1>10, <2>4 DEF OpenExtracted, GoodWrites
  <2> QED
    BY <1>10, <2>3, <2>5, SameParts DEF OpenExtracted
<1>11. ASSUME NEW s \in Slots, OpenFails(s) \/ WriteFails(s)
       PROVE  GoodFiles' /\ GoodWrites' /\ GoodCache' /\ GoodRequests'
  <2>1. GoodWrites'
    BY <1>a, <1>11 DEF OpenFails, WriteFails, Without, GoodWrites
  <2> QED
    BY <1>11, <2>1, SameParts DEF OpenFails, WriteFails
<1>12. ASSUME NEW s \in Slots, WriteChunk(s)
       PROVE  GoodFiles' /\ GoodWrites' /\ GoodCache' /\ GoodRequests'
  <2> DEFINE n == writes[s].next
  <2>1. ASSUME NEW c \in Content
        PROVE  /\ [c EXCEPT !.has = @ \cup {n}].path = c.path
               /\ [c EXCEPT !.has = @ \cup {n}].from = c.from
    BY DEF Content
  <2>2. /\ DOMAIN disk' = DOMAIN disk
        /\ \A p \in DOMAIN disk : disk'[p].path = disk[p].path /\ disk'[p].from = disk[p].from
    BY <1>12, <2>1 DEF WriteChunk, TypeOK
  <2>3. /\ DOMAIN writes' \subseteq DOMAIN writes
        /\ \A t \in DOMAIN writes' : writes'[t].path = writes[t].path
    BY <1>12 DEF WriteChunk, Without, TypeOK
  <2>4. GoodFiles' /\ GoodWrites'
    <3>1. UNCHANGED misread
      BY <1>12 DEF WriteChunk
    <3>2. GoodFiles'
      BY <1>a, <2>2, <3>1 DEF GoodFiles, From
    <3> QED
      BY <1>a, <2>3, <3>1, <3>2 DEF GoodWrites
  <2> QED
    BY <1>12, <2>4, SameParts DEF WriteChunk
<1>13. ASSUME NEW p \in Paths, Warm(p)
       PROVE  GoodFiles' /\ GoodWrites' /\ GoodCache' /\ GoodRequests'
  <2>1. p \in WarmPaths /\ UNCHANGED misread
    BY <1>13 DEF Warm, TypeOK
  <2>2. Whole(p, "archive") \in Content
    BY WholeIsContent DEF Layers
  <2>3. Calm(p, misread) => From(Whole(p, "archive"), p, TRUE)
    BY <2>1 DEF Calm, From, Whole
  <2>4. GoodCache'
    BY <1>13, <2>1, <2>2, <2>3, GoodPut, SameParts DEF Warm
  <2> QED
    BY <1>13, <2>4, SameParts DEF Warm
<1>14. CASE Restart
  <2>1. GoodRequests'
    BY <1>i, <1>14 DEF Restart, GoodRequests
  <2>2. GoodWrites' /\ GoodCache'
    BY <1>14 DEF Restart, GoodWrites, GoodCache
  <2> QED
    BY <1>14, <2>1, <2>2, SameParts DEF Restart
<1> QED
  BY <1>1, <1>2, <1>3, <1>4, <1>5, <1>6, <1>7, <1>8, <1>9, <1>10, <1>11, <1>12, <1>13, <1>14
     DEF Next

LEMMA InitPrecedenceInv == Init => PrecedenceInv
<1> SUFFICES ASSUME Init PROVE PrecedenceInv
  OBVIOUS
<1>1. GoodFiles
  BY BestFacts DEF Init, From, Whole, GoodFiles
<1>2. GoodRequest(Idle, misread)
  BY IdleIsRequest DEF GoodRequest, Missed, Answered
<1>3. GoodRequests
  BY <1>2 DEF Init, GoodRequests
<1> QED
  BY <1>1, <1>3 DEF Init, PrecedenceInv, GoodWrites, GoodCache

\* With one spelling for each path, every answer for a path that nothing has
\* disturbed comes from the first layer that has it, for requests of either
\* kind, however they, evictions, the warm-up, extractions, failed reads of
\* other paths and restarts interleave.
THEOREM PrecedenceIsKept ==
    ASSUME OneSpelling
    PROVE  Spec => []PrecedenceHolds
<1>1. TypeOK /\ RemoteInv /\ PrecedenceInv /\ [Next]_vars => PrecedenceInv'
  BY NextPrecedenceInv
<1>2. PrecedenceInv => PrecedenceHolds
  <2> SUFFICES ASSUME PrecedenceInv, NEW w \in Workers, At(w, "done"),
                      Undisturbed(req[w].path)
               PROVE  /\ {c.from : c \in req[w].got} = Best(req[w].path, req[w].game)
                      /\ \A c \in req[w].got : c.path = req[w].path
    BY DEF PrecedenceHolds
  <2>1. Answered(req[w])
    BY CalmIsUndisturbed DEF PrecedenceInv, GoodRequests, GoodRequest
  <2>2. CASE req[w].got = {} /\ Best(req[w].path, req[w].game) = {}
    BY <2>2
  <2>3. ASSUME NEW c \in req[w].got, req[w].got = {c}, From(c, req[w].path, req[w].game)
        PROVE  /\ {d.from : d \in req[w].got} = Best(req[w].path, req[w].game)
               /\ \A d \in req[w].got : d.path = req[w].path
    BY <2>3 DEF From
  <2> QED
    BY <2>1, <2>2, <2>3 DEF Answered, At, From
<1> QED
  BY <1>1, <1>2, InitTypeOK, NextTypeOK, InitRemoteInv, NextRemoteInv, InitPrecedenceInv, PTL
     DEF Spec
=============================================================================
