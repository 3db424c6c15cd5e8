------------------------------ MODULE AssetStore ------------------------------
(***************************************************************************)
(* src/client.rs, Client::get_file_with and all it calls: which layer a    *)
(* request is answered from, what is put in the cache, and the extraction  *)
(* of archive files beside the server; with the warm-up task of            *)
(* src/main.rs and the end of the process, which waits for no task.        *)
(*                                                                         *)
(* Nothing here holds a lock across two steps.  A request looks in the     *)
(* cache on the async side, again on the blocking pool, then reads the     *)
(* layers one by one and inserts what it read; an extraction is a task of  *)
(* its own that truncates the file and then writes it, while other         *)
(* requests already find the file there.                                   *)
(*                                                                         *)
(* A file's bytes are abstracted to where they came from and which of its  *)
(* Chunks are there; an asset is torn when some are missing.  A request    *)
(* path and the file it names under the root are one and the same here;    *)
(* the cache key is coarser (js_lowercase).                                *)
(***************************************************************************)
EXTENDS Integers, FiniteSets

CONSTANTS Paths,          \* request paths
          PublicPaths,    \* public_asset_path and safe_join accept them
          KeyOf,          \* cache_key: path -> key
          RootFiles,      \* loose files the host put under the root
          ClientFiles,    \* in the selected BGM_PATH or AI_PATH directory
          OverrideFiles,  \* under DATA_OVERRIDE_PATH
          ArchiveFiles,   \* the index finds them in some archive
          WarmPaths,      \* archive files the warm-up inserts; {} when it is off
          AutoExtract,    \* CLIENT_AUTOEXTRACT
          RemoteGrfData,  \* REMOTE_GRF_DATA
          Workers,        \* requests in flight
          Slots,          \* extractions in flight
          ChunkCount,     \* a file is written in this many pieces
          MaxReadFails,   \* bounds of the model on files whose read fails,
          MaxMishaps      \*   and on writes that fail half way and ends of
                          \*   the process, together

ASSUME LayersAssumption ==
    /\ Paths # {} /\ PublicPaths \subseteq Paths /\ DOMAIN KeyOf = Paths
    /\ RootFiles \subseteq Paths /\ ClientFiles \subseteq Paths
    /\ OverrideFiles \subseteq Paths /\ ArchiveFiles \subseteq Paths
    /\ WarmPaths \subseteq ArchiveFiles
    /\ AutoExtract \in BOOLEAN /\ RemoteGrfData \in BOOLEAN
    /\ ChunkCount \in Nat \ {0}
    /\ MaxReadFails \in Nat /\ MaxMishaps \in Nat

VARIABLES disk,     \* the files under the root: path -> content
          cache,    \* key -> content
          req,      \* what each worker is doing
          writes,   \* extractions in flight: slot -> path and next chunk
          warming,  \* archive files the warm-up has still to insert
          spoiled,  \* paths whose extraction was cut short
          misread,  \* files a read of which has failed: path and layer
          mishaps

limits == <<misread, mishaps>>
vars == <<disk, cache, req, writes, warming, spoiled, limits>>

Chunks == 1 .. ChunkCount
Layers == {"root", "client", "override", "archive"}
Content == [path : Paths, from : Layers, has : SUBSET Chunks]
Whole(p, layer) == [path |-> p, from |-> layer, has |-> Chunks]

Bind(f, x, v) == [y \in DOMAIN f \cup {x} |-> IF y = x THEN v ELSE f[y]]
Without(f, S) == [y \in DOMAIN f \ S |-> f[y]]

Cache == INSTANCE KeyedCache
            WITH Keys <- {KeyOf[p] : p \in Paths}, Values <- Content, stored <- cache

\* config.rs: extraction is off whenever remote requests are kept from the
\* archives.  The first is the setting taken at its word.
ExtractsAsSet == AutoExtract
Extracts == AutoExtract /\ RemoteGrfData

\* A request: its steps are named after the parts of resolve_with.
Steps == {"idle", "fast", "again", "root", "client", "override", "archive", "insert", "done"}
Request == [at : Steps, path : Paths, game : BOOLEAN, got : SUBSET Content]
Idle == [at |-> "idle", path |-> CHOOSE p \in Paths : TRUE, game |-> TRUE, got |-> {}]

At(w, step) == req[w].at = step
Go(w, step) == req' = [req EXCEPT ![w].at = step]
Take(w, step, c) == req' = [req EXCEPT ![w].at = step, ![w].got = {c}]

Init ==
    /\ disk = [p \in RootFiles |-> Whole(p, "root")]
    /\ cache = [k \in {} |-> k]
    /\ req = [w \in Workers |-> Idle]
    /\ writes = [s \in {} |-> s]
    /\ warming = WarmPaths
    /\ spoiled = {}
    /\ misread = {} /\ mishaps = 0

-----------------------------------------------------------------------------
(* A request.                                                              *)

\* game_data_middleware: with RemoteGrfData everyone is given the game data.
\* A path that is refused is answered at once, with nothing.
Arrive(w, p, game) ==
    /\ At(w, "idle")
    /\ RemoteGrfData => game
    /\ req' = [req EXCEPT ![w] =
                 [at |-> IF p \notin PublicPaths THEN "done" ELSE IF game THEN "fast" ELSE "root",
                  path |-> p, game |-> game, got |-> {}]]
    /\ UNCHANGED <<disk, cache, writes, warming, spoiled, limits>>

\* cached() on the async side, then resolve()'s own look on the blocking pool.
LookUp(w) ==
    LET key == KeyOf[req[w].path] IN
    /\ At(w, "fast") \/ At(w, "again")
    /\ \/ key \in DOMAIN cache /\ Take(w, "done", cache[key])
       \/ key \notin DOMAIN cache /\ Go(w, IF At(w, "fast") THEN "again" ELSE "root")
    /\ UNCHANGED <<disk, cache, writes, warming, spoiled, limits>>

\* What the layer a request is at has for its path.
Offered(r) ==
    CASE r.at = "root" -> {disk[p] : p \in {r.path} \cap DOMAIN disk}
      [] r.at = "client" /\ r.game -> {Whole(p, "client") : p \in {r.path} \cap ClientFiles}
      [] r.at = "client" /\ ~ r.game -> {}
      [] r.at = "override" -> {Whole(p, "override") : p \in {r.path} \cap OverrideFiles}
      [] OTHER -> {Whole(p, "archive") : p \in {r.path} \cap ArchiveFiles}

\* Where resolve_with goes on when a layer gives nothing.  The first asks the
\* archives before the override directory.
AfterMissReordered(r) ==
    CASE r.at = "root" -> "client"
      [] r.at = "client" -> IF r.game THEN "archive" ELSE "override"
      [] r.at = "archive" -> "override"
      [] OTHER -> "done"
AfterMiss(r) ==
    CASE r.at = "root" -> "client"
      [] r.at = "client" -> "override"
      [] r.at = "override" /\ r.game -> "archive"
      [] OTHER -> "done"

Reading(w) == req[w].at \in Layers

\* Whether what a request just read is written out under the root.  The first
\* does it for every layer.
ExtractsEveryRead(w) == Extracts
ExtractsRead(w) == Extracts /\ At(w, "archive")

\* extract_file hands the write to the blocking pool and does not wait.
Spawn(p) ==
    \E s \in Slots \ DOMAIN writes : writes' = Bind(writes, s, [path |-> p, next |-> 0])

ReadLayer(w) ==
    /\ Reading(w)
    /\ \E c \in Offered(req[w]) : Take(w, "insert", c)
    /\ IF ExtractsRead(w) THEN Spawn(req[w].path) ELSE UNCHANGED writes
    /\ UNCHANGED <<disk, cache, warming, spoiled, limits>>

MissLayer(w) ==
    /\ Reading(w)
    /\ Offered(req[w]) = {}
    /\ Go(w, AfterMiss(req[w]))
    /\ UNCHANGED <<disk, cache, writes, warming, spoiled, limits>>

\* The file is there and the read fails: logged, and on to the next layer, as
\* if it were not there.
FailLayer(w) ==
    /\ Reading(w)
    /\ Offered(req[w]) # {}
    /\ misread' = misread \cup {<<req[w].path, req[w].at>>}
    /\ Cardinality(misread') <= MaxReadFails
    /\ Go(w, AfterMiss(req[w]))
    /\ UNCHANGED <<disk, cache, writes, warming, spoiled, mishaps>>

\* A file over its share of the budget is not kept, and an older entry under
\* its key stays.
Insert(w) ==
    /\ At(w, "insert")
    /\ \E c \in req[w].got : Cache!Put(KeyOf[req[w].path], c) \/ UNCHANGED cache
    /\ Go(w, "done")
    /\ UNCHANGED <<disk, writes, warming, spoiled, limits>>

Reply(w) ==
    /\ At(w, "done")
    /\ req' = [req EXCEPT ![w] = Idle]
    /\ UNCHANGED <<disk, cache, writes, warming, spoiled, limits>>

\* Other keys push entries out.
Evict ==
    /\ Cache!Drop
    /\ UNCHANGED <<disk, req, writes, warming, spoiled, limits>>

-----------------------------------------------------------------------------
(* write_extracted, on the blocking pool.                                  *)

\* create_dir_all, then the open and truncation of std::fs::write.
OpenExtracted(s) ==
    /\ s \in DOMAIN writes /\ writes[s].next = 0
    /\ disk' = Bind(disk, writes[s].path,
                    [path |-> writes[s].path, from |-> "archive", has |-> {}])
    /\ writes' = [writes EXCEPT ![s].next = 1]
    /\ UNCHANGED <<cache, req, warming, spoiled, limits>>

\* A read-only root fails every one of them, before it changes anything.
OpenFails(s) ==
    /\ s \in DOMAIN writes /\ writes[s].next = 0
    /\ writes' = Without(writes, {s})
    /\ UNCHANGED <<disk, cache, req, warming, spoiled, limits>>

\* The last piece of a file.  The first stops one short.
LastChunkShort(n) == n >= ChunkCount - 1
LastChunk(n) == n >= ChunkCount

WriteChunk(s) ==
    /\ s \in DOMAIN writes /\ writes[s].next > 0
    /\ disk' = [disk EXCEPT ![writes[s].path].has = @ \cup {writes[s].next}]
    /\ writes' = IF LastChunk(writes[s].next) THEN Without(writes, {s})
                 ELSE [writes EXCEPT ![s].next = @ + 1]
    /\ UNCHANGED <<cache, req, warming, spoiled, limits>>

\* A full disk: reported, and the part already written stays.
WriteFails(s) ==
    /\ s \in DOMAIN writes /\ writes[s].next > 0
    /\ mishaps < MaxMishaps
    /\ mishaps' = mishaps + 1
    /\ writes' = Without(writes, {s})
    /\ spoiled' = spoiled \cup {writes[s].path}
    /\ UNCHANGED <<disk, cache, req, warming, misread>>

-----------------------------------------------------------------------------
(* The process.                                                            *)

\* warm_cache, one archive file: read and inserted, whatever the layers above
\* the archives have.
Warm(p) ==
    /\ p \in warming
    /\ Cache!Put(KeyOf[p], Whole(p, "archive")) \/ UNCHANGED cache
    /\ warming' = warming \ {p}
    /\ UNCHANGED <<disk, req, writes, spoiled, limits>>

\* Killed, or process::exit at the end of the shutdown delay, and started
\* again.  The files under the root are all that is left.
Restart ==
    /\ mishaps < MaxMishaps
    /\ mishaps' = mishaps + 1
    /\ cache' = [k \in {} |-> k]
    /\ req' = [w \in Workers |-> Idle]
    /\ writes' = [s \in {} |-> s]
    /\ warming' = WarmPaths
    /\ spoiled' = spoiled \cup {writes[s].path : s \in {t \in DOMAIN writes : writes[t].next > 0}}
    /\ UNCHANGED <<disk, misread>>

Next ==
    \/ \E w \in Workers, p \in Paths, game \in BOOLEAN : Arrive(w, p, game)
    \/ \E w \in Workers : LookUp(w)
    \/ \E w \in Workers : ReadLayer(w)
    \/ \E w \in Workers : MissLayer(w)
    \/ \E w \in Workers : FailLayer(w)
    \/ \E w \in Workers : Insert(w)
    \/ \E w \in Workers : Reply(w)
    \/ Evict
    \/ \E s \in Slots : OpenExtracted(s)
    \/ \E s \in Slots : OpenFails(s)
    \/ \E s \in Slots : WriteChunk(s)
    \/ \E s \in Slots : WriteFails(s)
    \/ \E p \in Paths : Warm(p)
    \/ Restart

Spec == Init /\ [][Next]_vars

-----------------------------------------------------------------------------
(* Properties.                                                             *)

\* Every variable has its type; in particular every file under the root is
\* the host's or an extraction, and every answer is some layer's content.
TypeOK ==
    /\ DOMAIN disk \subseteq Paths /\ \A p \in DOMAIN disk : disk[p] \in Content
    /\ DOMAIN cache \subseteq {KeyOf[p] : p \in Paths}
    /\ \A k \in DOMAIN cache : cache[k] \in Content
    /\ req \in [Workers -> Request]
    /\ DOMAIN writes \subseteq Slots
    /\ \A s \in DOMAIN writes : writes[s] \in [path : Paths, next : 0 .. ChunkCount]
    /\ warming \subseteq WarmPaths
    /\ spoiled \subseteq Paths
    /\ misread \subseteq Paths \X Layers
    /\ mishaps \in Nat

\* The layer that has the path first, in the order of resolve_with.
Best(p, game) ==
    IF p \notin PublicPaths THEN {}
    ELSE IF p \in RootFiles THEN {"root"}
    ELSE IF game /\ p \in ClientFiles THEN {"client"}
    ELSE IF p \in OverrideFiles THEN {"override"}
    ELSE IF game /\ p \in ArchiveFiles THEN {"archive"}
    ELSE {}

\* Nothing the code lets disturb the order of layers happens to a path: no read
\* of it has failed in any layer, which sends the request on to the next one and
\* may extract what that has; the warm-up, which looks in the archives only, does
\* not cache it over a better layer; nor does a remote request, which looks in
\* the override directory but not in the client's.
Undisturbed(p) ==
    /\ \A layer \in Layers : <<p, layer>> \notin misread
    /\ p \in WarmPaths => Best(p, TRUE) = {"archive"}
    /\ RemoteGrfData \/ Best(p, TRUE) # {"client"} \/ Best(p, FALSE) = {}

\* Every answer, the cached ones and those from an extracted copy included,
\* comes from the layer that has the path first, and a path some layer has is
\* never answered with "not found", whatever happened to extractions of it and
\* whatever was misread or warmed at other paths (README: "Resolution checks the
\* memory cache, app-owned loose files, the selected namespace folder, the
\* translation override, then the GRFs").
PrecedenceHolds ==
    \A w \in Workers : At(w, "done") /\ Undisturbed(req[w].path) =>
       LET r == req[w] IN
       /\ {c.from : c \in r.got} = Best(r.path, r.game)
       /\ \A c \in r.got : c.path = r.path

\* An answer has all the bytes of its file.
WholeFiles ==
    \A w \in Workers : At(w, "done") => \A c \in req[w].got : c.has = Chunks

\* With REMOTE_GRF_DATA=false a remote request is never answered from an
\* archive or a client directory, not by way of the cache or of an extracted
\* copy either (the doc of resolve_with).
RemoteOnlyHostFiles ==
    \A w \in Workers : At(w, "done") /\ ~ req[w].game =>
       \A c \in req[w].got : c.from \in {"root", "override"}

\* A file of the host stays what the host made it until a read of that very
\* file fails, whatever is misread elsewhere: extraction only ever writes where
\* the root had no file, or none that could be read.  Once it has failed the
\* archive's copy may be written over the host's file for good, which resolve_with
\* does nothing against.
HostFilesKept ==
    \A p \in RootFiles :
       <<p, "root">> \in misread \/ (p \in DOMAIN disk /\ disk[p] = Whole(p, "root"))

\* However many extractions of one path overlap, once none of them is writing
\* the file is whole, unless one was cut short.
QuietDiskWhole ==
    \A p \in DOMAIN disk \ spoiled :
       (\A s \in DOMAIN writes : writes[s].path = p => writes[s].next = 0)
          => disk[p].has = Chunks
=============================================================================
