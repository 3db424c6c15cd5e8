# Verification of the roBrowser remote client

TLA+ models of the asset server in this repository (`src/`, a Rust program:
45 files, about 7000 lines in `src/src/*.rs`), TLC configurations that check them on
small instances, and TLAPS proofs of the properties that matter most, for every
value of the constants. `PROJECT.json` lists each definition with the lines of
code it stands for, each run, each theorem and each hazard.

## 1. The system

One process serves a browser game client: files out of GRF archives, loose
files, a WebSocket-to-TCP proxy to the game servers, and a relay to an
application backend. tokio's runtime runs one task per connection; file work is
done on its blocking pool. There are no locks held across an `await` except the
proxy's mutex around the client's sink, so almost every hazard is an
interleaving of several tasks, each correct alone.

| Component (code) | State it keeps | Operations | Meets |
|---|---|---|---|
| File cache (`cache.rs`) | `map`, `order`, `current_memory`, `next_seq` under one mutex; a `OnceLock` per file and coding | `get`, `insert`, `add_encoding`, `evict_oldest` | every request; `Client::encoded` |
| Asset resolution (`client.rs`) | the cache, the files under the served root | `resolve_with`, `get_file(_with)`, `extract_file`, `write_extracted`, `warm_cache` | cache, file system, archives, itself through the extracted files |
| Missing-file log (`client.rs`) | a ring of 1000 entries, a `seen` set, a cooldown | `log_missing`, `append_missing_log` | every 404 |
| Listing and search (`client.rs`) | none | `list_files`, `search` | index |
| Asset index (`index.rs`, `encoding.rs`) | a map built once, four spellings per name | `build`, `lookup` | archives in DATA.INI order |
| GRF archives (`grf.rs`, `grf_protected.rs`) | the file table and the archive keys, built once | `open`, `read_entry`, `decode_entry` | numbers an archive says of itself |
| Ciphers (`des.rs`, `grf_ciphers.rs`) | none | decode | archives |
| WebSocket proxy (`wsproxy.rs`) | per connection: pending queue, two pumps, the shared sink | connect, buffer, drain, pump, close | browser, game server |
| Process life and control (`main.rs`, `managed.rs`) | the `shutdown` watch channel, 8 permits, a timer | bootstrap, start, announce, serve, stop; `status` and `shutdown` requests | parent process, OS signals |
| Routes and static serving (`routes.rs`, `http.rs`) | none of their own; per request what was decided before an await | two middlewares, `serve_path`, `serve_static`, the JSON endpoints; validators, coding negotiation, CORS | everything above, the built client on disk, browsers and caches |
| App proxy (`appproxy.rs`) | per request: a socket, a buffer, a deadline | relay | backend |
| Configuration, validation (`config.rs`, `validator.rs`) | read once | `from_env`, `parse_data_ini`, `validate_and_load` | startup |
| Path confinement (`util.rs`), logger | none | `safe_join`, `public_asset_path`, `info!` | everything |

### How they interact

* A request (`routes.rs`) asks `Client::cached` on the async side; on a miss it
  goes to the blocking pool, asks the cache again, and then the layers: files
  under the root, the selected client directories, the override directory, the
  archives. What it reads goes into the cache. A read from the archives is also
  handed to a *separate* task that writes the file under the root, where the
  *next* request finds it as a loose file, in a higher layer than it came from.
* The response may need an encoding of the file. It is made outside the cache's
  lock and charged to the entry afterwards, if that entry is still the same one.
* At startup `validate_and_load` opens the archives in the order of DATA.INI; any
  error it records ends the process. `AssetIndex::build` then merges their names, and
  resolution climbs a ladder of spellings in it.
* A request passes two middlewares, one that decides once whether it may have game
  data, one that answers `OPTIONS` and adds CORS headers to what comes back. Between
  them and an asset lies the built client, a directory that a build may replace under
  the server, and whose files a browser revalidates for as long as it keeps them.
* Shutdown is one watch channel with three writers (control socket, stdin
  thread, and beside it the OS signals), one reader (the future given to
  `axum::serve`), and a timer that only the reader starts.

### What is hard, and what makes each part correct

* **Cache.** Two indexes of one set and a redundant byte count; charging late,
  when the entry may be gone, replaced or already charged. Correct: the indexes
  are inverse, the count is the sum, both limits hold at every unlock, an
  encoding is charged once, and what is evicted is the least recently used and no
  more than needed.
* **Resolution.** Truncate-then-write beside readers; the cache is filled by
  requests of different privileges and by the warm-up; what an extraction leaves
  behind survives a crash. Correct: an answer comes from the best layer that
  has the path, never shows a remote client what it may not have, and a host's file
  that can be read is never changed. (That an answer is whole would be a fifth
  property; the code does not give it, see section 3.)
* **Proxy.** Cancellation at any await, backpressure, hang-ups at every phase.
  Correct: bytes keep their order with nothing repeated; the two sides are torn
  down once; a client that is there gets a Close frame.
* **Process.** A stop may come before anyone waits for it; the parent may die and
  take stdout along; control clients may be silent or stale. Correct: only an
  authentic cause stops it, and every cause does, in bounded time.
* **App proxy.** A target that answers in pieces cut anywhere, announces a length
  twice or wrongly, never closes, or resets. Correct: what is passed on is
  whole, what is whole is passed on, and a request is answered in bounded time.
* **Missing log.** A ring beside a set that outlives it; a mutex held while an alert
  is printed; a file appended to after the mutex. Correct: the summary is the
  latest misses, a path is logged once, every miss is counted, alerts are spaced.
* **Static serving.** Metadata, siblings and bytes are read at three moments, and
  validators outlive many builds. Correct: a 304 never confirms older code than the
  file that was looked at, code never goes back, a coding is chosen that the client
  takes, caches on the way are told what an answer depends on.
* **Game data.** One decision, five handlers. Correct: with `REMOTE_GRF_DATA=false` no
  answer to a remote request has bytes or names of the archives.
* **Catalog.** An order given by a file people edit, an encoding that is guessed, four
  keys per file each won by whoever came first. Correct: archives load in the order
  given, a server never starts with a part of them, and a spelling leads to the first
  file that has it.
* **Archives.** Every length comes out of the archive. Correct: no read and no slice
  outside what is there, no buffer beyond its limit, and what is read has its
  declared size.

## 2. The modules

| Module | Models | Proofs |
|---|---|---|
| `FileCache` | `cache.rs`, with `Client::encoded` as its caller | `FileCacheProofs` |
| `LruCache` | abstract: keys in the order of their use, the oldest let go of | refined by `FileCache` (theorem `CacheIsLru`, run `file_cache`) |
| `Stream` | abstract: one direction of a connection, bytes handed over in order and never taken back | refined twice by `WsProxy` (theorem `ProxyIsTwoStreams`, run `ws_proxy`) |
| `KeyedCache` | abstract: under a key is what was last put, or nothing | refined by `FileCache` (theorem `CacheIsKeyed`), used by `AssetStore` |
| `AssetStore` | resolution, extraction, warm-up, restart | `AssetStoreProofs` |
| `WsProxy` | one proxied connection with both peers | `ProxyProofs` |
| `ManagedProcess` | `run()`, the control socket, the timer, the parent | `ManagedProcessProofs` |
| `MissingLog` | the record of files not found, and its file | `MissingLogProofs` |
| `AppProxy` | one request handed on to the application backend | `ProxyProofs` |
| `Routes` | middlewares, `serve_path`, `serve_static`, JSON endpoints, with a builder and browsers | `RoutesProofs` |
| `HttpCoding` | `http.rs` as operators: codings, validators, cache headers, CORS | through `RoutesProofs` |
| `Catalog` | startup checks, DATA.INI, name encodings, the index and the ladder of spellings | `CatalogProofs` |
| `GrfReader` | opening an archive and reading an entry, protected ones included | `GrfReaderProofs` |
| `MC…` | instances: symmetry, model values | |

**Composition.** `AssetStore` does not repeat the cache's bookkeeping: it is built
on `KeyedCache`, and `FileCacheProofs!CacheIsKeyed` proves that `FileCache`
implements `KeyedCache`. What the proofs about `AssetStore` assume of the cache is
what the cache's code has been shown to give. `LruCache` is the same cache's other
promise, about what it lets go of. It has no sequence numbers, no byte count and no
loop: an order on keys, the bytes charged to each, and for a step that makes room the
largest newest part that fits (`Trimmed`). The mapping (`Older`, `Charged` in
`FileCache`) reads the order off `order` and the bytes off `map`.

**`FileCache`.** `map`, `order`, `current_memory` and `next_seq` are the fields of
`Inner`; `slot` is the `OnceLock` of every `Arc<Encodings>`, named by the sequence
number of the insert that made it; `held` and `made` are what a worker has in its
hands between two locks. One action per locked section: `GetHit`, `GetMiss`,
`InsertKept`, `InsertOversized`, `AddEncoding`; `Encode` is the work done outside
the lock; `Release` drops the file. The loops of `evict_oldest` are not recursion
but a choice of the sequence number at which the loop stops (`LoopStops`): its
condition holds there and at no smaller number of evictions.

**`AssetStore`.** One action per step that another task can see: two looks in the
cache, one read per layer, the insert, the reply; the open and each piece of a
write; each file of the warm-up; a restart. A content is a record of its path, the
layer it came from and which pieces are there, so that a torn or a misplaced answer
can be told from a good one. `spoiled` and `misread` are history variables: paths whose
extraction was cut short by a full disk or the end of the process, and files, a path
and a layer each, a read of which has failed. A read that fails sends the request on as if the
file were not there (`FailLayer`); an oversized file is not cached and leaves an older entry under
its key in place (`Insert`). `Undisturbed(p)` says of a path that none of the three things
the code lets disturb the order of layers happened to it: no read of it failed, the warm-up does
not cache it over a better layer, and no remote request caches it over a client directory.

**`WsProxy`.** `phase` is where `proxy()` is. `tokio::select!` is the interleaving
of its two sides, with `End` dropping the loser in whatever state it has, including
bytes read and not sent, and the mutex it may hold. Streams are numbered byte by
byte. Backpressure is `TcpBuffer` and `WsBuffer`. A message without a byte takes a place
of the queue like any other. The peers are external and
may do what they like.

**`ManagedProcess`.** `stage` is where `run()` is. `shutdown` is the watch channel.
A control connection is queued, handled (it has a permit), then answered or
gone; its message is a record of the checks it passes. `http` counts the connections that
speak HTTP, `sockets` those upgraded to WebSockets. The graceful end of `axum::serve` waits for the
first only: an upgraded connection has left the server's hands, and `Exit` cuts it off on
every path, the graceful one included. (The comment at `main.rs:234` has the timer for the
WebSockets; what the timer bounds is HTTP connections that do not finish.) `info!` is `println!`, which
panics on a closed stdout: `Announce`, `Serve` and `BeginStop` model what the
panic does there. (Elsewhere, in the tasks of the proxy, a panic ends one
task, as a hang-up does.)

**`AppProxy`.** `at` is where `relay()` is. An answer is abstracted to the size of
its head, what the head says (`status`, `chunked`, the `Content-Length` lines in
their order) and how many bytes follow; every count is a prefix of it.
`is_complete` and `parse_response` read the lengths differently (the first that
can be read; all of them, cutting the body again and again), and each is translated
on its own (`IsComplete`; `Cuts`, `CutTo`, `Readable`). The sum in `is_complete` is one of
`usize` and wraps (`EndOfBody`, `UsizeLimit`). A target that closes with
unread data, or is written to after it closed, resets, and a reset may take along
what waits in the relay's socket.

**`MissingLog`.** `seen`, `entries` and `lastAlert` are the fields of `Missing`. The
locked section of `log_missing` is one action, in three cases (`RecordKnown`,
`RecordQuietly`, `RecordAndAlert`); the append after it is one action per write,
because `writeln!` hands the line and its newline to the unbuffered file apart. A
print to a closed output panics: `RecordAndAlert` then poisons the mutex,
`LockFails` is every later request's `unwrap`, and `Abandon` is the panic of `debug!`
as well as a file that cannot be opened or written. `recorded`, `alerts` and `cut`
are history variables.

**`Routes`** and **`HttpCoding`**. `req[c]` is what a handler has in its hands for a
client: where it is (`at`, one value per await), the metadata and the fresh siblings it
has seen, the answer. `serve_static` is five actions, `ReadMetadata`, `LookForSibling` (twice),
`Decide`, `ReadFile`; between any two the builder may replace, compress or remove a
file. A file is the version of the code in it and its modification time; a version is what
a content hash would tell apart and the code's validators (length and time) have to.
`held[c]` is what a browser keeps, with the validators it was given. The browser and
the builder are external: a builder replaces a file whole and then compresses what it
has written, which is what a bundler with a compression plugin does. `serve_path`'s order of
branches is that of `Dispatch`, which also has the router's exception, a `POST /` for the search;
a read that fails falls through as in the code, that of a generated file included.
Pure decisions are operators of `HttpCoding`: an `Accept-Encoding` header is the
sequence of its items, each a name and what its `q` comes to. What is compressed on the fly is
judged by its content type alone (`ByContentType`), what an asset is compressed for by its
extension, too (`IsCompressible`).

**`Catalog`.** `stage` is where startup is. DATA.INI is read line by line (`Header`,
`Listing`), archives are opened one after the other with any names (`OpenGrf`) or not
(`OpenFails`), then `IndexFile` indexes one file per step. A letter stands for a whole name
and functions say what lower-casing and the codecs make of it; separators are kept apart, as
normalising them is what the index does. `Resolve` is the ladder of `resolve_with`.

**`GrfReader`.** Numbers have their widths (`Byte`, `Word`, `Long`) and sums of `u64` wrap as
in a release build (`Plus`). A table is walked for its geometry, one entry per step; a
slice is a length and two indexes, a buffer its size; the list made beforehand for the entries
a header counts is bounded through the count. What inflating, deciphering and
hashing do is to succeed or fail. `decode_entry`'s stages are in the code's order, because
each check protects the slices after it.

An operator written directly before another, with a comment such as "the first
forgets …", is a deliberate variant of the one that follows it. The mutants in
`PROJECT.json` swap it in, to show that the property it is paired with would
notice the bug.

## 3. The runs

| Run | Question | Result |
|---|---|---|
| `file_cache` | Do the indexes, the byte count and both limits hold for two workers with encodings charged late, and is it an LRU cache? | holds, 0.2M states |
| `asset_extract` | With extraction, overlapping writes, a read that fails, and a failed write or a restart: precedence, host files, whole files | holds, 3.3M states |
| `asset_remote` | Can a remote request see archive data when `REMOTE_GRF_DATA=false`, with every other feature on, and does the order of layers hold for local and remote requests through one cache? | no; holds; 2.7M states |
| `ws_proxy` | Order, loss, close frames, teardown in every interleaving; is each direction a stream? | holds, 0.3M states |
| `managed` | Causes of a stop; does every cause end the process, whatever stays open, and does every permit come back? | holds, while the output is read or the HTTP connections end; 38k states |
| `app_proxy` | Is what is passed on whole, what is whole passed on, and every request answered? | holds, 10k states |
| `missing_log` | Summary, file and count with two tasks, a ring that forgets and an output that closes | holds, 0.1M states |
| `routes` | Is a 304 ever about other code than the client's, is a coding ever unwanted or untold, does game data ever leave, with a builder at work between any two awaits? | holds, 1.2M states |
| `catalog` | Do archives load by number and a partial catalog never start, and does every spelling lead to the first file that has it? | holds, 0.2M states |
| `grf` | Does any archive make the reader go outside it, panic, or ask for too much? | holds, 42k states |
| `managed_orphan`, `catalog_browser` | statements of the docs and comments that the code does not keep | violated, see below |

Type invariants are theorems (`...TypeCorrect`), and so are two simple bounds, on the
control connections handled at once and on the time between alerts; the runs do not
repeat them.

### Findings

1. **`managed_orphan`** (`main.rs:233`). After a crash of the parent its end of stdout
   is closed; printing "Shutting down." panics before the five-second timer is
   spawned, and a connection that stays open holds the process for good.
   `StdinStops` is what does hold: it ends at the latest with the connections that speak HTTP;
   WebSockets do not hold it. The trace: announce, parent leaves, end of stdin, panic in the
   shutdown future, one HTTP connection that stalls and never ends.
2. **`catalog_browser`** (`index.rs:38`). The index lower-cases the mojibake spelling too,
   whose letters are the bytes of CP949. `À`-`Þ` become other bytes: 걷 (B0 C8) and 계
   (B0 E8) share a key, and of two files that differ in such a pair only the first
   can be had in the browser's spelling. About half of the 2350 syllables of KS X 1001
   and their extensions have such a partner. Lower-casing the ASCII letters alone
   would tell them apart.

### More things the models show

No run is spent on these; where an operator is named, checking it under the stated
conditions shows the behaviour. Seven of the hazards in `PROJECT.json` are among them, and have no
property: the torn answer, the extraction that fails half way, two entries on one line, the
poisoned mutex of the missing log, the end of a server's stream, the DATA.INI that is not UTF-8
and `Vary` after CORS. The code does in each what the hazard says, so what could be stated
does not hold; the properties beside them leave the case out by name and do not cover it.

* **A torn answer** (`client.rs:495`). An extraction truncates and writes in place,
  and a request that finds the file meanwhile answers with a part of it, and caches
  that part under its key. (`WholeFiles` fails: a read of `disk` between two `WriteChunk`s.)
* **A host's file overwritten** (`client.rs:227`). One failed read of a host's loose file
  lets the archive's copy be served and written over it, for good. `HostFilesKept` and theorem
  `HostFilesAreKept` say that there is no other way: without the disjunct that names the failed
  read the property fails in `asset_extract`.
* **The warm-up before the override** (`client.rs:461`). It caches archive copies of
  files the override directory has; requests ask the cache first. (`PrecedenceHolds` without
  the second part of `Undisturbed`, with an overridden file among `WarmPaths`.)
* **Two entries on one line** (`client.rs:404`). `writeln!` hands an entry and its newline to an
  unbuffered file apart, so two requests that miss at once may put both entries on one
  line of a file said to be JSON lines (`LogIsLines` fails).
* **An extraction that fails half way** leaves a part of the file, which beats the archive
  from then on, also after a restart, although the server reports "this is not fatal"
  (`client.rs:482`); `spoiled` keeps it out of `QuietDiskWhole`.
* **A DATA.INI that is not UTF-8** (`validator.rs:351-354`). `validate_required_files` only asks
  whether the file is there, so the comment "Already reported by
  validate_required_files" is not true of one that cannot be read as text: no error is
  recorded and the server starts without an archive (`IniUnreadable`, then `Decide`).
  `StartedWhole` without its premise `ini.read` fails in four steps.
* **WebSockets at the exit** (`main.rs:244`). The graceful end does not wait for upgraded
  connections, so a player's session is cut off at once when no HTTP connection is open, and
  within five seconds when one is (`Drained`, `TimerFires`): there is no property that nothing is
  cut off.
* **`Vary` after CORS** (`http.rs:424`). For a known origin `Vary: Origin` replaces
  `Vary: Accept-Encoding`, against the comment at `routes.rs:538` ("every answer for this path
  says so"): a shared cache may give a coded answer to a client that refuses it.
  `StoredFitsOthers` without its first premise fails.
* **Validators** (`routes.rs`). `If-Modified-Since` is honoured beside an `If-None-Match` that
  does not match (`Decide`); an answer that is compressed on the fly has the tag of the
  plain file (`ReadFile`); a sibling with the same modification time counts as fresh;
  and a chosen sibling that cannot be read falls through to the assets, then to 404.
  The tag of a sibling is made of the plain file's length and time, so one that is
  read while it is being written has the tag of the whole one. In the model siblings are
  replaced whole, so it does not show this.
* **`accepts_gzip`** (`http.rs:93`) takes any item that begins with "gzip", whatever its `q`:
  answers compressed on the fly are outside `NegotiatedIsWanted` for that reason.
* **A listed name that leads elsewhere** (`index.rs:71-85`). `names()` lists a file that won any key,
  which need not be a spelling of its own name: when an earlier file's mojibake is that
  name, the listing has a name that gets the earlier file. `ListedLeads` holds where no
  archive names a file so (`NoNameIsMojibake`), and only there.
* **Stored entries cut short** (`grf.rs:700`, `grf.rs:768`). An entry whose `length_aligned` is less
  than its size, or 0, is served short, or empty, without an error; `SizesDeclared`
  names both cases.
* **A table past the end** (`grf.rs:572`). Were the comparison `Fits` left out, the read itself would
  still fail, but with the buffer already made: what the code rests on it is the bound of the
  buffer, and the exact sum. The mutant of `TableInside` takes what a read finds for the table.
* A write to a game server that has hung up ends both pumps, with the server's last bytes
  unread or unsent (`wsproxy.rs:123`). `ClientSeesStream` allows it: no doc promises the end of a
  stream. An alert that cannot be printed poisons the mutex
  of the missing log, and `/api/missing-files` panics from then on (`client.rs:375`).
* A remote request under `REMOTE_GRF_DATA=false` skips the client directories but puts
  what it found under the common key, so a local request may be answered from the override
  directory although the client directory has the file (`client.rs:188`); the third part of
  `Undisturbed` is about it.
* A loose file that the host edits while the server runs goes on being answered from the cache
  (`client.rs:136`): the code has no invalidation and no doc promises one for assets, so
  there is no property to state.
* The comment at `cache.rs:185` ("it was just used, so it is the newest") is not always
  true of the entry being grown; taking it out of the order while room is made is
  what keeps it safe, and `WithinLimits` and `ImplementsLru` cover it.

### Bounds, and why they are enough

* `file_cache`: three keys, two entries, six bytes, files of 2, 3 and 7 bytes, one
  byte of encoding, `next_seq` up to 4. Both limits bind (three keys over two entries;
  a grown entry and a file of 3 do not fit), one insert can evict two entries, and
  two workers are what it takes to replace, evict or encode what another holds. The
  theorems have none of these bounds.
* `asset_extract`: a host's file that an archive has as well, and one that only an archive has; two
  requests and two extractions, so that every pair of a reader and a writer and of two
  writers of one path occurs; two pieces are the least with a torn state. One file whose read
  fails (`MaxReadFails`), as often as it is read: the host's, which is then overwritten, or an
  archive's. One failed write or one restart (`MaxMishaps`) suffices to leave damage behind.
* `asset_remote`: one path for each set of layers that can hold it: the host's, a client
  directory's with and without an override below it, overridden, archive only and warmed up, not
  public; a local and a remote request, or two of a kind, at once; one file whose read fails, one
  restart.
* `ws_proxy`: `MaxPending` 2 with up to five client bytes, so the queue overflows in
  the middle and messages follow; reads shorter than what is there; one
  message of backpressure towards the client and two bytes towards the server.
* `managed`: two connections for one permit, so one waits for the other; one
  message per failing check, two open connections, so that an HTTP connection and a WebSocket may
  stay open beside each other, one failure of `accept`. One
  socket may fail in its `shutdown` after its reply; the parent then has an answer
  and the process goes on, which `AnsweredStops` has as a premise.
* `missing_log`: two tasks and three paths over a ring of two and a summary of one, so
  both limits bind, a path that fell out of the ring is missed again, and two tasks miss
  the same path; an alert from the second entry on, with time for two.
* `app_proxy`: one request for each way to be refused, and bodies up to one byte
  over the limit; answers with no length, each right and wrong single length, two that
  differ in either order, one that is no number, one longer than the limit of four
  bytes, and one that wraps a `usize` of eight values around; reads of up to two bytes and a
  socket of three, so that the head, each length and the limit are crossed inside a read as
  well as between two.

* `routes`: one remote client and one file of the built client with both siblings; two builds and
  three moments in two seconds with a gap of one second between builds, the least in which a
  validator can be older than, as old as, and newer than the file. A client keeps one answer. Two
  headers, one that takes either coding and one that refuses brotli and takes the rest
  by a wildcard. The home page is a generated file, and one whose read may fail. Every
  request is alone in what it reads (`req` and `held` of other
  clients are read by none), so a second client adds nothing but states; the theorems have
  any number.
* `catalog`: up to four lines of DATA.INI in two sections, two archives, a number that is
  missing, repeated, above or below the one made up; three files with names that collide
  by case, by separator, by encoding and by mojibake.
* `grf`: the layout's own constants with words of 16 bits and longs of 25, limits of two
  entries, 330 bytes of table and 60 of output; numbers at zero, at each limit, one beside
  it, and at the end of their width, so that sums run over it.

### Fairness

Safety runs assume none; `FileCache`, `AssetStore`, `Routes`, `Catalog` and `GrfReader` state no
liveness: each of their steps ends on its own, and none waits for another.

* `WsProxy!Fairness`: weak fairness on each step of the proxy's own task, because
  tokio polls what is ready, and on the peers' taking what they are sent. The last is
  an assumption: with a server that stops reading and never closes, `write_all`, and
  the connection, wait on it, and the code has no timeout there. Nothing is assumed of
  the peers' sending, hanging up or closing.
* `ManagedProcess!Fairness`: weak fairness on the startup (but not on the bootstrap
  line while stdin is open, as the parent may never send it), on the steps of
  stopping, the timers, the stdin thread and the tasks of the control socket. Nothing
  is assumed of control clients, HTTP peers or the parent.
* `AppProxy!RelayFairSpec`: weak fairness on the deadline's `Timeout` alone. Nothing is
  assumed of the client or the target, so a client that stalls while it sends its body
  is never answered; `Answered` starts at the connect, where the code's timeout starts.

## 4. What is proved

All of it by TLAPS, for every value of the constants the named assumptions admit.

**`FileCacheProofs`** (`ConstantsAssumption`: a share of at least a half,
everything else any natural number). `TypeOK`, `OrderMatchesMap`, `MemoryAccounted`,
`WithinLimits` and `EncodingCountedOnce` are not inductive one by one: that an
insert does not break the limits needs the count to be the sum, and that an encoding
is charged once needs to know who holds it. The invariant `IInv` adds

* `EntriesFresh`: an `Arc` names one insert, cached under one key, within its share;
* `HeldMatches`: a worker's file is the cached one whenever their `Arc`s agree;
* `ChargePending`: an encoding not yet charged is in the slot of its `Arc`, is smaller
  than the file, and only one worker will charge it.

There is one lemma per action. The sums are cardinalities of sets of named bytes
(`BytesOf`), so the arithmetic rests on the library's facts about finite sets and not
on a recursive sum. `KeptTwiceFits` is where the share matters: an entry grown by its
encoding is less than twice a kept file, so it fits an empty cache, and the loop of
`add_encoding` need never evict the entry it grows. `CacheIsKeyed` shows that
every step maps to a put, a drop or a stutter of `KeyedCache`.

`CacheIsLru` is the refinement of `LruCache`: a hit is a `Use`, a kept insert a `Store`, a
growing `add_encoding` an `Enlarge`, anything else a stutter. `OlderBySeq` turns the mapped order
into a comparison of sequence numbers. The core is `CutsAreRests`: when the loop stops at
`c`, what is left is newest-first, and every larger newest part of the entries is what was
left at some earlier `d`, the least sequence number in it. There the loop saw no room, so by
`BytesAreMemory` and `MemoryLeft` that part did not fit: no more went than had to. What an
encoding costs is a length gzip produces, which is a small invariant of its own
(`MadeInvariance`).

**`AssetStoreProofs`** (`LayersAssumption`).

* `StoreTypeCorrect`: the type invariant.
* `RemoteRequestsGetHostFiles`, by `RemoteInv`: with `REMOTE_GRF_DATA=false` nothing
  is ever extracted, so the root holds host files only, and a remote request is
  never at a step that looks in the cache or the archives.
* `QuietFilesAreWhole`, by `MissingCovered`: every piece a file lacks is still to be
  written by some open task on it. A truncation makes its own task that one.
* `HostFilesAreKept`, with no further assumption, by `HostInv`: beyond the root layer there is no
  request for a host's file unless a read of it failed there, so no other is ever
  extracted. `misread` only grows, which is what makes the exception last as long as the damage.
* `PrecedenceIsKept`, under `OneSpelling` (no two paths share a cache key), by `PrecedenceInv`: a
  request at a layer has missed in the layers above, or a read of its path failed in one;
  an extraction only has paths whose best layer is the archive, or misread ones; so
  whatever is read, cached or extracted for an undisturbed path is from its best layer. Warm-up,
  remote requests, failed reads and restarts are all in it. Each part of `Undisturbed` is needed:
  the host's file overwritten, the warm-up before the override, the note on `REMOTE_GRF_DATA`
  above; and so is `OneSpelling`, for two spellings with one key may name two files.

**`ProxyProofs`** on `WsProxy` (`SizesAssumption`).

* `ServerGetsStream`, by `Forward`: every byte the client sent is in one of four
  places (written, being written, buffered, on its way), the places are passed in
  order, and below any byte that is somewhere no byte is missing except the dropped
  ones. The order between the places is what makes the switch from the buffer
  to the pump safe, and it needs `pending = <<>>` while pumping. Sums of lengths would
  not do, as messages are dropped from the middle and the tail may be lost with
  the client; order and the absence of gaps are stated on sets of bytes, and a few lemmas
  (`QueueTail`, `QueueAppend`, ...) say what taking and adding a message does to them.
* `ClientGetsStream`, by `Backward`: the three places of the other direction add up to
  what the server sent.
* `ProxyIsTwoStreams`: each direction is a `Stream` (`Upstream`, `Downstream`), which says of steps
  what the invariants above say of states: what was handed over is only added to, and
  bytes are given up only while the receiver has none. `Messages` is what that needs besides
  `IInv`: a message is one stretch of the stream, and nothing is written while connecting.
* `ClientIsClosedOnce`: no frame is sent before the last step, and only a client
  that has left goes without.

**`ManagedProcessProofs`** (`ManagedAssumption`).

* `ProcessStopHasCause`: the watch channel is `true` only for a cause, and causes last:
  an answered request stays answered, a closed stdin stays closed.
* `ProcessControlBounded`: a connection is taken from the queue only when fewer are
  handled than there are permits, by the cardinality of a set with one element added.

**`MissingLogProofs`** (`SizesAssumption`, and a newline is no path).

* `SummaryShowsLatest`, by `RecordedOnce` and `RingIsEnd`: the ring is the end of the
  history, entry by entry; the rest is arithmetic on two suffixes.
* `PathsAreLoggedOnce`, by `LinesOnce`: a task on its way to the file is the only one
  with its path, and its line is not there yet. `seen` is what makes it the only one,
  also after the ring has forgotten the path.
* `MissesAreOnRecord` and `AlertsKeepCooldown`, where the last alert is shown to be the latest.

**`ProxyProofs`** on `AppProxy` (`RelayAssumption`).

* `RelayPassesWholeAnswers`: `ReadableIsWhole` shows that the repeated cuts of
  `parse_response` leave the smallest length and that it is there. For an answer
  without a length `NoneLost` is needed: without a reset, what was read and what waits
  is all that was sent, so the end of the stream is the end of the answer.
* `RelayKeepsAnswersInHand`, by `NotComplete`: while the relay reads on, what it has
  is not complete by the first length that can be read, so it is not by all of them.

**`RoutesProofs`** (`RoutesAssumption`; `BuildsAssumption`: two builds of a file do not fall
into one second). The seven theorems share one invariant, `IInv`:

* `DiskInv`, about files: `Claim(t, v)`, that version `v` of a target is no newer than what is
  there, and `Dated(p, v, at)`, that whatever is newer than `v` was written at least a build's gap
  after `at`. `Older` is the comparison of one record with one other; it is what makes an
  order of modification times one of versions, which `fresh_siblings` and both validators
  rely on.
* `Seen`: what a request saw keeps being claimed and dated while the builder goes on, and
  siblings it found fresh are not older than the metadata it read first.
* `Conditional`: the validators of a request are those of what its client keeps.
* `Good`: a 200 that may be kept is claimed and dated by its own headers and not older than what
  it replaces, and a 304 `Confirms` what is held: by version for the built client, by tag for
  assets.

There is one lemma per action; `WriteStep` is the common part of a build and a
compression, and shows that neither disturbs a claim or a date. `AcceptedIsAdmitted` is about
headers of any length, with the least and the greatest index of a set from well-foundedness.
`NoStale304` says of a date what only holds between builds a second apart; without
`BuildsAssumption` TLC finds a build in the same second confirmed.

**`GrfReaderProofs`** (`WidthAssumption`: the longest sum of a header's fields fits a `u64`;
`ValuesAssumption`: every number an archive says has its width). `Placed` is the
strengthening for `TableInside` (which of the comparisons of `open_with_encoding` were
passed at each stage), `Keyed` says that the key block behind the table is in the archive too, and
`Payload` carries the sizes of an entry from the check in `read_entry` to the slices of
`decode_entry`. That no sum wraps before it is compared is a lemma (`Widths`), and where it rests on
a check before it, that check is cited.

**`CatalogProofs`** (`CatalogAssumption`). The invariant is `TypeOK`, `Loading`, `Indexed` and
`HangulIsRead`.

* `ArchivesLoadByNumber` and `ServerStartsWhole`, by `Loading`: what each stage of startup leaves
  for the next. `Sorted` is a stable sort stated by ranks (how many entries come
  before this one); that the ranks are a permutation, and that its result is in order and
  misses no entry, are lemmas about finite sets.
* `PathsFindFirst`, by `Indexed`: at every moment each of the four keys leads to the
  first of the files indexed so far that claims it. A rung of the ladder then finds a file
  exactly when one answers to it, and the rungs are tried in order.
* `ListedFilesLead`, under `NoNameIsMojibake`. The hypothesis is needed: a file whose name is, letter
  by letter, what an earlier file's name is when it is misread finds its own spelling taken,
  and is listed all the same when it wins its mojibake key; asked for by its name, it
  is the earlier file that comes. `MCCatalog` has the hypothesis as an `ASSUME`, so its
  names satisfy it. The other half, that a file left out
  leads back to an earlier one, needs no hypothesis (`UnlistedFilesLeadBack`).
* `HangulIsReadRight`: `sample_names` keeps a name that tells the encodings apart however many
  plain ones precede it, so both error counts are sums over a sample with such a name.

The sums are folds of the community modules. What a fold comes to is shown without
the induction theorems, by taking the least part of a sum for which a claim fails
(`SumExists`, `SumOf`, `PartsKeep`).

**Only model-checked:** liveness (`TornDown`, `AnsweredStops`, `StdinStops`,
`PermitsReturn`, `Answered`), as fairness and ENABLED are outside the prover's reach, and the two
statements that do not hold. RECURSIVE operators are out of its reach too; no module has one.

## 5. What is not modelled, and why

* Ciphers, DES, inflate, checksums: arithmetic over tables without state; test vectors are the
  better check. `GrfReader` has them succeed or fail.
* Listing and search of the client, status page, wording, logging (but for `info!` on a closed
  stdout).
* Directory indexes, percent- and form-decoding, content types and `Content-Length`: string
  work before and after the steps of `Routes`. The diagnostic endpoints are `health`'s
  like: no state, no game data.
* The tables of the codecs: `MCCatalog` has the letters that tell their cases apart.
* JSON, HMAC and hex: a control message is which check it fails.
* Path confinement (`util.rs`): `PublicPaths` and `PrivatePaths` are its outcome.
* Reading the environment: a setting is a constant of the module that depends on it.
* A builder that writes a file in place: a torn file of the built client is served torn by any
  server, and no code here handles it.
* Names under the root on a case-insensitive file system, and two spellings with one
  cache key: `KeyOf` allows them, the runs do not use it.

## 6. Plan

What is left, the behaviour that can go wrong worst first.

1. An abstract specification of an append-only record that `MissingLog` implements, and of a
   server that answers each request from its best layer, for `AssetStore` and the paths that
   are `Undisturbed`.
2. `AssetStore` on top of `Catalog` and `Routes`: what the index finds is what resolution takes as
   `ArchiveFiles`, and an answer of `Asset` is one of `get_file_with`.
3. Path confinement as operators on sequences of segments, compared with a reference definition
   of "inside the root".
4. Two spellings of one path in the runs of `AssetStore`.
