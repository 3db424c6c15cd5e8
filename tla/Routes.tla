------------------------------- MODULE Routes -------------------------------
(***************************************************************************)
(* src/routes.rs: a request through the two middlewares to its handler,    *)
(* and serve_path in full: generated files, the built client with its      *)
(* pre-compressed siblings, the root page, and assets.                     *)
(*                                                                         *)
(* A file of the built client is looked at three times with an await       *)
(* between: its metadata, each sibling's, then the bytes.  A builder       *)
(* replaces and removes files meanwhile.  A browser keeps what it is given *)
(* and revalidates it.  A file on disk is the version of the code in it    *)
(* and its modification time; a target is a path and an extension after    *)
(* it, "" or that of a sibling asked for by name.                          *)
(***************************************************************************)
EXTENDS HttpCoding

CONSTANTS Clients,
          RemoteClients,   \* those not on the host itself
          BuiltPaths,      \* files of the built client
          AssetPaths,      \* Client::get_file_with finds these,
          GamePaths,       \*   these in the archives or the client directories
          PrivatePaths,    \* public_asset_path refuses them
          GeneratedPaths,  \* the root, index.html and Config.local.js
          HomePath,        \* the empty path
          FileOf,          \* path -> File
          Accepts,         \* the Accept-Encoding headers that clients send
          Origins,         \* and their origins: "none", "known", "other"
          EnableStatic,    \* ENABLE_STATIC_SERVE
          EnableSearch,    \* CLIENT_ENABLESEARCH
          RemoteGrfData,   \* REMOTE_GRF_DATA
          SecondOf,        \* time -> the second it falls in
          BuildGap,        \* least time between two builds of a file
          ByName,          \* bounds of the model: siblings also asked for by name,
          MaxHeld,         \*   how much a client keeps,
          MaxTime,         \*   time,
          MaxBuilds        \*   and builds

Paths == BuiltPaths \cup AssetPaths \cup PrivatePaths \cup GeneratedPaths \cup {HomePath}
Times == 0 .. MaxTime
Exts == {"", "br", "gz"}
Siblings == {"br", "gz"}
Targets == Paths \X Exts

ASSUME RoutesAssumption ==
    /\ BuiltPaths \cap (AssetPaths \cup GeneratedPaths \cup {HomePath}) = {}
    /\ Accepts # {} /\ Accepts \subseteq Seq(Item)
    /\ Origins \subseteq {"none", "known", "other"}
    /\ FileOf \in [Paths -> File] /\ GamePaths \subseteq AssetPaths
    /\ EnableStatic \in BOOLEAN /\ EnableSearch \in BOOLEAN /\ RemoteGrfData \in BOOLEAN
    /\ RemoteClients \subseteq Clients /\ ByName \subseteq Siblings
    /\ MaxHeld \in Nat \ {0} /\ MaxTime \in Nat /\ MaxBuilds \in Nat /\ BuildGap \in Nat \ {0}
    /\ SecondOf \in [Times -> Nat]
    /\ \A s, t \in Times : s <= t => SecondOf[s] <= SecondOf[t]

\* Builds are so far apart that no two fall into the same second.
ASSUME BuildsAssumption ==
    \A s, t \in Times : s + BuildGap <= t => SecondOf[s] < SecondOf[t]

VARIABLES now,
          files,    \* under ROBROWSER_PATH: target -> version and mtime
          built,    \* path -> the version of its last build, the time of its last write
          req,      \* what the server is doing for each client
          held      \* what each client keeps: target -> what it was given

vars == <<now, files, built, req, held>>

Version == [v : Nat, at : Nat]
Held == [tag : SUBSET Tag, date : SUBSET Nat, coding : Codings \cup {"identity"}, v : Nat]
Steps == {"idle", "dispatch", "metadata", "br", "gz", "decide", "read",
          "root", "asset", "api", "done"}
Apis == {"list", "search", "batch", "health"}
Request == [at : Steps, method : {"GET", "HEAD", "POST", "OPTIONS"}, route : Apis \cup {"path"},
            target : Targets, accept : Accepts, inm : SUBSET Tag, since : SUBSET Nat,
            game : BOOLEAN,
            meta : SUBSET Version, fresh : SUBSET Siblings, answer : SUBSET Answer]

Idle == [at |-> "idle", method |-> "GET", route |-> "path", target |-> <<HomePath, "">>,
         accept |-> CHOOSE a \in Accepts : TRUE, inm |-> {}, since |-> {},
         game |-> FALSE, meta |-> {}, fresh |-> {}, answer |-> {}]

Path(r) == r.target[1]
Bind(f, x, v) == [y \in DOMAIN f \cup {x} |-> IF y = x THEN v ELSE f[y]]
Without(f, x) == [y \in DOMAIN f \ {x} |-> f[y]]
The(S) == CHOOSE x \in S : TRUE

At(c, step) == req[c].at = step
Go(c, step) == req' = [req EXCEPT ![c].at = step]

\* cors_middleware on the way out.  Nothing else reads the request's origin,
\* so it is not chosen before.
Answers(c, a) ==
    \E origin \in Origins :
        req' = [req EXCEPT ![c].at = "done", ![c].answer = {Cors(origin, a)}]

Init ==
    /\ now = 0
    /\ files = [t \in {} |-> t]
    /\ built = [p \in BuiltPaths |-> [v |-> 0, at |-> 0]]
    /\ req = [c \in Clients |-> Idle]
    /\ held = [c \in Clients |-> [t \in {} |-> t]]

-----------------------------------------------------------------------------
(* The surroundings: time, the builder, the browser.                       *)

Tick ==
    /\ now < MaxTime
    /\ now' = now + 1
    /\ UNCHANGED <<files, built, req, held>>

\* A build replaces a file whole; then it compresses what it has written.
Build(p) ==
    LET v == built[p].v + 1 IN
    /\ v <= MaxBuilds
    /\ built[p].v > 0 => built[p].at + BuildGap <= now
    /\ files' = Bind(files, <<p, "">>, [v |-> v, at |-> now])
    /\ built' = [built EXCEPT ![p] = [v |-> v, at |-> now]]
    /\ UNCHANGED <<now, req, held>>

Compress(p, ext) ==
    /\ <<p, "">> \in DOMAIN files
    /\ LET v == built[p].v IN
       /\ <<p, ext>> \in DOMAIN files => files[<<p, ext>>].v # v
       /\ files' = Bind(files, <<p, ext>>, [v |-> v, at |-> now])
       /\ built' = [built EXCEPT ![p] = [v |-> v, at |-> now]]
    /\ UNCHANGED <<now, req, held>>

Remove(t) ==
    /\ t \in DOMAIN files
    /\ files' = Without(files, t)
    /\ UNCHANGED <<now, built, req, held>>

\* A request through both middlewares: OPTIONS answered, the game data granted.
Grants(c) == RemoteGrfData \/ c \notin RemoteClients

Options(c, origin) ==
    /\ At(c, "idle")
    /\ req' = [req EXCEPT ![c] = [Idle EXCEPT !.at = "done", !.method = "OPTIONS",
                                             !.answer = {Preflight(origin)}]]
    /\ UNCHANGED <<now, files, built, held>>

Ask(c, r) ==
    /\ At(c, "idle")
    /\ req' = [req EXCEPT ![c] = [r EXCEPT !.game = Grants(c)]]
    /\ UNCHANGED <<now, files, built, held>>

\* For a path, a GET conditional or not on what the client holds; or for JSON.
AskPath(c, method, t, accept, cond) ==
    LET kept == {held[c][x] : x \in {t} \cap DOMAIN held[c]} IN
    /\ kept = {} \/ method # "GET" => cond = {}
    /\ Ask(c, [Idle EXCEPT !.at = "dispatch", !.method = method, !.target = t, !.accept = accept,
                           !.inm = IF "tag" \in cond THEN UNION {k.tag : k \in kept} ELSE {},
                           !.since = IF "date" \in cond THEN UNION {k.date : k \in kept} ELSE {}])

AskApi(c, route, accept) ==
    Ask(c, [Idle EXCEPT !.at = "api", !.route = route, !.accept = accept])

\* The browser keeps an answer that it may, in place of others when it has no
\* room, and a 304 renews what it has.
Keep(c, r, a) ==
    LET f == held[c]
        room == r.target \in DOMAIN f \/ Cardinality(DOMAIN f) < MaxHeld
    IN
    IF r.method # "GET" \/ r.route # "path" \/ ~ a.keep THEN f
    ELSE IF a.status = 200
         THEN Bind(IF room THEN f ELSE [t \in {} |-> t], r.target,
                   [tag |-> a.tag, date |-> a.date, coding |-> a.coding, v |-> a.v])
         ELSE IF a.status = 304
              THEN [f EXCEPT ![r.target].tag = a.tag,
                             ![r.target].date = IF a.date = {} THEN @ ELSE a.date]
              ELSE f

Deliver(c) ==
    /\ At(c, "done")
    /\ held' = [held EXCEPT ![c] = Keep(c, req[c], The(req[c].answer))]
    /\ req' = [req EXCEPT ![c] = Idle]
    /\ UNCHANGED <<now, files, built>>

-----------------------------------------------------------------------------
(* serve_path.                                                             *)

\* The router sends a POST to the root to the search.  Up to its first await
\* serve_path looks at the method and the private paths; a generated file that
\* is not there, or cannot be read, leaves the request to the places after it.
Dispatch(c) ==
    LET r == req[c]
        p == Path(r)
    IN
    /\ At(c, "dispatch")
    /\ \/ /\ r.method = "POST" /\ r.target = <<HomePath, "">>
          /\ req' = [req EXCEPT ![c].at = "api", ![c].route = "search"]
       \/ r.method = "POST" /\ r.target # <<HomePath, "">> /\ Answers(c, Status(405))
       \/ r.method # "POST" /\ p \in PrivatePaths /\ Answers(c, Status(404))
       \/ /\ r.method # "POST" /\ p \notin PrivatePaths
          /\ \/ r.target \in GeneratedPaths \X {""} /\ Answers(c, Plain)
             \/ Go(c, IF EnableStatic THEN "metadata" ELSE IF p = HomePath THEN "root" ELSE "asset")
    /\ UNCHANGED <<now, files, built, held>>

\* serve_static returned None.
FallThrough(c) == Go(c, IF Path(req[c]) = HomePath THEN "root" ELSE "asset")

ReadMetadata(c) ==
    LET t == req[c].target IN
    /\ At(c, "metadata")
    /\ \/ t \notin DOMAIN files /\ FallThrough(c)
       \/ /\ t \in DOMAIN files
          /\ req' = [req EXCEPT ![c].at = IF EnableCompression /\ t[2] = "" THEN "br" ELSE "decide",
                                ![c].meta = {files[t]}]
    /\ UNCHANGED <<now, files, built, held>>

\* fresh_siblings: one sibling's metadata.  The first takes any that is there.
AnySibling(sibling, modified) == TRUE
FreshSibling(sibling, modified) == sibling.at >= modified

LookForSibling(c, ext) ==
    LET t == <<Path(req[c]), ext>>
        found == t \in DOMAIN files /\ FreshSibling(files[t], The(req[c].meta).at)
    IN  /\ At(c, ext)
        /\ req' = [req EXCEPT ![c].at = IF ext = "br" THEN "gz" ELSE "decide",
                              ![c].fresh = IF found THEN @ \cup {ext} ELSE @]
        /\ UNCHANGED <<now, files, built, held>>

\* The best sibling the client accepts, as the set with it or none.
CodingOf(ext) == IF ext = "br" THEN "br" ELSE IF ext = "gz" THEN "gzip" ELSE "identity"
Chosen(r) ==
    LET wanted == {e \in r.fresh : AcceptsEncoding(r.accept, CodingOf(e))}
    IN  {e \in wanted : e = "br" \/ "br" \notin wanted}

WeakEtag(r) ==
    [of |-> "static", at |-> The(r.meta).at, suffix |-> IF Chosen(r) = {} THEN "" ELSE The(Chosen(r))]

\* not_modified_since, in whole seconds.  The first compares with the present.
FetchedSince(r, time) == \E s \in r.since : SecondOf[The(r.meta).at] <= SecondOf[time]
NotModifiedSince(r, time) == \E s \in r.since : SecondOf[The(r.meta).at] <= SecondOf[s]

\* With a sibling on disk the file has several representations.  The first
\* counts the siblings alone.
VariesAmong(r) == Cardinality(r.fresh) > 1
Varies(r) == r.fresh # {}

\* The headers both answers of serve_static have.
StaticHeaders(r, status) ==
    [Status(status) EXCEPT !.tag = {WeakEtag(r)}, !.date = {The(r.meta).at}, !.keep = TRUE,
                           !.vary = IF Varies(r) THEN "Accept-Encoding" ELSE "none"]

Decide(c) ==
    /\ At(c, "decide")
    /\ IF EtagMatches(req[c].inm, WeakEtag(req[c])) \/ NotModifiedSince(req[c], now)
       THEN Answers(c, StaticHeaders(req[c], 304))
       ELSE Go(c, "read")
    /\ UNCHANGED <<now, files, built, held>>

\* A read that fails is nothing served, never another representation.
ReadFile(c) ==
    LET r == req[c]
        chosen == Chosen(r)
        t == IF chosen = {} THEN r.target ELSE <<Path(r), The(chosen)>>
        a == [StaticHeaders(r, 200) EXCEPT !.v = files[t].v]
    IN  /\ At(c, "read")
        /\ \/ t \notin DOMAIN files /\ FallThrough(c)
           \/ /\ t \in DOMAIN files
              /\ Answers(c, IF chosen # {} THEN [a EXCEPT !.coding = CodingOf(The(chosen))]
                            ELSE MaybeCompress(r.accept, FileOf[Path(r)], a))
        /\ UNCHANGED <<now, files, built, held>>

\* serve_root: the project's page or the built-in one.
RootPage(c) ==
    /\ At(c, "root")
    /\ Answers(c, MaybeCompress(req[c].accept, FileOf[HomePath], [Plain EXCEPT !.keep = TRUE]))
    /\ UNCHANGED <<now, files, built, held>>

\* get_file_with, then asset_coding, then the encoding unless a 304 needs none.
Finds(r) == r.target[2] = "" /\ Path(r) \in (IF r.game THEN AssetPaths ELSE AssetPaths \ GamePaths)
AssetAnswer(r) ==
    LET file == FileOf[Path(r)]
        coding == AssetCoding(r.accept, file)
        revalidating == IsStatic(file.kind) /\ \E k \in coding : EtagMatches(r.inm, CodedEtag(k))
    IN  AssetResponse(r.inm, file,
                      IF coding # {} /\ (revalidating \/ file.packs) THEN The(coding) ELSE "identity",
                      now, Path(r) \in GamePaths)

Asset(c) ==
    /\ At(c, "asset")
    /\ Answers(c, IF Finds(req[c]) THEN AssetAnswer(req[c]) ELSE Status(404))
    /\ UNCHANGED <<now, files, built, held>>

-----------------------------------------------------------------------------
(* The JSON endpoints.                                                     *)

\* Whose names or bytes the answer has.  The first lists the archives to all.
ListsAll(r, asked) == r.route \in {"list", "search"}
ApiGame(r, asked) ==
    CASE r.route \in {"list", "search"} -> r.game
      [] r.route = "batch" -> r.game /\ asked \cap GamePaths # {}
      [] OTHER -> FALSE

\* A search needs a filter it can use, a batch between 1 and 50 files.
Api(c, usable, asked) ==
    LET r == req[c]
        file == [kind |-> "script", big |-> TRUE, packs |-> TRUE]
        a == [Plain EXCEPT !.game = ApiGame(r, asked), !.keep = (r.route = "list")]
    IN  /\ At(c, "api")
        /\ r.route = "batch" => (usable <=> asked # {})
        /\ Answers(c, IF (r.route = "search" /\ ~ (EnableSearch /\ usable)) \/ (r.route = "batch" /\ ~ usable)
                      THEN Status(400) ELSE MaybeCompress(r.accept, file, a))
        /\ UNCHANGED <<now, files, built, held>>

Serve(c) ==
    \/ Dispatch(c) \/ ReadMetadata(c) \/ \E ext \in Siblings : LookForSibling(c, ext)
    \/ Decide(c) \/ ReadFile(c) \/ RootPage(c) \/ Asset(c)
    \/ \E usable \in BOOLEAN, asked \in {{}} \cup {{p} : p \in AssetPaths} : Api(c, usable, asked)

\* The names of siblings exist beside built files only.
Asked == (Paths \X {""}) \cup (BuiltPaths \X ByName)

Next ==
    \/ Tick
    \/ \E p \in BuiltPaths : Build(p) \/ \E ext \in Siblings : Compress(p, ext)
    \/ \E t \in BuiltPaths \X Exts : Remove(t)
    \/ \E c \in Clients, origin \in Origins : Options(c, origin)
    \/ \E c \in Clients, accept \in Accepts :
         \/ \E method \in {"GET", "HEAD", "POST"}, t \in Asked, cond \in SUBSET {"tag", "date"} :
               AskPath(c, method, t, accept, cond)
         \/ \E route \in Apis : AskApi(c, route, accept)
    \/ \E c \in Clients : Serve(c) \/ Deliver(c)

Spec == Init /\ [][Next]_vars

-----------------------------------------------------------------------------
(* Properties.                                                             *)

TypeOK ==
    /\ now \in Times
    /\ DOMAIN files \subseteq BuiltPaths \X Exts /\ \A t \in DOMAIN files : files[t] \in Version
    /\ built \in [BuiltPaths -> Version]
    /\ req \in [Clients -> Request]
    /\ \A c \in Clients : /\ DOMAIN held[c] \subseteq Targets
                          /\ \A t \in DOMAIN held[c] : held[c][t] \in Held

Answered(c, status) == At(c, "done") /\ \E a \in req[c].answer : a.status = status

\* What a 304 of the built client confirms is at least as new as the file was
\* when the request looked at it, whichever validator matched, and whatever
\* was built between the metadata, the siblings and the bytes of the answer
\* the client still has (serve_static, its two conditions).
ConfirmedIsCurrent ==
    \A c \in Clients : Answered(c, 304) =>
        \A m \in req[c].meta :
            req[c].target \in DOMAIN held[c] /\ held[c][req[c].target].v >= m.v

\* A 304 of an asset confirms the coding the client holds, although the coding
\* that would be made for it now may be another one (coded_etag).
ConfirmedIsHeld ==
    \A c \in Clients : Answered(c, 304) /\ req[c].meta = {} =>
        \A a \in req[c].answer :
            /\ req[c].target \in DOMAIN held[c]
            /\ \A g \in a.tag : g.suffix = Suffix(held[c][req[c].target].coding)

\* A client that loads a file of the built client again never gets older code
\* than it had: a sibling left over from an earlier build is not taken for the
\* file's, and no answer names a newer file than the one it holds
\* (fresh_siblings, serve_static).
CodeNeverGoesBack ==
    [][\A c \in Clients : \A t \in DOMAIN held[c] \cap DOMAIN held'[c] :
         held'[c][t].v >= held[c][t].v]_vars

\* By the RFC's rule, with a header that repeats a name read either way.
Admits(accept, coding) ==
    LET named == {i \in DOMAIN accept : SameName(accept[i].name, coding)} IN
    IF named # {} THEN \E i \in named : Acceptable(accept[i])
    ELSE \E i \in DOMAIN accept : accept[i].name = "*" /\ Acceptable(accept[i])

\* An answer that a sibling or a kept encoding was chosen for is in a coding
\* its request admits (asset_coding, accepts_encoding).
NegotiatedIsWanted ==
    \A c \in Clients : \A a \in req[c].answer :
        (\E g \in a.tag : g.suffix # "") /\ a.status = 200 => Admits(req[c].accept, a.coding)

\* A cache between server and clients that keeps an answer and goes by its
\* Vary never gives it to a client that sent another Accept-Encoding and does
\* not admit its coding (negotiates_coding, and "every answer for this path
\* says so").  Of answers to a known origin it does not hold: Cors::apply puts
\* Origin in the place of what Vary said.
StoredFitsOthers ==
    \A c \in Clients : \A a \in req[c].answer :
        ~ a.origin /\ a.keep /\ a.status = 200 /\ a.vary # "Accept-Encoding" =>
            \A other \in Accepts : a.coding = "identity" \/ Admits(other, a.coding)

\* With REMOTE_GRF_DATA=false nothing of the archives, no bytes and no names,
\* is in any answer to a remote request, on any route (game_data_middleware).
GameDataStaysHome ==
    \A c \in Clients : \A a \in req[c].answer :
        a.game => RemoteGrfData \/ c \notin RemoteClients
=============================================================================
