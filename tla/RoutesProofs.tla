---------------------------- MODULE RoutesProofs ----------------------------
(***************************************************************************)
(* Proofs about Routes, for any clients, files, headers and settings, any  *)
(* number of builds and any length of time: what validators confirm, what  *)
(* codings answers have, and that game data stays home.                    *)
(***************************************************************************)
EXTENDS Routes, TLAPS, WellFoundedInduction

-----------------------------------------------------------------------------
(* Accept-Encoding.                                                        *)

LEMMA Least == ASSUME NEW S, S \subseteq Nat, S # {} PROVE \E i \in S : \A j \in S : i <= j
<1> DEFINE R == OpToRel(<, Nat)
<1>1. IsWellFoundedOn(R, Nat)
  BY NatLessThanWellFounded
<1>2. PICK i \in S : \A j \in S : ~ (<<j, i>> \in R)
  <2> HIDE DEF R
  <2> QED
    BY <1>1, WFMin
<1>3. \A j \in S : ~ (j < i)
  BY <1>2, Zenon DEF OpToRel
<1> QED
  BY <1>3

LEMMA Greatest ==
    ASSUME NEW n \in Nat, NEW S, S \subseteq 1 .. n, S # {}
    PROVE  \E i \in S : \A j \in S : j <= i
<1> DEFINE T == {n - i : i \in S}
<1>1. T \subseteq Nat /\ T # {}
  <2>1. \A i \in S : i \in Nat /\ n - i \in Nat
    OBVIOUS
  <2>2. T \subseteq Nat
    BY <2>1
  <2>3. PICK i \in S : TRUE
    OBVIOUS
  <2>4. n - i \in T
    BY <2>3, Zenon
  <2> QED
    BY <2>2, <2>4, Zenon
<1>2. PICK t \in T : \A u \in T : t <= u
  <2> HIDE DEF T
  <2> QED
    BY <1>1, Least
<1>3. PICK i \in S : t = n - i
  BY <1>2
<1>4. \A j \in S : n - i <= n - j
  BY <1>2, <1>3
<1> QED
  BY <1>3, <1>4

\* accepts_encoding reads a header the way the RFC does, or more strictly.
LEMMA AcceptedIsAdmitted ==
    ASSUME NEW accept \in Accepts, NEW coding, AcceptsEncoding(accept, coding)
    PROVE  Admits(accept, coding)
<1> DEFINE named == {i \in DOMAIN accept : SameName(accept[i].name, coding)}
           stars == {i \in DOMAIN accept : accept[i].name = "*"}
           first == CHOOSE i \in named : \A j \in named : i <= j
           last == CHOOSE i \in stars : \A j \in stars : j <= i
<1>1. accept \in Seq(Item)
  BY RoutesAssumption
<1>2. PICK n \in Nat : DOMAIN accept = 1 .. n
  BY <1>1
<1>3. IF named # {} THEN Acceptable(accept[first]) ELSE stars # {} /\ Acceptable(accept[last])
  BY DEF AcceptsEncoding
<1>4. CASE named # {}
  <2>1. named \subseteq Nat
    BY <1>2
  <2>2. \E i \in named : \A j \in named : i <= j
    <3> HIDE DEF named
    <3> QED
      BY <1>4, <2>1, Least
  <2>3. first \in named
    <3> HIDE DEF named
    <3> QED
      BY <2>2
  <2>4. \E i \in named : Acceptable(accept[i])
    <3> HIDE DEF named, first
    <3> QED
      BY <1>3, <1>4, <2>3
  <2> QED
    BY <1>4, <2>4 DEF Admits
<1>5. CASE named = {}
  <2>1. stars \subseteq 1 .. n /\ stars # {}
    BY <1>2, <1>3, <1>5
  <2>2. \E i \in stars : \A j \in stars : j <= i
    <3> HIDE DEF stars
    <3> QED
      BY <2>1, Greatest
  <2>3. last \in stars
    <3> HIDE DEF stars
    <3> QED
      BY <2>2
  <2>4. Acceptable(accept[last])
    BY <1>3, <1>5
  <2>5. last \in DOMAIN accept /\ accept[last].name = "*"
    BY <2>3
  <2>6. \E i \in DOMAIN accept : accept[i].name = "*" /\ Acceptable(accept[i])
    <3> HIDE DEF last
    <3> QED
      BY <2>4, <2>5
  <2> QED
    BY <1>5, <2>6 DEF Admits
<1> QED
  BY <1>4, <1>5

-----------------------------------------------------------------------------
(* Answers.                                                                *)

\* An answer that is coded says what it depends on.
Says(a) == a.origin \/ a.vary = "Accept-Encoding" \/ a.coding = "identity"

\* What none of the last steps of an answer changes.
Same(a, b) ==
    /\ a.status = b.status /\ a.tag = b.tag /\ a.date = b.date
    /\ a.keep = b.keep /\ a.v = b.v /\ a.game = b.game

\* One field of an answer or of a request replaced.
LEMMA AnswerStatus ==
    ASSUME NEW a \in Answer, NEW x \in {200, 204, 304, 400, 404, 405} PROVE [a EXCEPT !.status = x] \in Answer
BY DEF Answer

LEMMA AnswerTag ==
    ASSUME NEW a \in Answer, NEW x \in SUBSET Tag PROVE [a EXCEPT !.tag = x] \in Answer
BY DEF Answer

LEMMA AnswerDate ==
    ASSUME NEW a \in Answer, NEW x \in SUBSET Nat PROVE [a EXCEPT !.date = x] \in Answer
BY DEF Answer

LEMMA AnswerCoding ==
    ASSUME NEW a \in Answer, NEW x \in Codings \cup {"identity"} PROVE [a EXCEPT !.coding = x] \in Answer
BY DEF Answer

LEMMA AnswerVary ==
    ASSUME NEW a \in Answer, NEW x \in {"none", "Accept-Encoding", "Origin"} PROVE [a EXCEPT !.vary = x] \in Answer
BY DEF Answer

LEMMA AnswerKeep ==
    ASSUME NEW a \in Answer, NEW x \in BOOLEAN PROVE [a EXCEPT !.keep = x] \in Answer
BY DEF Answer

LEMMA AnswerGame ==
    ASSUME NEW a \in Answer, NEW x \in BOOLEAN PROVE [a EXCEPT !.game = x] \in Answer
BY DEF Answer

LEMMA AnswerOrigin ==
    ASSUME NEW a \in Answer, NEW x \in BOOLEAN PROVE [a EXCEPT !.origin = x] \in Answer
BY DEF Answer

LEMMA AnswerVersion ==
    ASSUME NEW a \in Answer, NEW x \in Nat PROVE [a EXCEPT !.v = x] \in Answer
BY DEF Answer

LEMMA RequestAt ==
    ASSUME NEW r \in Request, NEW x \in Steps PROVE [r EXCEPT !.at = x] \in Request
BY DEF Request

LEMMA RequestMeta ==
    ASSUME NEW r \in Request, NEW x \in SUBSET Version PROVE [r EXCEPT !.meta = x] \in Request
BY DEF Request

LEMMA RequestFresh ==
    ASSUME NEW r \in Request, NEW x \in SUBSET Siblings PROVE [r EXCEPT !.fresh = x] \in Request
BY DEF Request

LEMMA RequestAnswer ==
    ASSUME NEW r \in Request, NEW x \in SUBSET Answer PROVE [r EXCEPT !.answer = x] \in Request
BY DEF Request

LEMMA RequestMethod ==
    ASSUME NEW r \in Request, NEW x \in {"GET", "HEAD", "POST", "OPTIONS"} PROVE [r EXCEPT !.method = x] \in Request
BY DEF Request

LEMMA RequestRoute ==
    ASSUME NEW r \in Request, NEW x \in Apis \cup {"path"} PROVE [r EXCEPT !.route = x] \in Request
BY DEF Request

LEMMA RequestTarget ==
    ASSUME NEW r \in Request, NEW x \in Targets PROVE [r EXCEPT !.target = x] \in Request
BY DEF Request

LEMMA RequestAccept ==
    ASSUME NEW r \in Request, NEW x \in Accepts PROVE [r EXCEPT !.accept = x] \in Request
BY DEF Request

LEMMA RequestInm ==
    ASSUME NEW r \in Request, NEW x \in SUBSET Tag PROVE [r EXCEPT !.inm = x] \in Request
BY DEF Request

LEMMA RequestSince ==
    ASSUME NEW r \in Request, NEW x \in SUBSET Nat PROVE [r EXCEPT !.since = x] \in Request
BY DEF Request

LEMMA RequestGame ==
    ASSUME NEW r \in Request, NEW x \in BOOLEAN PROVE [r EXCEPT !.game = x] \in Request
BY DEF Request

LEMMA PlainIs ==
    /\ Plain \in Answer /\ Says(Plain)
    /\ Plain.status = 200 /\ Plain.tag = {} /\ Plain.date = {} /\ Plain.coding = "identity"
    /\ Plain.vary = "none" /\ ~ Plain.keep /\ Plain.v = 0 /\ ~ Plain.game
BY DEF Plain, Answer, Says

LEMMA StatusIs ==
    ASSUME NEW n \in {200, 204, 304, 400, 404, 405}
    PROVE  /\ Status(n) \in Answer /\ Says(Status(n))
           /\ Status(n).status = n /\ Status(n).tag = {} /\ Status(n).date = {}
           /\ Status(n).coding = "identity" /\ ~ Status(n).keep
           /\ Status(n).v = 0 /\ ~ Status(n).game
BY PlainIs DEF Status, Answer, Says

LEMMA NotModifiedIs ==
    /\ Status(304) \in Answer /\ Says(Status(304))
    /\ Status(304).status = 304 /\ Status(304).tag = {} /\ Status(304).date = {}
    /\ Status(304).coding = "identity" /\ ~ Status(304).keep
    /\ Status(304).v = 0 /\ ~ Status(304).game
BY StatusIs

LEMMA CorsKeeps ==
    ASSUME NEW origin, NEW a \in Answer
    PROVE  /\ Cors(origin, a) \in Answer
           /\ Same(Cors(origin, a), a) /\ Cors(origin, a).coding = a.coding
           /\ Says(a) => Says(Cors(origin, a))
<1>1. CASE origin = "known"
  <2>1. [a EXCEPT !.origin = TRUE] \in Answer
    BY AnswerOrigin
  <2>2. [[a EXCEPT !.origin = TRUE] EXCEPT !.vary = "Origin"] \in Answer
    BY <2>1, AnswerVary
  <2>3. Cors(origin, a) = [[a EXCEPT !.origin = TRUE] EXCEPT !.vary = "Origin"]
    BY <1>1 DEF Cors, Answer
  <2>4. Same(Cors(origin, a), a) /\ Cors(origin, a).coding = a.coding /\ Says(Cors(origin, a))
    BY <1>1 DEF Cors, Answer, Same, Says
  <2> QED
    BY <2>2, <2>3, <2>4
<1>2. CASE origin # "known"
  BY <1>2 DEF Cors, Same
<1> QED
  BY <1>1, <1>2

LEMMA CompressKeeps ==
    ASSUME NEW accept, NEW file, NEW a \in Answer
    PROVE  /\ MaybeCompress(accept, file, a) \in Answer
           /\ Same(MaybeCompress(accept, file, a), a)
           /\ Says(a) => Says(MaybeCompress(accept, file, a))
<1> DEFINE b == [a EXCEPT !.coding = "gzip", !.vary = "Accept-Encoding"]
<1>1. MaybeCompress(accept, file, a) \in {a, b}
  BY DEF MaybeCompress
<1>2. b \in Answer
  <2>1. [a EXCEPT !.coding = "gzip"] \in Answer
    BY AnswerCoding DEF Codings
  <2>2. [[a EXCEPT !.coding = "gzip"] EXCEPT !.vary = "Accept-Encoding"] \in Answer
    BY <2>1, AnswerVary
  <2> QED
    BY <2>2 DEF Answer
<1>3. Same(b, a) /\ Says(b)
  BY DEF Answer, Same, Says
<1>4. Same(a, a)
  BY DEF Same
<1> HIDE DEF b
<1> QED
  BY <1>1, <1>2, <1>3, <1>4

\* A tag of an asset has the suffix of a coding that the file may have.
AssetIs(a, inm, coding, game) ==
    /\ a \in Answer /\ Says(a) /\ a.v = 0 /\ (a.game => game)
    /\ \A g \in a.tag : g.of = "asset" /\ g.suffix = Suffix(coding)
    /\ a.status = 200 => a.coding = coding
    /\ a.status = 304 => a.tag # {} /\ a.tag \subseteq inm /\ a.date = {}

LEMMA AssetAnswers ==
    ASSUME NEW inm, NEW file \in File, NEW coding \in Codings \cup {"identity"}, NEW time \in Nat,
           NEW game \in BOOLEAN, coding # "identity" => NegotiatesCoding(file)
    PROVE  AssetIs(AssetResponse(inm, file, coding, time, game), inm, coding, game)
<1> DEFINE tag == CodedEtag(coding)
           a == AssetResponse(inm, file, coding, time, game)
           whole == [Plain EXCEPT !.coding = coding, !.vary = VaryOf(file), !.game = game]
           confirmed == [Status(304) EXCEPT !.tag = {tag}, !.vary = VaryOf(file), !.keep = TRUE]
<1> SUFFICES AssetIs(a, inm, coding, game)
  OBVIOUS
<1>1. tag \in Tag /\ tag.of = "asset" /\ tag.suffix = Suffix(coding)
  BY DEF CodedEtag, Tag, Suffix
<1>2. VaryOf(file) \in {"none", "Accept-Encoding"}
  BY DEF VaryOf
<1>3. whole \in Answer
  <2>1. [Plain EXCEPT !.coding = coding] \in Answer
    BY PlainIs, AnswerCoding
  <2>2. [[Plain EXCEPT !.coding = coding] EXCEPT !.vary = VaryOf(file)] \in Answer
    BY <1>2, <2>1, AnswerVary
  <2>3. [[[Plain EXCEPT !.coding = coding] EXCEPT !.vary = VaryOf(file)] EXCEPT !.game = game] \in Answer
    BY <2>2, AnswerGame
  <2> QED
    BY <2>3
<1>4. /\ whole.v = 0 /\ whole.game = game /\ whole.tag = {} /\ whole.date = {}
      /\ whole.coding = coding /\ whole.vary = VaryOf(file) /\ whole.status = 200
  BY PlainIs DEF Answer
<1>5. Says(whole)
  BY <1>4 DEF Says, VaryOf
<1>6. CASE ~ IsStatic(file.kind)
  <2>1. a = whole
    BY <1>6 DEF AssetResponse
  <2> HIDE DEF whole, tag, a
  <2> QED
    BY <1>3, <1>4, <1>5, <2>1 DEF AssetIs
<1>7. CASE IsStatic(file.kind) /\ EtagMatches(inm, tag)
  <2>1. a = confirmed
    BY <1>7 DEF AssetResponse
  <2>2. confirmed \in Answer
    <3>1. [Status(304) EXCEPT !.tag = {tag}] \in Answer
      BY <1>1, StatusIs, AnswerTag
    <3>2. [[Status(304) EXCEPT !.tag = {tag}] EXCEPT !.vary = VaryOf(file)] \in Answer
      BY <1>2, <3>1, AnswerVary, ZenonT(30)
    <3>3. [[[Status(304) EXCEPT !.tag = {tag}] EXCEPT !.vary = VaryOf(file)] EXCEPT !.keep = TRUE] \in Answer
      BY <3>2, AnswerKeep
    <3> QED
      BY <3>3
  <2>3. /\ confirmed.tag = {tag} /\ confirmed.date = {} /\ confirmed.v = 0
        /\ confirmed.coding = "identity" /\ confirmed.status = 304 /\ ~ confirmed.game
    <3>1. /\ Status(304) \in Answer /\ Status(304).status = 304 /\ Status(304).date = {}
          /\ Status(304).coding = "identity" /\ Status(304).v = 0 /\ ~ Status(304).game
      BY NotModifiedIs
    <3> QED
      BY <3>1 DEF Answer
  <2>4. tag \in inm
    BY <1>7 DEF EtagMatches
  <2> HIDE DEF confirmed, tag, a
  <2> QED
    BY <1>1, <2>1, <2>2, <2>3, <2>4 DEF Says, AssetIs
<1>8. CASE IsStatic(file.kind) /\ ~ EtagMatches(inm, tag)
  <2> DEFINE fresh == [whole EXCEPT !.tag = {tag}, !.date = {time}, !.keep = TRUE]
  <2>1. a = fresh
    BY <1>8 DEF AssetResponse
  <2> HIDE DEF whole, tag
  <2>2. fresh \in Answer
    <3>1. [whole EXCEPT !.tag = {tag}] \in Answer
      BY <1>1, <1>3, AnswerTag
    <3>2. [[whole EXCEPT !.tag = {tag}] EXCEPT !.date = {time}] \in Answer
      BY <3>1, AnswerDate
    <3>3. [[[whole EXCEPT !.tag = {tag}] EXCEPT !.date = {time}] EXCEPT !.keep = TRUE] \in Answer
      BY <3>2, AnswerKeep
    <3> QED
      BY <3>3
  <2>3. /\ fresh.tag = {tag} /\ fresh.date = {time} /\ fresh.v = 0 /\ fresh.game = game
        /\ fresh.coding = coding /\ fresh.vary = whole.vary /\ fresh.status = 200
        /\ fresh.origin = whole.origin
    BY <1>3, <1>4 DEF Answer
  <2>4. Says(fresh)
    BY <1>4, <1>5, <2>3 DEF Says
  <2> HIDE DEF fresh, a
  <2> QED
    BY <1>1, <2>1, <2>2, <2>3, <2>4 DEF AssetIs
<1> QED
  BY <1>6, <1>7, <1>8

\* The coding asset_coding chooses is one the client accepts, of a file that
\* may have it.
LEMMA AssetCodings ==
    ASSUME NEW accept, NEW file, NEW coding \in AssetCoding(accept, file)
    PROVE  coding = "gzip" /\ NegotiatesCoding(file) /\ AcceptsEncoding(accept, coding)
BY DEF AssetCoding

-----------------------------------------------------------------------------
(* What is known of the files of the built client.                         *)

\* One record of a file is not of a newer build than another, or it is by the
\* time between two builds.
Older(v, at, f) == f.v > v => at + BuildGap <= f.at

\* v is a version of target t, and what is there now is not older.
Claim(t, v) ==
    /\ v \in 1 .. built[t[1]].v
    /\ t \in DOMAIN files => v <= files[t].v

\* Version v of a file of path p, or a newer one, was there at time at.
Dated(p, v, at) ==
    /\ at \in Nat /\ at <= built[p].at
    /\ \A e \in Exts : <<p, e>> \in DOMAIN files => Older(v, at, files[<<p, e>>])

DiskInv ==
    /\ \A p \in BuiltPaths : built[p].at <= now
    /\ \A t \in DOMAIN files :
         /\ Claim(t, files[t].v) /\ Dated(t[1], files[t].v, files[t].at)
         /\ t[2] = "" => files[t].v = built[t[1]].v

\* What a client keeps of target t, or is about to.
Kept(t, h) ==
    /\ \A g \in h.tag : g.of = "asset" => g.suffix = Suffix(h.coding)
    /\ t[1] \notin BuiltPaths => h.v = 0
    /\ t[1] \in BuiltPaths =>
         /\ Claim(t, h.v)
         /\ \A d \in h.date : Dated(t[1], h.v, d)
         /\ \A g \in h.tag : g.of = "static" /\ Dated(t[1], h.v, g.at)

\* What a client keeps was there before the metadata m that a request read.
Before(h, m) ==
    /\ h.v <= m.v
    /\ \A d \in h.date : Older(h.v, d, m)
    /\ \A g \in h.tag : Older(h.v, g.at, m)

Looking == {"br", "gz", "decide", "read"}
Early == {"idle", "dispatch", "metadata", "api"}

\* The metadata and the siblings that request r of a client that keeps k has
\* seen.
Seen(r, k) ==
    /\ r.at \in Looking => \E m \in Version : r.meta = {m}
    /\ r.at \in Early => r.meta = {} /\ r.fresh = {}
    /\ r.at \in Siblings \/ r.fresh # {} => r.target[2] = ""
    /\ r.at \in {"root", "api"} => Path(r) = HomePath
    /\ \A m \in r.meta :
         /\ Path(r) \in BuiltPaths
         /\ Claim(r.target, m.v) /\ Dated(Path(r), m.v, m.at)
         /\ \A e \in Exts : <<Path(r), e>> \in DOMAIN files =>
               /\ Older(files[<<Path(r), e>>].v, files[<<Path(r), e>>].at, m)
               /\ e \in r.fresh => m.v <= files[<<Path(r), e>>].v
         /\ r.target \in DOMAIN k => Before(k[r.target], m)

\* Its validators are those of what the client keeps.
Conditional(r, k) ==
    /\ \A g \in r.inm : r.target \in DOMAIN k /\ g \in k[r.target].tag
    /\ \A d \in r.since : r.target \in DOMAIN k /\ d \in k[r.target].date

\* What a 304 says is true of what the client keeps.
Confirms(r, k, a) ==
    /\ r.target \in DOMAIN k
    /\ \/ \E m \in Version : /\ Path(r) \in BuiltPaths /\ r.meta = {m} /\ m.v <= k[r.target].v
                             /\ a.date = {m.at} /\ \A g \in a.tag : g.of = "static" /\ g.at = m.at
       \/ /\ Path(r) \notin BuiltPaths /\ r.meta = {}
          /\ a.tag \subseteq k[r.target].tag /\ \A g \in a.tag : g.of = "asset"
          /\ a.date = {}

Good(r, k, a) ==
    /\ Says(a) /\ (a.game => r.game)
    /\ (\E g \in a.tag : g.suffix # "") /\ a.status = 200 => Admits(r.accept, a.coding)
    /\ a.status = 304 => Confirms(r, k, a)
    /\ r.route = "path" /\ a.keep /\ a.status = 200 =>
         /\ Kept(r.target, a)
         /\ r.target \in DOMAIN k => k[r.target].v <= a.v

Answering(c, r, k) ==
    /\ r.at # "done" => r.answer = {}
    /\ r.at = "done" => \E a \in Answer : r.answer = {a}
    /\ r.game => Grants(c)
    /\ \A a \in r.answer : Good(r, k, a)

Keeps(k) == \A t \in DOMAIN k : Kept(t, k[t])

ClientInv(c) ==
    /\ Keeps(held[c])
    /\ Seen(req[c], held[c]) /\ Conditional(req[c], held[c]) /\ Answering(c, req[c], held[c])

IInv ==
    /\ TypeOK /\ held = [c \in Clients |-> held[c]]
    /\ DiskInv
    /\ \A c \in Clients : ClientInv(c)

-----------------------------------------------------------------------------
(* A step of one request.                                                  *)

\* The other clients are not touched, and files and builds are as they were.
LEMMA RequestStep ==
    ASSUME IInv, NEW c \in Clients, NEW r \in Request,
           req' = [req EXCEPT ![c] = r], UNCHANGED <<now, files, built, held>>,
           Seen(r, held[c]), Conditional(r, held[c]), Answering(c, r, held[c])
    PROVE  IInv'
<1>1. req \in [Clients -> Request] /\ TypeOK
  BY DEF IInv, TypeOK
<1>2. req' \in [Clients -> Request] /\ req'[c] = r /\ \A d \in Clients : d # c => req'[d] = req[d]
  BY <1>1
<1>3. TypeOK'
  BY <1>1, <1>2 DEF TypeOK
<1>4. DiskInv'
  BY DEF IInv, DiskInv, Claim, Dated
<1>5. ASSUME NEW d \in Clients PROVE ClientInv(d)'
  <2>1. held'[d] = held[d] /\ Keeps(held[d])
    BY DEF IInv, ClientInv
  <2>2. /\ Seen(req'[d], held[d]) /\ Conditional(req'[d], held[d])
        /\ Answering(d, req'[d], held[d])
    BY <1>2 DEF IInv, ClientInv
  <2>3. Keeps(held[d])'
    BY <2>1 DEF Keeps, Kept, Claim, Dated
  <2>4. Seen(req[d], held[d])'
    BY <2>1, <2>2, ZenonT(30) DEF Seen, Claim, Dated, Before, Older
  <2>5. Conditional(req[d], held[d])'
    BY <2>1, <2>2 DEF Conditional
  <2>6. ASSUME NEW a, Good(req'[d], held[d], a) PROVE Good(req[d], held[d], a)'
    BY <2>1, <2>6, ZenonT(30) DEF Good, Confirms, Kept, Claim, Dated
  <2>7. Answering(d, req[d], held[d])'
    BY <2>2, <2>6 DEF Answering
  <2> QED
    BY <2>3, <2>4, <2>5, <2>7 DEF ClientInv
<1>6. (held = [d \in Clients |-> held[d]])'
  BY DEF IInv
<1> QED
  BY <1>3, <1>4, <1>5, <1>6 DEF IInv

LEMMA Requests ==
    ASSUME IInv, NEW c \in Clients
    PROVE  /\ req[c] \in Request /\ req \in [Clients -> Request]
           /\ Seen(req[c], held[c]) /\ Conditional(req[c], held[c]) /\ Answering(c, req[c], held[c])
           /\ Keeps(held[c])
BY DEF IInv, TypeOK, ClientInv

\* An answer that is good when it is made is good when it has its CORS headers.
LEMMA AnswerStep ==
    ASSUME IInv, NEW c \in Clients, NEW a \in Answer, Answers(c, a),
           UNCHANGED <<now, files, built, held>>, Good(req[c], held[c], a)
    PROVE  IInv'
<1> DEFINE r == req[c]
           k == held[c]
<1>1. PICK origin \in Origins :
        req' = [req EXCEPT ![c].at = "done", ![c].answer = {Cors(origin, a)}]
  BY DEF Answers
<1> DEFINE b == Cors(origin, a)
           s == [[r EXCEPT !.at = "done"] EXCEPT !.answer = {b}]
<1>2. r \in Request /\ Seen(r, k) /\ Conditional(r, k) /\ Answering(c, r, k)
  BY Requests
<1>3. b \in Answer /\ Same(b, a) /\ b.coding = a.coding /\ Says(b)
  BY CorsKeeps DEF Good
<1>4. s \in Request
  <2>1. [r EXCEPT !.at = "done"] \in Request
    BY <1>2, RequestAt DEF Steps
  <2> HIDE DEF b
  <2>2. {b} \in SUBSET Answer
    BY <1>3
  <2> QED
    BY <2>1, <2>2, RequestAnswer
<1>5. req' = [req EXCEPT ![c] = s]
  BY <1>1, Requests DEF Request
<1> HIDE DEF b
<1>6. /\ s.at = "done" /\ s.answer = {b} /\ s.target = r.target /\ s.meta = r.meta
      /\ s.fresh = r.fresh /\ s.inm = r.inm /\ s.since = r.since /\ s.game = r.game
      /\ s.accept = r.accept /\ s.route = r.route
  BY <1>2 DEF Request
<1>7. Path(s) = Path(r)
  BY <1>6 DEF Path
<1> HIDE DEF s
<1>8. Seen(s, k)
  BY <1>2, <1>6, <1>7 DEF Seen, Looking, Early, Siblings
<1>9. Conditional(s, k)
  BY <1>2, <1>6 DEF Conditional
<1>10. Confirms(r, k, a) => Confirms(s, k, b)
  BY <1>3, <1>6, <1>7 DEF Confirms, Same
<1>11. Kept(r.target, a) => Kept(s.target, b)
  BY <1>3, <1>6 DEF Kept, Same
<1>12. Good(s, k, b)
  BY <1>3, <1>6, <1>10, <1>11, ZenonT(30) DEF Good, Same
<1>13. Answering(c, s, k)
  BY <1>2, <1>3, <1>6, <1>12 DEF Answering
<1> QED
  BY <1>4, <1>5, <1>8, <1>9, <1>13, RequestStep

\* A request that goes on is still right about what it has seen.
LEMMA GoStep ==
    ASSUME IInv, NEW c \in Clients, NEW step \in Steps \ {"done"}, Go(c, step), ~ At(c, "done"),
           UNCHANGED <<now, files, built, held>>,
           Seen([req[c] EXCEPT !.at = step], held[c])
    PROVE  IInv'
<1> DEFINE r == req[c]
           s == [r EXCEPT !.at = step]
<1>1. r \in Request /\ Conditional(r, held[c]) /\ Answering(c, r, held[c]) /\ req \in [Clients -> Request]
  BY Requests
<1>2. s \in Request
  BY <1>1, RequestAt
<1>3. /\ s.at = step /\ s.answer = r.answer /\ s.target = r.target
      /\ s.inm = r.inm /\ s.since = r.since /\ s.game = r.game
  BY <1>1 DEF Request
<1>4. req' = [req EXCEPT ![c] = s]
  BY <1>1 DEF Go
<1>5. r.answer = {}
  BY <1>1 DEF Answering, At
<1> HIDE DEF s
<1>6. Conditional(s, held[c])
  BY <1>1, <1>3 DEF Conditional
<1>7. Answering(c, s, held[c])
  BY <1>1, <1>3, <1>5 DEF Answering
<1>8. Seen(s, held[c])
  BY DEF s
<1> QED
  BY <1>2, <1>4, <1>6, <1>7, <1>8, RequestStep

-----------------------------------------------------------------------------
(* Looking at the files of the built client.                               *)

LEMMA StatusGood ==
    ASSUME NEW r, NEW k, NEW n \in {204, 400, 404, 405}
    PROVE  Status(n) \in Answer /\ Good(r, k, Status(n))
<1>1. n \in {200, 204, 304, 400, 404, 405} /\ n # 200 /\ n # 304
  OBVIOUS
<1>2. /\ Status(n) \in Answer /\ Says(Status(n)) /\ ~ Status(n).game /\ Status(n).status = n
  BY <1>1, StatusIs
<1> HIDE DEF Status
<1> QED
  BY <1>1, <1>2, ZenonT(30) DEF Good

\* An uncoded page that is not the archives': no tag, no version.
LEMMA PageGood ==
    ASSUME NEW r, NEW k, NEW a \in Answer, Says(a), ~ a.game, a.tag = {}, a.status = 200,
           a.v = 0, a.date = {},
           r.route = "path" => ~ a.keep \/ (Path(r) \notin BuiltPaths /\ Keeps(k))
    PROVE  Good(r, k, a)
<1>1. ASSUME r.route = "path", a.keep
      PROVE  Kept(r.target, a) /\ (r.target \in DOMAIN k => k[r.target].v <= a.v)
  <2>1. r.target[1] \notin BuiltPaths /\ Keeps(k)
    BY <1>1 DEF Path
  <2> QED
    BY <2>1 DEF Kept, Keeps
<1> QED
  BY <1>1 DEF Good

\* At a step where nothing is looked at, it is enough to be at the right one.
LEMMA SeenElsewhere ==
    ASSUME NEW r \in Request, NEW k, Seen(r, k), NEW step \in Steps \ Looking,
           step \in Early => r.meta = {} /\ r.fresh = {},
           step \in {"root", "api"} => Path(r) = HomePath
    PROVE  Seen([r EXCEPT !.at = step], k)
<1> DEFINE s == [r EXCEPT !.at = step]
<1>1. /\ s.at = step /\ s.target = r.target /\ s.meta = r.meta /\ s.fresh = r.fresh
  BY DEF Request
<1>2. Path(s) = Path(r)
  BY <1>1 DEF Path
<1> HIDE DEF s
<1>3. Seen(s, k)
  BY <1>1, <1>2 DEF Seen, Looking, Siblings
<1> QED
  BY <1>3 DEF s

LEMMA GoElsewhere ==
    ASSUME IInv, NEW c \in Clients, NEW step \in Steps \ (Looking \cup {"done"}), Go(c, step),
           ~ At(c, "done"), UNCHANGED <<now, files, built, held>>,
           step \in Early => req[c].meta = {} /\ req[c].fresh = {},
           step \in {"root", "api"} => Path(req[c]) = HomePath
    PROVE  IInv'
<1>1. req[c] \in Request /\ Seen(req[c], held[c])
  BY Requests
<1>2. Seen([req[c] EXCEPT !.at = step], held[c])
  BY <1>1, SeenElsewhere
<1> QED
  BY <1>2, GoStep

LEMMA FirstOf == ASSUME NEW x, NEW y PROVE <<x, y>>[1] = x
OBVIOUS

\* A POST to the root becomes a search.
LEMMA SearchStep ==
    ASSUME IInv, NEW c \in Clients, ~ At(c, "done"), req[c].target = <<HomePath, "">>,
           req' = [req EXCEPT ![c].at = "api", ![c].route = "search"],
           req[c].meta = {}, req[c].fresh = {}, UNCHANGED <<now, files, built, held>>
    PROVE  IInv'
<1> DEFINE r == req[c]
           s == [r EXCEPT !.at = "api", !.route = "search"]
<1>1. r \in Request /\ Conditional(r, held[c]) /\ Answering(c, r, held[c]) /\ req \in [Clients -> Request]
  BY Requests
<1>2. s \in Request
  BY <1>1 DEF Request, Steps, Apis
<1>3. /\ s.at = "api" /\ s.answer = r.answer /\ s.target = r.target /\ s.meta = {} /\ s.fresh = {}
      /\ s.inm = r.inm /\ s.since = r.since /\ s.game = r.game
  BY <1>1 DEF Request
<1>4. req' = [req EXCEPT ![c] = s]
  BY <1>1
<1>5. r.answer = {}
  BY <1>1 DEF Answering, At
<1> HIDE DEF s
<1>6. Conditional(s, held[c])
  BY <1>1, <1>3 DEF Conditional
<1>7. Answering(c, s, held[c])
  BY <1>1, <1>3, <1>5 DEF Answering
<1>8. Seen(s, held[c])
  <2>1. s.target = <<HomePath, "">>
    BY <1>3
  <2>2. Path(s) = HomePath
    <3>1. Path(s) = <<HomePath, "">>[1]
      BY <2>1, Zenon DEF Path
    <3> QED
      BY <3>1, FirstOf, Zenon
  <2> QED
    BY <1>3, <2>2 DEF Seen, Looking, Siblings
<1> QED
  BY <1>2, <1>4, <1>6, <1>7, <1>8, RequestStep

LEMMA FallThroughStep ==
    ASSUME IInv, NEW c \in Clients, FallThrough(c), ~ At(c, "done"),
           UNCHANGED <<now, files, built, held>>
    PROVE  IInv'
<1>1. CASE Path(req[c]) = HomePath
  <2>1. Go(c, "root")
    BY <1>1 DEF FallThrough
  <2> QED
    BY <1>1, <2>1, GoElsewhere DEF Steps, Looking, Early
<1>2. CASE Path(req[c]) # HomePath
  <2>1. Go(c, "asset")
    BY <1>2 DEF FallThrough
  <2> QED
    BY <2>1, GoElsewhere DEF Steps, Looking, Early
<1> QED
  BY <1>1, <1>2

LEMMA DispatchStep == ASSUME IInv, NEW c \in Clients, Dispatch(c) PROVE IInv'
<1> DEFINE r == req[c]
           k == held[c]
<1>1. /\ r \in Request /\ Seen(r, k) /\ At(c, "dispatch") /\ UNCHANGED <<now, files, built, held>>
  BY Requests DEF Dispatch
<1>2. r.meta = {} /\ r.fresh = {} /\ ~ At(c, "done")
  BY <1>1 DEF Seen, Early, At
<1>3. ASSUME NEW n \in {404, 405}, Answers(c, Status(n)) PROVE IInv'
  <2>1. Status(n) \in Answer /\ Good(r, k, Status(n))
    BY <1>3, StatusGood
  <2> QED
    BY <1>1, <1>3, <2>1, AnswerStep
<1>4. CASE r.target \in GeneratedPaths \X {""} /\ Answers(c, Plain)
  <2>1. Good(r, k, Plain)
    BY PlainIs, PageGood
  <2> QED
    BY <1>1, <1>4, <2>1, PlainIs, AnswerStep
<1>5. CASE Go(c, "metadata")
  BY <1>1, <1>2, <1>5, GoElsewhere DEF Steps, Looking, Early
<1>6. CASE Path(r) = HomePath /\ Go(c, "root")
  BY <1>1, <1>2, <1>6, GoElsewhere DEF Steps, Looking, Early
<1>7. CASE Go(c, "asset")
  BY <1>1, <1>2, <1>7, GoElsewhere DEF Steps, Looking, Early
<1>9. CASE r.target = <<HomePath, "">> /\ req' = [req EXCEPT ![c].at = "api", ![c].route = "search"]
  BY <1>1, <1>2, <1>9, SearchStep
<1>8. \/ Answers(c, Status(405)) \/ Answers(c, Status(404))
      \/ r.target = <<HomePath, "">> /\ req' = [req EXCEPT ![c].at = "api", ![c].route = "search"]
      \/ r.target \in GeneratedPaths \X {""} /\ Answers(c, Plain)
      \/ Go(c, "metadata") \/ (Path(r) = HomePath /\ Go(c, "root")) \/ Go(c, "asset")
  <2>1. CASE r.method = "POST"
    BY <2>1 DEF Dispatch
  <2>2. CASE r.method # "POST"
    BY <2>2 DEF Dispatch
  <2> QED
    BY <2>1, <2>2
<1> QED
  BY <1>3, <1>4, <1>5, <1>6, <1>7, <1>8, <1>9, ZenonT(30)

LEMMA ReadMetadataStep == ASSUME IInv, NEW c \in Clients, ReadMetadata(c) PROVE IInv'
<1> DEFINE r == req[c]
           k == held[c]
           t == r.target
           p == Path(r)
<1>1. /\ r \in Request /\ Seen(r, k) /\ Conditional(r, k) /\ Answering(c, r, k) /\ Keeps(k)
      /\ req \in [Clients -> Request] /\ At(c, "metadata") /\ UNCHANGED <<now, files, built, held>>
  BY Requests DEF ReadMetadata
<1>2. r.meta = {} /\ r.fresh = {} /\ r.at = "metadata"
  BY <1>1 DEF Seen, Early, At
<1>3. CASE t \notin DOMAIN files
  <2>1. FallThrough(c)
    BY <1>3 DEF ReadMetadata
  <2> QED
    BY <1>1, <1>2, <2>1, FallThroughStep DEF At
<1>4. CASE t \in DOMAIN files
  <2> DEFINE m == files[t]
             step == IF EnableCompression /\ t[2] = "" THEN "br" ELSE "decide"
             s == [[r EXCEPT !.at = step] EXCEPT !.meta = {m}]
  <2>1. /\ t \in BuiltPaths \X Exts /\ m \in Version /\ t = <<p, t[2]>> /\ p \in BuiltPaths /\ t[2] \in Exts
    BY <1>4 DEF IInv, TypeOK, Path
  <2>2. Claim(t, m.v) /\ Dated(p, m.v, m.at)
    BY <1>4 DEF IInv, DiskInv, Path
  <2>3. step \in {"br", "decide"} /\ (step = "br" => t[2] = "")
    OBVIOUS
  <2>4. req' = [req EXCEPT ![c] = s]
    BY <1>1, <1>4 DEF ReadMetadata, Request
  <2> HIDE DEF step
  <2>5. s \in Request
    <3>1. [r EXCEPT !.at = step] \in Request
      BY <1>1, <2>3, RequestAt DEF Steps
    <3> QED
      BY <2>1, <3>1, RequestMeta
  <2>6. /\ s.at = step /\ s.meta = {m} /\ s.target = t /\ s.fresh = {} /\ s.inm = r.inm
        /\ s.since = r.since /\ s.game = r.game /\ s.answer = r.answer
    BY <1>1, <1>2 DEF Request
  <2>7. Path(s) = p
    BY <2>6 DEF Path
  <2> HIDE DEF s
  <2>8. ASSUME NEW e \in Exts, <<p, e>> \in DOMAIN files
        PROVE  Older(files[<<p, e>>].v, files[<<p, e>>].at, m)
    <3>1. Dated(<<p, e>>[1], files[<<p, e>>].v, files[<<p, e>>].at)
      BY <2>8 DEF IInv, DiskInv
    <3> QED
      BY <1>4, <2>1, <3>1 DEF Dated
  <2>9. ASSUME t \in DOMAIN k PROVE Before(k[t], m)
    <3>1. Kept(t, k[t])
      BY <1>1, <2>9 DEF Keeps
    <3> QED
      BY <1>4, <2>1, <3>1 DEF Kept, Claim, Dated, Before, Path
  <2>10. Seen(s, k)
    BY <2>1, <2>2, <2>3, <2>6, <2>7, <2>8, <2>9 DEF Seen, Early, Siblings
  <2>11. Conditional(s, k)
    BY <1>1, <2>6 DEF Conditional
  <2>12. Answering(c, s, k)
    BY <1>1, <1>2, <2>3, <2>6 DEF Answering
  <2> QED
    BY <1>1, <2>4, <2>5, <2>10, <2>11, <2>12, RequestStep
<1> QED
  BY <1>3, <1>4

LEMMA LookForSiblingStep ==
    ASSUME IInv, NEW c \in Clients, NEW ext \in Siblings, LookForSibling(c, ext)
    PROVE  IInv'
<1> DEFINE r == req[c]
           k == held[c]
           p == Path(r)
           t == <<p, ext>>
           found == t \in DOMAIN files /\ FreshSibling(files[t], The(r.meta).at)
           step == IF ext = "br" THEN "gz" ELSE "decide"
           fresh == IF found THEN r.fresh \cup {ext} ELSE r.fresh
           s == [[r EXCEPT !.at = step] EXCEPT !.fresh = fresh]
<1>1. /\ r \in Request /\ Seen(r, k) /\ Conditional(r, k) /\ Answering(c, r, k)
      /\ req \in [Clients -> Request] /\ r.at = ext /\ UNCHANGED <<now, files, built, held>>
  BY Requests DEF LookForSibling, At
<1>2. PICK m \in Version : r.meta = {m}
  BY <1>1 DEF Seen, Looking, Siblings
<1>3. The(r.meta) = m
  BY <1>2 DEF The
<1>4. r.target[2] = ""
  BY <1>1 DEF Seen
<1>5. step \in {"gz", "decide"} /\ r.at # "done"
  BY <1>1 DEF Siblings
<1>6. req' = [req EXCEPT ![c] = s]
  BY <1>1 DEF LookForSibling, Request
<1>7. fresh \in SUBSET Siblings
  BY <1>1 DEF Request
<1>8. ASSUME NEW e \in Exts, <<p, e>> \in DOMAIN files, e \in fresh
      PROVE  m.v <= files[<<p, e>>].v
  <2>1. CASE e \in r.fresh
    BY <1>1, <1>2, <1>8, <2>1 DEF Seen
  <2>2. CASE e \notin r.fresh
    <3>1. e = ext /\ found
      BY <1>8, <2>2
    <3>2. files[t].at >= m.at
      BY <1>3, <3>1 DEF FreshSibling
    <3>3. Older(files[t].v, files[t].at, m)
      BY <1>1, <1>2, <1>8, <3>1 DEF Seen
    <3>4. files[t] \in Version
      BY <3>1 DEF IInv, TypeOK
    <3>5. files[t].v \in Nat /\ files[t].at \in Nat /\ m.v \in Nat /\ m.at \in Nat
      BY <1>2, <3>4 DEF Version
    <3>6. BuildGap \in Nat /\ BuildGap > 0
      BY RoutesAssumption
    <3>7. m.v <= files[t].v
      BY <3>2, <3>3, <3>5, <3>6 DEF Older
    <3> QED
      BY <3>1, <3>7
  <2> QED
    BY <2>1, <2>2
<1> HIDE DEF found, step, fresh
<1>9. s \in Request
  <2>1. [r EXCEPT !.at = step] \in Request
    BY <1>1, <1>5, RequestAt DEF Steps
  <2> QED
    BY <1>7, <2>1, RequestFresh
<1>10. /\ s.at = step /\ s.fresh = fresh /\ s.target = r.target /\ s.meta = r.meta /\ s.inm = r.inm
       /\ s.since = r.since /\ s.game = r.game /\ s.answer = r.answer
  BY <1>1 DEF Request
<1>11. Path(s) = p
  BY <1>10 DEF Path
<1> HIDE DEF s
<1>12. Seen(s, k)
  BY <1>1, <1>2, <1>4, <1>5, <1>8, <1>10, <1>11 DEF Seen, Early
<1>13. Conditional(s, k)
  BY <1>1, <1>10 DEF Conditional
<1>14. Answering(c, s, k)
  BY <1>1, <1>5, <1>10 DEF Answering
<1> QED
  BY <1>1, <1>6, <1>9, <1>12, <1>13, <1>14, RequestStep

\* A sibling that is chosen is a fresh one, and its coding wanted.
LEMMA ChosenIs ==
    ASSUME NEW r \in Request, Chosen(r) # {}
    PROVE  /\ The(Chosen(r)) \in r.fresh /\ The(Chosen(r)) \in Siblings
           /\ AcceptsEncoding(r.accept, CodingOf(The(Chosen(r))))
<1>1. The(Chosen(r)) \in Chosen(r)
  BY DEF The
<1>2. r.fresh \subseteq Siblings
  BY DEF Request
<1> QED
  BY <1>1, <1>2 DEF Chosen

LEMMA WeakEtagIs ==
    ASSUME NEW r \in Request, NEW m \in Version, r.meta = {m}
    PROVE  /\ WeakEtag(r) \in Tag /\ WeakEtag(r).of = "static" /\ WeakEtag(r).at = m.at
           /\ WeakEtag(r).suffix = IF Chosen(r) = {} THEN "" ELSE The(Chosen(r))
<1>1. The(r.meta) = m /\ m.at \in Nat
  BY DEF The, Version
<1>2. Chosen(r) # {} => The(Chosen(r)) \in Siblings
  BY ChosenIs
<1> QED
  BY <1>1, <1>2 DEF WeakEtag, Tag, Siblings

LEMMA StaticHeadersIs ==
    ASSUME NEW r \in Request, NEW m \in Version, r.meta = {m}, NEW n \in {200, 304},
           NEW a, a = StaticHeaders(r, n)
    PROVE  /\ a \in Answer /\ a.status = n /\ a.tag = {WeakEtag(r)} /\ a.date = {m.at}
           /\ a.coding = "identity" /\ ~ a.game
           /\ Chosen(r) # {} => a.vary = "Accept-Encoding"
<1> DEFINE tag == WeakEtag(r)
           vary == IF Varies(r) THEN "Accept-Encoding" ELSE "none"
           date == {m.at}
           base == Status(n)
           tagged == [base EXCEPT !.tag = {tag}]
           dated == [tagged EXCEPT !.date = date]
           kept == [dated EXCEPT !.keep = TRUE]
           b == [kept EXCEPT !.vary = vary]
<1>1. n \in {200, 204, 304, 400, 404, 405}
  OBVIOUS
<1>2. base \in Answer /\ base.status = n /\ base.coding = "identity" /\ ~ base.game
  BY <1>1, StatusIs
<1>3. The(r.meta) = m /\ date \in SUBSET Nat
  BY DEF The, Version
<1>4. vary \in {"none", "Accept-Encoding"} /\ (Chosen(r) # {} => vary = "Accept-Encoding")
  BY ChosenIs DEF Varies
<1>5. tag \in Tag
  BY WeakEtagIs
<1>6. a = b
  BY <1>2, <1>3, ZenonT(30) DEF StaticHeaders, Answer
<1> HIDE DEF base, tag, vary, date
<1>7. b \in Answer
  <2>1. tagged \in Answer
    BY <1>2, <1>5, AnswerTag
  <2> HIDE DEF tagged
  <2>2. dated \in Answer
    BY <1>3, <2>1, AnswerDate
  <2> HIDE DEF dated
  <2>3. kept \in Answer
    BY <2>2, AnswerKeep
  <2> HIDE DEF kept
  <2> QED
    BY <1>4, <2>3, AnswerVary
<1>8. /\ b.status = n /\ b.tag = {tag} /\ b.date = date /\ b.coding = "identity" /\ ~ b.game
      /\ b.vary = vary
  BY <1>2 DEF Answer
<1> HIDE DEF b
<1> QED
  BY <1>4, <1>6, <1>7, <1>8 DEF tag, date

\* What is kept of a path of the built client is dated in the model's time.
LEMMA DatesAreTimes ==
    ASSUME IInv, NEW p \in BuiltPaths, NEW v, NEW at, Dated(p, v, at)
    PROVE  at \in Times
<1>1. now \in Times /\ built[p].at <= now /\ built[p].at \in Nat
  BY DEF IInv, TypeOK, DiskInv, Version
<1> QED
  BY <1>1, RoutesAssumption DEF Dated, Times

LEMMA DecideStep == ASSUME IInv, NEW c \in Clients, Decide(c) PROVE IInv'
<1> DEFINE r == req[c]
           k == held[c]
           t == r.target
           h == k[t]
           a == StaticHeaders(r, 304)
           tag == WeakEtag(r)
<1>1. /\ r \in Request /\ Seen(r, k) /\ Conditional(r, k) /\ Keeps(k)
      /\ r.at = "decide" /\ UNCHANGED <<now, files, built, held>>
  BY Requests DEF Decide, At
<1>2. PICK m \in Version : r.meta = {m}
  BY <1>1 DEF Seen, Looking
<1>3. /\ Path(r) \in BuiltPaths /\ Dated(Path(r), m.v, m.at) /\ (t \in DOMAIN k => Before(h, m))
      /\ m.v \in Nat /\ m.at \in Nat /\ t[1] = Path(r)
  BY <1>1, <1>2 DEF Seen, Version, Path
<1>4. CASE Go(c, "read")
  <2> DEFINE s == [r EXCEPT !.at = "read"]
  <2>1. /\ s.at = "read" /\ s.target = t /\ s.meta = r.meta /\ s.fresh = r.fresh
    BY <1>1 DEF Request
  <2>2. Path(s) = Path(r)
    BY <2>1 DEF Path
  <2> HIDE DEF s
  <2>3. Seen(s, k)
    BY <1>1, <1>2, <2>1, <2>2 DEF Seen, Early, Siblings, Looking
  <2> QED
    BY <1>1, <1>4, <2>3, GoStep DEF Steps, At, s
<1>5. CASE Answers(c, a) /\ (EtagMatches(r.inm, tag) \/ NotModifiedSince(r, now))
  <2>1. tag.of = "static" /\ tag.at = m.at
    BY <1>1, <1>2, WeakEtagIs
  <2>2. a \in Answer /\ a.status = 304 /\ a.tag = {tag} /\ a.date = {m.at}
        /\ a.coding = "identity" /\ ~ a.game
    BY <1>1, <1>2, StaticHeadersIs
  <2>3. t \in DOMAIN k
    BY <1>1, <1>5 DEF EtagMatches, NotModifiedSince, Conditional
  <2>4. h.v \in Nat
    BY <2>3 DEF IInv, TypeOK, Held
  <2>5. BuildGap \in Nat /\ BuildGap > 0
    BY RoutesAssumption
  <2>6. ASSUME EtagMatches(r.inm, tag) PROVE m.v <= h.v
    <3>1. tag \in h.tag
      BY <1>1, <2>6 DEF EtagMatches, Conditional
    <3>2. Older(h.v, m.at, m)
      BY <1>3, <2>1, <2>3, <3>1 DEF Before
    <3> QED
      BY <1>3, <2>4, <2>5, <3>2 DEF Older
  <2>7. ASSUME NotModifiedSince(r, now) PROVE m.v <= h.v
    <3>1. The(r.meta) = m
      BY <1>2 DEF The
    <3>2. PICK d \in r.since : SecondOf[m.at] <= SecondOf[d]
      BY <2>7, <3>1 DEF NotModifiedSince
    <3>3. d \in h.date
      BY <1>1, <3>2 DEF Conditional
    <3>4. Kept(t, h)
      BY <1>1, <2>3 DEF Keeps
    <3>5. Dated(Path(r), h.v, d)
      BY <1>3, <3>3, <3>4 DEF Kept
    <3>6. d \in Times /\ m.at \in Times
      BY <1>3, <3>5, DatesAreTimes
    <3>7. Older(h.v, d, m)
      BY <1>3, <2>3, <3>3 DEF Before
    <3>8. SUFFICES ASSUME m.v > h.v PROVE FALSE
      BY <1>3, <2>4
    <3>9. d + BuildGap <= m.at
      BY <3>7, <3>8 DEF Older
    <3>10. SecondOf[d] < SecondOf[m.at]
      BY <3>6, <3>9, BuildsAssumption
    <3>11. SecondOf[d] \in Nat /\ SecondOf[m.at] \in Nat
      BY <3>6, RoutesAssumption
    <3> QED
      BY <3>2, <3>10, <3>11
  <2>8. m.v <= h.v
    BY <1>5, <2>6, <2>7
  <2> HIDE DEF a
  <2>9. Confirms(r, k, a)
    BY <1>2, <1>3, <2>1, <2>2, <2>3, <2>8 DEF Confirms
  <2>10. Good(r, k, a)
    BY <2>2, <2>9 DEF Good, Says
  <2> QED
    BY <1>1, <1>5, <2>2, <2>10, AnswerStep
<1> QED
  BY <1>4, <1>5 DEF Decide

LEMMA ReadFileStep == ASSUME IInv, NEW c \in Clients, ReadFile(c) PROVE IInv'
<1> DEFINE r == req[c]
           k == held[c]
           p == Path(r)
           e == The(Chosen(r))
           t == IF Chosen(r) = {} THEN r.target ELSE <<p, e>>
           base == StaticHeaders(r, 200)
           whole == [base EXCEPT !.v = files[t].v]
           coded == [whole EXCEPT !.coding = CodingOf(e)]
           packed == MaybeCompress(r.accept, FileOf[p], whole)
           a == IF Chosen(r) # {} THEN coded ELSE packed
<1>1. /\ r \in Request /\ Seen(r, k) /\ r.at = "read" /\ UNCHANGED <<now, files, built, held>>
      /\ r.target \in Targets /\ r.accept \in Accepts
  BY Requests DEF ReadFile, At, Request
<1>2. PICK m \in Version : r.meta = {m}
  BY <1>1 DEF Seen, Looking
<1>3. /\ p \in BuiltPaths /\ Claim(r.target, m.v) /\ Dated(p, m.v, m.at) /\ m.v \in Nat /\ m.at \in Nat
      /\ r.target = <<p, r.target[2]>> /\ r.target[2] \in Exts
  <2>1. r.target = <<r.target[1], r.target[2]>> /\ r.target[2] \in Exts
    BY <1>1 DEF Targets
  <2>2. p \in BuiltPaths /\ Claim(r.target, m.v) /\ Dated(p, m.v, m.at)
    BY <1>1, <1>2 DEF Seen
  <2> QED
    BY <1>2, <2>1, <2>2 DEF Version, Path
<1>4. CASE FallThrough(c)
  BY <1>1, <1>4, FallThroughStep DEF At
<1>5. CASE t \in DOMAIN files /\ Answers(c, a)
  <2> DEFINE v == files[t].v
  <2>1. Chosen(r) # {} => e \in r.fresh /\ e \in Siblings /\ AcceptsEncoding(r.accept, CodingOf(e))
    BY <1>1, ChosenIs
  <2>2. t[1] = p /\ Claim(t, v) /\ files[t] \in Version
    BY <1>3, <1>5 DEF IInv, DiskInv, TypeOK, Path
  <2>3. built[p] \in Version
    BY <1>3 DEF IInv, TypeOK
  <2>4. v \in Nat /\ built[p].v \in Nat /\ v \in 1 .. built[p].v
    BY <2>2, <2>3 DEF Version, Claim
  <2>5. m.v <= v
    <3>1. CASE Chosen(r) = {}
      BY <1>3, <1>5, <3>1 DEF Claim
    <3>2. CASE Chosen(r) # {}
      BY <1>1, <1>2, <1>5, <2>1, <3>2 DEF Seen, Siblings, Exts
    <3> QED
      BY <3>1, <3>2
  <2>6. Claim(r.target, v)
    <3>1. CASE Chosen(r) = {}
      BY <2>2, <3>1
    <3>2. CASE Chosen(r) # {}
      <4>1. r.target[2] = ""
        BY <1>1, <2>1, <3>2 DEF Seen
      <4>2. r.target \in DOMAIN files => files[r.target].v = built[p].v
        BY <4>1 DEF IInv, DiskInv, Path
      <4> QED
        BY <2>4, <4>2 DEF Claim, Path
    <3> QED
      BY <3>1, <3>2
  <2>7. Dated(p, v, m.at)
    <3>1. \A x \in Exts : <<p, x>> \in DOMAIN files => files[<<p, x>>].v \in Nat
      BY DEF IInv, TypeOK, Version
    <3> QED
      BY <1>3, <2>4, <2>5, <3>1 DEF Dated, Older
  <2>8. r.target \in DOMAIN k => k[r.target].v <= v
    <3>1. ASSUME r.target \in DOMAIN k PROVE k[r.target].v <= v
      <4>1. k[r.target].v <= m.v /\ k[r.target].v \in Nat
        BY <1>1, <1>2, <3>1 DEF Seen, Before, IInv, TypeOK, Held
      <4> QED
        BY <1>3, <2>4, <2>5, <4>1
    <3> QED
      BY <3>1
  <2>9. /\ WeakEtag(r).of = "static" /\ WeakEtag(r).at = m.at
        /\ WeakEtag(r).suffix = IF Chosen(r) = {} THEN "" ELSE e
    BY <1>1, <1>2, WeakEtagIs
  <2>10. /\ base \in Answer /\ base.status = 200 /\ base.tag = {WeakEtag(r)} /\ base.date = {m.at}
         /\ base.coding = "identity" /\ ~ base.game
         /\ Chosen(r) # {} => base.vary = "Accept-Encoding"
    BY <1>1, <1>2, StaticHeadersIs
  <2> HIDE DEF base, v, e
  <2>11. whole \in Answer
    BY <2>4, <2>10, AnswerVersion DEF v
  <2>12. /\ whole.status = 200 /\ whole.tag = {WeakEtag(r)} /\ whole.date = {m.at} /\ whole.v = v
         /\ whole.coding = "identity" /\ ~ whole.game
         /\ Chosen(r) # {} => whole.vary = "Accept-Encoding"
    BY <2>10 DEF Answer, v
  <2> HIDE DEF whole, t
  <2>13. /\ a \in Answer /\ a.status = 200 /\ a.tag = {WeakEtag(r)} /\ a.date = {m.at} /\ a.v = v
         /\ ~ a.game /\ Says(a) /\ (Chosen(r) # {} => a.coding = CodingOf(e))
    <3>1. CASE Chosen(r) = {}
      <4>1. packed \in Answer /\ Same(packed, whole) /\ Says(packed)
        BY <2>11, <2>12, CompressKeeps DEF Says
      <4>2. a = packed
        BY <3>1
      <4> HIDE DEF packed, a
      <4> QED
        BY <2>12, <3>1, <4>1, <4>2 DEF Same
    <3>2. CASE Chosen(r) # {}
      <4>1. CodingOf(e) \in Codings \cup {"identity"}
        BY DEF CodingOf, Codings
      <4>2. coded \in Answer
        BY <2>11, <4>1, AnswerCoding
      <4>3. /\ coded.status = 200 /\ coded.tag = {WeakEtag(r)} /\ coded.date = {m.at} /\ coded.v = v
            /\ ~ coded.game /\ coded.vary = "Accept-Encoding" /\ coded.coding = CodingOf(e)
        BY <2>11, <2>12, <3>2 DEF Answer
      <4>4. a = coded
        BY <3>2
      <4> HIDE DEF coded, a
      <4> QED
        BY <4>2, <4>3, <4>4 DEF Says
    <3> QED
      BY <3>1, <3>2
  <2> HIDE DEF a
  <2>14. Kept(r.target, a)
    BY <1>3, <2>6, <2>7, <2>9, <2>13 DEF Kept, Path
  <2>15. (\E g \in a.tag : g.suffix # "") => Admits(r.accept, a.coding)
    <3>1. CASE Chosen(r) = {}
      BY <2>9, <2>13, <3>1
    <3>2. CASE Chosen(r) # {}
      <4>1. Admits(r.accept, CodingOf(e))
        BY <1>1, <2>1, <3>2, AcceptedIsAdmitted
      <4> QED
        BY <2>13, <3>2, <4>1
    <3> QED
      BY <3>1, <3>2
  <2>16. Good(r, k, a)
    <3>1. a.status # 304 /\ (r.target \in DOMAIN k => k[r.target].v <= a.v)
      BY <2>8, <2>13
    <3> QED
      BY <2>13, <2>14, <2>15, <3>1, Zenon DEF Good
  <2> QED
    BY <1>1, <1>5, <2>13, <2>16, AnswerStep
<1> QED
  BY <1>4, <1>5 DEF ReadFile
-----------------------------------------------------------------------------
(* Pages, assets and JSON.                                                 *)

LEMMA HomeIsNotBuilt == HomePath \notin BuiltPaths /\ AssetPaths \cap BuiltPaths = {}
BY RoutesAssumption

LEMMA RootPageStep == ASSUME IInv, NEW c \in Clients, RootPage(c) PROVE IInv'
<1> DEFINE r == req[c]
           page == [Plain EXCEPT !.keep = TRUE]
           a == MaybeCompress(r.accept, FileOf[HomePath], page)
<1>1. /\ Seen(r, held[c]) /\ Keeps(held[c]) /\ r.at = "root" /\ UNCHANGED <<now, files, built, held>>
      /\ Answers(c, a)
  BY Requests DEF RootPage, At
<1>2. Path(r) = HomePath
  BY <1>1 DEF Seen
<1>3. page \in Answer
  BY PlainIs, AnswerKeep
<1>4. /\ Says(page) /\ ~ page.game /\ page.tag = {} /\ page.date = {} /\ page.status = 200 /\ page.v = 0
  BY PlainIs DEF Answer, Says
<1> HIDE DEF page
<1>5. a \in Answer /\ Same(a, page) /\ Says(a)
  BY <1>3, <1>4, CompressKeeps
<1> HIDE DEF a
<1>6. Good(r, held[c], a)
  BY <1>1, <1>2, <1>4, <1>5, HomeIsNotBuilt, PageGood DEF Same
<1> QED
  BY <1>1, <1>5, <1>6, AnswerStep

LEMMA AssetStep == ASSUME IInv, NEW c \in Clients, Asset(c) PROVE IInv'
<1> DEFINE r == req[c]
           k == held[c]
           t == r.target
           a == AssetAnswer(r)
<1>1. /\ r \in Request /\ Seen(r, k) /\ Conditional(r, k) /\ Keeps(k) /\ r.at = "asset"
      /\ UNCHANGED <<now, files, built, held>>
  BY Requests DEF Asset, At
<1>2. CASE Answers(c, Status(404))
  <2>1. Status(404) \in Answer /\ Good(r, k, Status(404))
    BY StatusGood
  <2> QED
    BY <1>1, <1>2, <2>1, AnswerStep
<1>3. CASE Finds(r) /\ Answers(c, a)
  <2> DEFINE file == FileOf[Path(r)]
             codings == AssetCoding(r.accept, file)
             revalidating == IsStatic(file.kind) /\ \E x \in codings : EtagMatches(r.inm, CodedEtag(x))
             coding == IF codings # {} /\ (revalidating \/ file.packs) THEN The(codings) ELSE "identity"
             game == Path(r) \in GamePaths
  <2>1. Path(r) \in AssetPaths /\ (game => r.game) /\ Path(r) \notin BuiltPaths /\ t[1] = Path(r)
    BY <1>3, HomeIsNotBuilt DEF Finds, Path
  <2>2. file \in File /\ now \in Nat /\ r.accept \in Accepts
    BY <1>1, <2>1, RoutesAssumption DEF Paths, IInv, TypeOK, Times, Request
  <2>3. a = AssetResponse(r.inm, file, coding, now, game)
    BY DEF AssetAnswer
  <2> HIDE DEF revalidating, file, game
  <2>4. coding # "identity" => coding \in codings
    BY DEF The
  <2> HIDE DEF codings, coding
  <2>5. coding # "identity" =>
           coding = "gzip" /\ NegotiatesCoding(file) /\ AcceptsEncoding(r.accept, coding)
    BY <2>4, AssetCodings DEF codings
  <2>6. coding \in Codings \cup {"identity"}
    BY <2>5 DEF Codings
  <2>7. game \in BOOLEAN
    BY DEF game
  <2> HIDE DEF a
  <2>8. /\ a \in Answer /\ Says(a) /\ a.v = 0 /\ (a.game => game)
        /\ \A g \in a.tag : g.of = "asset" /\ g.suffix = Suffix(coding)
        /\ a.status = 200 => a.coding = coding
        /\ a.status = 304 => a.tag # {} /\ a.tag \subseteq r.inm /\ a.date = {}
    <3>1. coding # "identity" => NegotiatesCoding(file)
      BY <2>5
    <3>2. file \in File /\ now \in Nat
      BY <2>2
    <3>3. AssetIs(a, r.inm, coding, game)
      BY <2>3, <2>6, <2>7, <3>1, <3>2, AssetAnswers
    <3> QED
      BY <3>3 DEF AssetIs
  <2>9. r.meta = {}
    BY <1>1, <2>1 DEF Seen
  <2>10. ASSUME a.status = 304 PROVE Confirms(r, k, a)
    <3>1. t \in DOMAIN k /\ a.tag \subseteq k[t].tag /\ a.date = {}
      BY <1>1, <2>8, <2>10 DEF Conditional
    <3> QED
      BY <2>1, <2>8, <2>9, <3>1 DEF Confirms
  <2>11. ASSUME a.status = 200, NEW g \in a.tag, g.suffix # "" PROVE Admits(r.accept, a.coding)
    <3>1. coding # "identity"
      BY <2>8, <2>11 DEF Suffix
    <3> QED
      <4>1. AcceptsEncoding(r.accept, coding) /\ r.accept \in Accepts
        BY <2>2, <2>5, <3>1
      <4>2. Admits(r.accept, coding)
        BY <4>1, AcceptedIsAdmitted
      <4> QED
        BY <2>8, <2>11, <4>2
  <2>12. ASSUME a.status = 200
         PROVE  Kept(t, a) /\ (t \in DOMAIN k => k[t].v <= a.v)
    <3>1. Kept(t, a)
      BY <2>1, <2>8, <2>12 DEF Kept
    <3>2. t \in DOMAIN k => k[t].v = 0
      BY <1>1, <2>1 DEF Keeps, Kept
    <3> QED
      BY <2>8, <3>1, <3>2
  <2>13. a.game => r.game
    BY <2>1, <2>8
  <2>14. Good(r, k, a)
    BY <2>8, <2>10, <2>11, <2>12, <2>13, Zenon DEF Good
  <2> QED
    BY <1>1, <1>3, <2>8, <2>14, AnswerStep
<1> QED
  BY <1>2, <1>3 DEF Asset

LEMMA ApiStep ==
    ASSUME IInv, NEW c \in Clients, NEW usable, NEW asked, Api(c, usable, asked) PROVE IInv'
<1> DEFINE r == req[c]
           file == [kind |-> "script", big |-> TRUE, packs |-> TRUE]
           page == [Plain EXCEPT !.game = ApiGame(r, asked), !.keep = (r.route = "list")]
           a == MaybeCompress(r.accept, file, page)
<1>1. /\ r \in Request /\ Seen(r, held[c]) /\ Keeps(held[c]) /\ r.at = "api"
      /\ UNCHANGED <<now, files, built, held>>
  BY Requests DEF Api, At
<1>2. Path(r) = HomePath /\ r.game \in BOOLEAN
  BY <1>1 DEF Seen, Request
<1>3. CASE Answers(c, Status(400))
  <2>1. Status(400) \in Answer /\ Good(r, held[c], Status(400))
    BY StatusGood
  <2> QED
    BY <1>1, <1>3, <2>1, AnswerStep
<1>4. CASE Answers(c, a)
  <2>1. ApiGame(r, asked) \in BOOLEAN /\ (ApiGame(r, asked) => r.game)
    BY <1>2 DEF ApiGame
  <2>2. page \in Answer
    <3>1. [Plain EXCEPT !.game = ApiGame(r, asked)] \in Answer
      BY <2>1, PlainIs, AnswerGame
    <3>2. (r.route = "list") \in BOOLEAN
      OBVIOUS
    <3> QED
      BY <3>1, <3>2, AnswerKeep
  <2>3. /\ page.game = ApiGame(r, asked) /\ page.tag = {} /\ page.date = {} /\ page.status = 200
        /\ page.v = 0 /\ page.coding = "identity"
    BY PlainIs DEF Answer
  <2> HIDE DEF page, file
  <2>4. a \in Answer /\ Same(a, page) /\ Says(a)
    BY <2>2, <2>3, CompressKeeps DEF Says
  <2> HIDE DEF a
  <2>5. /\ a.game => r.game
        /\ a.tag = {} /\ a.status = 200 /\ a.v = 0 /\ a.date = {}
    BY <2>1, <2>3, <2>4 DEF Same
  <2>6. Kept(r.target, a) /\ (r.target \in DOMAIN held[c] => held[c][r.target].v <= a.v)
    <3>1. r.target[1] \notin BuiltPaths
      BY <1>2, HomeIsNotBuilt DEF Path
    <3> QED
      BY <1>1, <2>5, <3>1 DEF Kept, Keeps
  <2>7. a.status # 304 /\ ~ (\E g \in a.tag : g.suffix # "")
    BY <2>5
  <2>8. Good(r, held[c], a)
    BY <2>4, <2>5, <2>6, <2>7, Zenon DEF Good
  <2> QED
    BY <1>1, <1>4, <2>4, <2>8, AnswerStep
<1>5. Answers(c, Status(400)) \/ Answers(c, a)
  BY DEF Api
<1> QED
  BY <1>3, <1>4, <1>5

-----------------------------------------------------------------------------
(* The beginning and the end of a request.                                 *)

LEMMA IdleIs ==
    /\ Idle \in Request /\ Idle.at = "idle" /\ Idle.target = <<HomePath, "">> /\ Idle.meta = {}
    /\ Idle.fresh = {} /\ Idle.answer = {} /\ Idle.inm = {} /\ Idle.since = {} /\ ~ Idle.game
<1> DEFINE accept == CHOOSE a \in Accepts : TRUE
           target == <<HomePath, "">>
<1>1. accept \in Accepts
  BY RoutesAssumption
<1>2. target \in Targets
  BY DEF Targets, Paths, Exts
<1>3. Idle = [at |-> "idle", method |-> "GET", route |-> "path", target |-> target,
              accept |-> accept, inm |-> {}, since |-> {}, game |-> FALSE,
              meta |-> {}, fresh |-> {}, answer |-> {}]
  BY DEF Idle
<1> HIDE DEF accept, target
<1>4. Idle \in Request
  BY <1>1, <1>2, <1>3 DEF Request, Steps, Apis
<1>5. /\ Idle.at = "idle" /\ Idle.target = target /\ Idle.meta = {} /\ Idle.fresh = {}
      /\ Idle.answer = {} /\ Idle.inm = {} /\ Idle.since = {} /\ ~ Idle.game
  BY <1>3
<1> QED
  BY <1>4, <1>5 DEF target

\* A client that asks nothing is right about everything.
LEMMA IdleGood ==
    ASSUME NEW c, NEW k
    PROVE  Seen(Idle, k) /\ Conditional(Idle, k) /\ Answering(c, Idle, k)
BY IdleIs DEF Seen, Conditional, Answering, Looking, Early, Siblings

\* A request as it comes out of the middlewares.
LEMMA AskStep ==
    ASSUME IInv, NEW c \in Clients, NEW r \in Request, Ask(c, r),
           r.at \in {"dispatch", "api"}, r.meta = {}, r.fresh = {}, r.answer = {},
           r.at = "api" => Path(r) = HomePath, Conditional(r, held[c])
    PROVE  IInv'
<1> DEFINE s == [r EXCEPT !.game = Grants(c)]
<1>1. Grants(c) \in BOOLEAN
  BY DEF Grants
<1>2. s \in Request
  BY <1>1, RequestGame
<1>3. req' = [req EXCEPT ![c] = s] /\ UNCHANGED <<now, files, built, held>>
  BY DEF Ask
<1>4. /\ s.at = r.at /\ s.meta = {} /\ s.fresh = {} /\ s.answer = {} /\ s.target = r.target
      /\ s.inm = r.inm /\ s.since = r.since /\ s.game = Grants(c)
  BY DEF Request
<1>5. Path(s) = Path(r)
  BY <1>4 DEF Path
<1> HIDE DEF s
<1>6. Seen(s, held[c])
  BY <1>4, <1>5 DEF Seen, Looking, Early, Siblings
<1>7. Conditional(s, held[c])
  BY <1>4 DEF Conditional
<1>8. Answering(c, s, held[c])
  BY <1>4 DEF Answering
<1> QED
  BY <1>2, <1>3, <1>6, <1>7, <1>8, RequestStep

LEMMA AskApiStep ==
    ASSUME IInv, NEW c \in Clients, NEW route \in Apis, NEW accept \in Accepts,
           AskApi(c, route, accept)
    PROVE  IInv'
<1> DEFINE started == [Idle EXCEPT !.at = "api"]
           routed == [started EXCEPT !.route = route]
           r == [routed EXCEPT !.accept = accept]
<1>1. started \in Request
  BY IdleIs, RequestAt DEF Steps
<1>2. routed \in Request
  <2> HIDE DEF started
  <2> QED
    BY <1>1, RequestRoute
<1>3. r \in Request
  <2> HIDE DEF routed
  <2> QED
    BY <1>2, RequestAccept
<1>4. /\ r.at = "api" /\ r.meta = {} /\ r.fresh = {} /\ r.answer = {} /\ r.target = <<HomePath, "">>
      /\ r.inm = {} /\ r.since = {}
  BY IdleIs DEF Request
<1>5. Ask(c, r)
  BY IdleIs DEF AskApi, Request
<1> HIDE DEF r
<1>6. Path(r) = HomePath
  BY <1>4, FirstOf DEF Path
<1>7. Conditional(r, held[c])
  BY <1>4 DEF Conditional
<1> QED
  BY <1>3, <1>4, <1>5, <1>6, <1>7, AskStep

LEMMA AskPathStep ==
    ASSUME IInv, NEW c \in Clients, NEW method \in {"GET", "HEAD", "POST"}, NEW t \in Asked,
           NEW accept \in Accepts, NEW cond \in SUBSET {"tag", "date"},
           AskPath(c, method, t, accept, cond)
    PROVE  IInv'
<1> DEFINE k == held[c]
           kept == {k[x] : x \in {t} \cap DOMAIN k}
           inm == IF "tag" \in cond THEN UNION {x.tag : x \in kept} ELSE {}
           since == IF "date" \in cond THEN UNION {x.date : x \in kept} ELSE {}
           started == [Idle EXCEPT !.at = "dispatch"]
           named == [started EXCEPT !.method = method]
           targeted == [named EXCEPT !.target = t]
           accepting == [targeted EXCEPT !.accept = accept]
           tagged == [accepting EXCEPT !.inm = inm]
           r == [tagged EXCEPT !.since = since]
<1>1. \A x \in kept : x \in Held /\ t \in DOMAIN k /\ x = k[t]
  BY DEF IInv, TypeOK
<1>2. /\ inm \in SUBSET Tag /\ since \in SUBSET Nat
      /\ \A g \in inm : t \in DOMAIN k /\ g \in k[t].tag
      /\ \A d \in since : t \in DOMAIN k /\ d \in k[t].date
  <2> HIDE DEF kept
  <2> QED
    BY <1>1 DEF Held
<1>3. t \in Targets
  BY RoutesAssumption DEF Asked, Targets, Paths, Exts, Siblings
<1>4. Ask(c, r)
  BY IdleIs DEF AskPath, Request
<1> HIDE DEF inm, since
<1>5. /\ r.at = "dispatch" /\ r.meta = {} /\ r.fresh = {} /\ r.answer = {} /\ r.target = t
      /\ r.inm = inm /\ r.since = since
  BY IdleIs DEF Request
<1>6. r \in Request
  <2>1. started \in Request
    BY IdleIs, RequestAt DEF Steps
  <2> HIDE DEF started
  <2>2. method \in {"GET", "HEAD", "POST", "OPTIONS"}
    OBVIOUS
  <2>3. named \in Request
    BY <2>1, <2>2, RequestMethod
  <2> HIDE DEF named
  <2>4. targeted \in Request
    BY <1>3, <2>3, RequestTarget
  <2> HIDE DEF targeted
  <2>5. accepting \in Request
    BY <2>4, RequestAccept
  <2> HIDE DEF accepting
  <2>6. tagged \in Request
    BY <1>2, <2>5, RequestInm
  <2> HIDE DEF tagged
  <2> QED
    BY <1>2, <2>6, RequestSince
<1> HIDE DEF r
<1>7. Conditional(r, held[c])
  BY <1>2, <1>5 DEF Conditional
<1> QED
  BY <1>4, <1>5, <1>6, <1>7, AskStep

LEMMA OptionsStep ==
    ASSUME IInv, NEW c \in Clients, NEW origin \in Origins, Options(c, origin) PROVE IInv'
<1> DEFINE a == Preflight(origin)
           started == [Idle EXCEPT !.at = "done"]
           named == [started EXCEPT !.method = "OPTIONS"]
           r == [named EXCEPT !.answer = {a}]
<1>1. Status(204) \in Answer /\ Good(Idle, held[c], Status(204))
  BY StatusGood
<1>2. a \in Answer /\ Same(a, Status(204)) /\ Says(a)
  BY <1>1, CorsKeeps, ZenonT(30) DEF Preflight, Good
<1>3. Status(204).status = 204 /\ ~ Status(204).game
  BY StatusIs
<1> HIDE DEF a
<1>4. req' = [req EXCEPT ![c] = r] /\ UNCHANGED <<now, files, built, held>>
  BY IdleIs DEF Options, Request, a
<1>5. /\ r.at = "done" /\ r.answer = {a} /\ r.meta = {} /\ r.fresh = {} /\ r.inm = {} /\ r.since = {}
      /\ ~ r.game
  BY IdleIs DEF Request
<1>6. r \in Request
  <2>1. started \in Request
    BY IdleIs, RequestAt DEF Steps
  <2> HIDE DEF started
  <2>2. named \in Request
    BY <2>1, RequestMethod
  <2> HIDE DEF named
  <2>3. {a} \in SUBSET Answer
    BY <1>2
  <2> QED
    BY <2>2, <2>3, RequestAnswer
<1> HIDE DEF r
<1>7. Good(r, held[c], a)
  <2>1. a.status # 200 /\ a.status # 304 /\ ~ a.game
    BY <1>2, <1>3 DEF Same
  <2> QED
    BY <1>2, <2>1 DEF Good
<1>8. Seen(r, held[c]) /\ Conditional(r, held[c])
  BY <1>5 DEF Seen, Conditional, Looking, Early, Siblings
<1>9. Answering(c, r, held[c])
  BY <1>2, <1>5, <1>7 DEF Answering
<1> QED
  BY <1>4, <1>6, <1>8, <1>9, RequestStep

-----------------------------------------------------------------------------
(* What the client does with its answer.                                   *)

\* What a client that kept k keeps after an answer.
Wellkept(k, f) ==
    /\ DOMAIN f \subseteq Targets /\ \A t \in DOMAIN f : f[t] \in Held
    /\ Keeps(f)
    /\ \A t \in DOMAIN f \cap DOMAIN k : k[t].v <= f[t].v

LEMMA BindIs ==
    ASSUME NEW f, NEW x, NEW v
    PROVE  /\ DOMAIN Bind(f, x, v) = DOMAIN f \cup {x} /\ Bind(f, x, v)[x] = v
           /\ \A y \in DOMAIN f : y # x => Bind(f, x, v)[y] = f[y]
BY DEF Bind

\* It is new ...
LEMMA WellkeptNew ==
    ASSUME NEW k, Wellkept(k, k), NEW g, DOMAIN g \subseteq DOMAIN k, \A t \in DOMAIN g : g[t] = k[t],
           NEW t \in Targets, NEW h \in Held, Kept(t, h), t \in DOMAIN k => k[t].v <= h.v
    PROVE  Wellkept(k, Bind(g, t, h))
<1> DEFINE f == Bind(g, t, h)
<1>1. /\ DOMAIN f = DOMAIN g \cup {t} /\ f[t] = h
      /\ \A u \in DOMAIN g : u # t => f[u] = g[u]
  BY DEF Bind
<1> HIDE DEF f
<1>2. ASSUME NEW u \in DOMAIN f
      PROVE  u \in Targets /\ f[u] \in Held /\ Kept(u, f[u]) /\ (u \in DOMAIN k => k[u].v <= f[u].v)
  <2>1. CASE u = t
    BY <1>1, <2>1
  <2>2. CASE u # t
    <3>1. u \in DOMAIN k /\ f[u] = k[u]
      BY <1>1, <2>2
    <3>2. k[u] \in Held /\ Kept(u, k[u]) /\ u \in Targets
      BY <3>1 DEF Wellkept, Keeps
    <3>3. k[u].v <= k[u].v
      BY <3>2 DEF Held
    <3> QED
      BY <3>1, <3>2, <3>3
  <2> QED
    BY <2>1, <2>2
<1>3. Wellkept(k, f)
  BY <1>2 DEF Wellkept, Keeps
<1> QED
  BY <1>3 DEF f

\* ... or what it was, with the validators of a 304.
LEMMA WellkeptRenewed ==
    ASSUME NEW k, Wellkept(k, k), NEW t \in DOMAIN k, NEW tag \in SUBSET Tag, NEW date \in SUBSET Nat,
           Kept(t, [[k[t] EXCEPT !.tag = tag] EXCEPT !.date = date])
    PROVE  Wellkept(k, [k EXCEPT ![t] = [[@ EXCEPT !.tag = tag] EXCEPT !.date = date]])
<1> DEFINE h == [[k[t] EXCEPT !.tag = tag] EXCEPT !.date = date]
           f == [k EXCEPT ![t] = h]
<1>1. k[t] \in Held
  BY DEF Wellkept
<1>2. [k[t] EXCEPT !.tag = tag] \in Held
  BY <1>1 DEF Held
<1>3. h \in Held
  BY <1>2 DEF Held
<1>4. h.v = k[t].v
  BY <1>1 DEF Held
<1>5. Kept(t, h)
  OBVIOUS
<1> HIDE DEF h
<1>6. DOMAIN f = DOMAIN k /\ f[t] = h /\ \A u \in DOMAIN k : u # t => f[u] = k[u]
  OBVIOUS
<1> HIDE DEF f
<1>7. ASSUME NEW u \in DOMAIN f
      PROVE  u \in Targets /\ f[u] \in Held /\ Kept(u, f[u]) /\ (u \in DOMAIN k => k[u].v <= f[u].v)
  <2>1. CASE u = t
    <3>1. t \in Targets /\ k[t].v <= h.v
      BY <1>1, <1>4 DEF Wellkept, Held
    <3> QED
      BY <1>3, <1>5, <1>6, <2>1, <3>1
  <2>2. CASE u # t
    <3>1. u \in DOMAIN k /\ f[u] = k[u]
      BY <1>6, <2>2
    <3>2. k[u] \in Held /\ Kept(u, k[u]) /\ u \in Targets
      BY <3>1 DEF Wellkept, Keeps
    <3>3. k[u].v <= k[u].v
      BY <3>2 DEF Held
    <3> QED
      BY <3>1, <3>2, <3>3
  <2> QED
    BY <2>1, <2>2
<1>8. Wellkept(k, f)
  BY <1>7 DEF Wellkept, Keeps
<1> QED
  BY <1>8 DEF f, h

LEMMA KeepIs ==
    ASSUME IInv, NEW c \in Clients, At(c, "done")
    PROVE  Wellkept(held[c], Keep(c, req[c], The(req[c].answer)))
<1> DEFINE r == req[c]
           k == held[c]
           t == r.target
<1>1. PICK a \in Answer : r.answer = {a}
  BY Requests DEF Answering, At
<1>2. The(r.answer) = a
  BY <1>1 DEF The
<1>3. r \in Request /\ Good(r, k, a) /\ Keeps(k) /\ t \in Targets
  BY <1>1, Requests DEF Answering, Request
<1>4. Wellkept(k, k)
  <2>1. \A u \in DOMAIN k : k[u] \in Held /\ u \in Targets
    BY DEF IInv, TypeOK
  <2> QED
    BY <1>3, <2>1 DEF Wellkept, Held
<1> DEFINE kept == Keep(c, r, a)
<1>5. CASE kept = k
  BY <1>2, <1>4, <1>5
<1>6. CASE r.method = "GET" /\ r.route = "path" /\ a.keep /\ a.status = 200
  <2> DEFINE h == [tag |-> a.tag, date |-> a.date, coding |-> a.coding, v |-> a.v]
             room == t \in DOMAIN k \/ Cardinality(DOMAIN k) < MaxHeld
             g == IF room THEN k ELSE [u \in {} |-> u]
  <2>1. kept = Bind(g, t, h)
    BY <1>6 DEF Keep
  <2>2. h \in Held
    BY DEF Held, Answer
  <2>3. Kept(t, a) /\ (t \in DOMAIN k => k[t].v <= a.v)
    BY <1>3, <1>6 DEF Good
  <2>4. Kept(t, h) /\ (t \in DOMAIN k => k[t].v <= h.v)
    BY <2>3 DEF Kept
  <2>5. DOMAIN g \subseteq DOMAIN k /\ \A u \in DOMAIN g : g[u] = k[u]
    OBVIOUS
  <2> HIDE DEF h, g, kept
  <2>6. Wellkept(k, Bind(g, t, h))
    BY <1>3, <1>4, <2>2, <2>4, <2>5, WellkeptNew
  <2> QED
    BY <1>2, <2>1, <2>6 DEF kept
<1>7. CASE r.method = "GET" /\ r.route = "path" /\ a.keep /\ a.status = 304
  <2> DEFINE date == IF a.date = {} THEN k[t].date ELSE a.date
  <2>1. Confirms(r, k, a)
    BY <1>3, <1>7 DEF Good
  <2>2. t \in DOMAIN k
    BY <2>1 DEF Confirms
  <2>3. k[t] \in Held /\ Kept(t, k[t])
    BY <1>3, <2>2 DEF IInv, TypeOK, Keeps
  <2>4. kept = [k EXCEPT ![t] = [[@ EXCEPT !.tag = a.tag] EXCEPT !.date = date]]
    BY <1>7, <2>2, <2>3 DEF Keep, Held
  <2>5. a.tag \in SUBSET Tag /\ date \in SUBSET Nat
    BY <2>3 DEF Held, Answer
  <2> DEFINE h == [[k[t] EXCEPT !.tag = a.tag] EXCEPT !.date = date]
  <2>6. h.tag = a.tag /\ h.date = date /\ h.coding = k[t].coding /\ h.v = k[t].v
    BY <2>3 DEF Held
  <2> HIDE DEF h
  <2>7. Kept(t, h)
    <3>1. CASE Path(r) \in BuiltPaths
      <4>1. PICK m \in Version : /\ r.meta = {m} /\ m.v <= k[t].v /\ a.date = {m.at}
                                 /\ \A y \in a.tag : y.of = "static" /\ y.at = m.at
        BY <2>1, <3>1 DEF Confirms
      <4>2. date = {m.at} /\ t[1] = Path(r)
        BY <4>1 DEF Path
      <4>3. Dated(Path(r), m.v, m.at)
        BY <4>1, Requests DEF Seen
      <4>4. Claim(t, k[t].v)
        BY <2>3, <3>1, <4>2 DEF Kept
      <4>5. Dated(Path(r), k[t].v, m.at)
        <5>1. k[t].v \in Nat
          BY <2>3 DEF Held
        <5>2. ASSUME NEW f \in Version, Older(m.v, m.at, f) PROVE Older(k[t].v, m.at, f)
          BY <4>1, <5>1, <5>2 DEF Older, Version
        <5>3. \A u \in DOMAIN files : files[u] \in Version
          BY DEF IInv, TypeOK
        <5> QED
          BY <4>3, <5>2, <5>3 DEF Dated
      <4> QED
        BY <2>6, <3>1, <4>1, <4>2, <4>4, <4>5 DEF Kept
    <3>2. CASE Path(r) \notin BuiltPaths
      <4>1. a.tag \subseteq k[t].tag
        BY <2>1, <3>2 DEF Confirms
      <4>2. t[1] = Path(r)
        BY DEF Path
      <4> QED
        BY <2>3, <2>6, <3>2, <4>1, <4>2 DEF Kept
    <3> QED
      BY <3>1, <3>2
  <2> HIDE DEF date, kept
  <2>8. Wellkept(k, [k EXCEPT ![t] = [[@ EXCEPT !.tag = a.tag] EXCEPT !.date = date]])
    BY <1>4, <2>2, <2>5, <2>7, WellkeptRenewed DEF h
  <2> QED
    BY <1>2, <2>4, <2>8 DEF kept
<1>8. \/ kept = k
      \/ r.method = "GET" /\ r.route = "path" /\ a.keep /\ a.status = 200
      \/ r.method = "GET" /\ r.route = "path" /\ a.keep /\ a.status = 304
  BY DEF Keep
<1> QED
  BY <1>5, <1>6, <1>7, <1>8

LEMMA DeliverStep ==
    ASSUME IInv, NEW c \in Clients, Deliver(c)
    PROVE  IInv' /\ \A d \in Clients : \A t \in DOMAIN held[d] \cap DOMAIN held'[d] :
                       held[d][t].v <= held'[d][t].v
<1> DEFINE f == Keep(c, req[c], The(req[c].answer))
<1>1. Wellkept(held[c], f)
  BY KeepIs DEF Deliver
<1>2. /\ held' = [held EXCEPT ![c] = f] /\ req' = [req EXCEPT ![c] = Idle]
      /\ UNCHANGED <<now, files, built>>
  BY DEF Deliver
<1> HIDE DEF f
<1>3. /\ held'[c] = f /\ \A d \in Clients : d # c => held'[d] = held[d]
      /\ held' = [d \in Clients |-> held'[d]]
  BY <1>2 DEF IInv
<1>4. /\ req' \in [Clients -> Request] /\ req'[c] = Idle /\ \A d \in Clients : d # c => req'[d] = req[d]
  <2>1. req \in [Clients -> Request] /\ Idle \in Request
    BY Requests, IdleIs
  <2> QED
    BY <1>2, <2>1
<1>5. \A d \in Clients : DOMAIN held'[d] \subseteq Targets /\ \A t \in DOMAIN held'[d] : held'[d][t] \in Held
  BY <1>1, <1>3 DEF Wellkept, IInv, TypeOK
<1>6. TypeOK'
  BY <1>2, <1>4, <1>5 DEF IInv, TypeOK
<1>7. DiskInv'
  BY <1>2 DEF IInv, DiskInv, Claim, Dated
<1>8. ASSUME NEW d \in Clients PROVE ClientInv(d)'
  <2> DEFINE r == req'[d]
             k == held'[d]
  <2>1. Keeps(k) /\ Seen(r, k) /\ Conditional(r, k) /\ Answering(d, r, k)
    <3>1. CASE d = c
      <4>1. r = Idle /\ k = f
        BY <1>3, <1>4, <3>1
      <4> HIDE DEF r, k
      <4> QED
        BY <1>1, <4>1, IdleGood DEF Wellkept
    <3>2. CASE d # c
      BY <1>3, <1>4, <3>2, Requests
    <3> QED
      BY <3>1, <3>2
  <2>2. Keeps(held[d])'
    BY <1>2, <2>1 DEF Keeps, Kept, Claim, Dated
  <2>3. Seen(req[d], held[d])'
    BY <1>2, <2>1, ZenonT(30) DEF Seen, Claim, Dated, Before, Older
  <2>4. Conditional(req[d], held[d])'
    BY <1>2, <2>1 DEF Conditional
  <2>5. ASSUME NEW a, Good(r, k, a) PROVE Good(req[d], held[d], a)'
    BY <1>2, <2>5 DEF Good, Confirms, Kept, Claim, Dated
  <2>6. Answering(d, req[d], held[d])'
    BY <2>1, <2>5 DEF Answering
  <2> QED
    BY <2>2, <2>3, <2>4, <2>6 DEF ClientInv
<1>9. \A d \in Clients : \A t \in DOMAIN held[d] \cap DOMAIN held'[d] : held[d][t].v <= held'[d][t].v
  <2>1. ASSUME NEW d \in Clients, d # c, NEW t \in DOMAIN held[d] PROVE held[d][t].v <= held[d][t].v
    BY DEF IInv, TypeOK, Held
  <2> QED
    BY <1>1, <1>3, <2>1 DEF Wellkept
<1> QED
  BY <1>3, <1>6, <1>7, <1>8, <1>9 DEF IInv

-----------------------------------------------------------------------------
(* What time and the builder do.                                           *)

\* What is known of a version of a built file after a step.
Stable(t, v) ==
    /\ Claim(t, v)'
    /\ \A at \in Nat : Dated(t[1], v, at) => Dated(t[1], v, at)'

LEMMA WorldStep ==
    ASSUME IInv, TypeOK', DiskInv', UNCHANGED <<req, held>>,
           \A t \in Targets, v \in Nat : t[1] \in BuiltPaths /\ Claim(t, v) => Stable(t, v),
           \A t \in DOMAIN files' : \/ t \in DOMAIN files /\ files'[t] = files[t]
                                    \/ built[t[1]].v <= files'[t].v
    PROVE  IInv'
<1>1. ASSUME NEW t \in Targets, NEW h, h.v \in Nat, h.date \in SUBSET Nat, h.tag \in SUBSET Tag, Kept(t, h)
      PROVE  Kept(t, h)'
  <2>1. CASE t[1] \in BuiltPaths
    <3>1. Stable(t, h.v)
      BY <1>1, <2>1 DEF Kept
    <3>2. \A d \in h.date : Dated(t[1], h.v, d)'
      BY <1>1, <2>1, <3>1 DEF Kept, Stable
    <3>3. \A g \in h.tag : g.of = "static" /\ Dated(t[1], h.v, g.at)'
      BY <1>1, <2>1, <3>1 DEF Kept, Stable, Tag
    <3> QED
      BY <1>1, <2>1, <3>1, <3>2, <3>3 DEF Kept, Stable
  <2>2. CASE t[1] \notin BuiltPaths
    BY <1>1, <2>2 DEF Kept
  <2> QED
    BY <2>1, <2>2
<1>2. ASSUME NEW c \in Clients PROVE ClientInv(c)'
  <2> DEFINE r == req[c]
             k == held[c]
  <2>1. /\ r \in Request /\ Seen(r, k) /\ Conditional(r, k) /\ Answering(c, r, k) /\ Keeps(k)
        /\ r.target \in Targets /\ DOMAIN k \subseteq Targets /\ \A t \in DOMAIN k : k[t] \in Held
    BY Requests DEF Request, IInv, TypeOK
  <2>2. Keeps(held[c])'
    BY <1>1, <2>1 DEF Keeps, Held
  <2>3. ASSUME NEW m \in r.meta
        PROVE  /\ Claim(r.target, m.v)' /\ Dated(Path(r), m.v, m.at)'
               /\ \A e \in Exts : <<Path(r), e>> \in DOMAIN files' =>
                     /\ Older(files'[<<Path(r), e>>].v, files'[<<Path(r), e>>].at, m)
                     /\ e \in r.fresh => m.v <= files'[<<Path(r), e>>].v
    <3>1. m.v \in Nat /\ m.at \in Nat /\ r.target[1] = Path(r)
      BY <2>1, <2>3 DEF Request, Version, Path
    <3>2. Path(r) \in BuiltPaths /\ Claim(r.target, m.v) /\ Dated(Path(r), m.v, m.at)
      BY <2>1, <2>3 DEF Seen
    <3>3. Stable(r.target, m.v)
      BY <2>1, <3>1, <3>2
    <3>4. ASSUME NEW e \in Exts, <<Path(r), e>> \in DOMAIN files'
          PROVE  /\ Older(files'[<<Path(r), e>>].v, files'[<<Path(r), e>>].at, m)
                 /\ e \in r.fresh => m.v <= files'[<<Path(r), e>>].v
      <4> DEFINE t == <<Path(r), e>>
      <4>1. CASE t \in DOMAIN files /\ files'[t] = files[t]
        BY <2>1, <2>3, <3>4, <4>1 DEF Seen
      <4>2. CASE built[t[1]].v <= files'[t].v
        <5>1. m.v \in 1 .. built[Path(r)].v
          BY <3>1, <3>2 DEF Claim
        <5>2. built[Path(r)].v \in Nat /\ files'[t].v \in Nat
          BY <3>2, <3>4 DEF IInv, TypeOK, Version
        <5>3. m.v <= files'[t].v
          BY <3>1, <4>2, <5>1, <5>2
        <5> QED
          BY <3>1, <5>2, <5>3 DEF Older
      <4> QED
        BY <3>4, <4>1, <4>2
    <3> QED
      BY <3>1, <3>2, <3>3, <3>4 DEF Stable
  <2>4. Seen(req[c], held[c])'
    BY <2>1, <2>3 DEF Seen, Before, Older, Looking, Early, Siblings
  <2>5. Conditional(req[c], held[c])'
    BY <2>1 DEF Conditional
  <2>6. ASSUME NEW a \in Answer, Good(r, k, a) PROVE Good(req[c], held[c], a)'
    <3>1. Kept(r.target, a) => Kept(r.target, a)'
      BY <1>1, <2>1 DEF Answer
    <3> QED
      BY <2>6, <3>1, ZenonT(30) DEF Good, Confirms
  <2>7. Answering(c, req[c], held[c])'
    BY <2>1, <2>6 DEF Answering, Request
  <2> QED
    BY <2>2, <2>4, <2>5, <2>7 DEF ClientInv
<1> QED
  BY <1>2 DEF IInv

LEMMA NowIs == ASSUME IInv PROVE now \in Nat /\ BuildGap \in Nat
BY RoutesAssumption DEF IInv, TypeOK, Times

LEMMA VersionsAre ==
    ASSUME IInv
    PROVE  /\ \A p \in BuiltPaths : /\ built[p].v \in Nat /\ built[p].at \in Nat
                                  /\ built[p].at <= now
           /\ \A t \in DOMAIN files : files[t].v \in Nat /\ files[t].at \in Nat
BY DEF IInv, TypeOK, DiskInv, Version

LEMMA TickStep == ASSUME IInv, Tick PROVE IInv'
<1>1. TypeOK'
  BY RoutesAssumption DEF IInv, TypeOK, Tick, Times
<1>2. DiskInv'
  <2>1. \A p \in BuiltPaths : built[p].at \in Nat /\ built[p].at <= now
    BY DEF IInv, TypeOK, DiskInv, Version
  <2>2. now \in Nat /\ now' = now + 1 /\ UNCHANGED <<files, built>>
    BY NowIs DEF Tick
  <2>3. \A p \in BuiltPaths : built[p].at <= now'
    BY <2>1, <2>2
  <2> QED
    BY <2>2, <2>3 DEF IInv, DiskInv, Claim, Dated
<1>3. \A t \in Targets, v \in Nat : t[1] \in BuiltPaths /\ Claim(t, v) => Stable(t, v)
  BY DEF Tick, Stable, Claim, Dated
<1> QED
  BY <1>1, <1>2, <1>3, WorldStep DEF Tick

LEMMA RemoveStep == ASSUME IInv, NEW t \in BuiltPaths \X Exts, Remove(t) PROVE IInv'
<1>1. /\ DOMAIN files' \subseteq DOMAIN files /\ \A u \in DOMAIN files' : files'[u] = files[u]
      /\ UNCHANGED <<now, built, req, held>>
  BY DEF Remove, Without
<1>2. TypeOK'
  BY <1>1 DEF IInv, TypeOK
<1>3. ASSUME NEW u \in Targets, NEW v, Claim(u, v) PROVE Stable(u, v)
  BY <1>1, <1>3 DEF Stable, Claim, Dated
<1>4. DiskInv'
  <2>1. ASSUME NEW u \in DOMAIN files'
        PROVE  (Claim(u, files[u].v) /\ Dated(u[1], files[u].v, files[u].at))'
    <3>1. u \in DOMAIN files /\ u \in Targets /\ files[u].at \in Nat
      BY <1>1 DEF IInv, TypeOK, Targets, Paths, Version
    <3>2. Claim(u, files[u].v) /\ Dated(u[1], files[u].v, files[u].at)
      BY <3>1 DEF IInv, DiskInv
    <3> QED
      BY <1>1, <1>3, <3>1, <3>2 DEF Stable
  <2> QED
    BY <1>1, <2>1 DEF IInv, DiskInv
<1> QED
  BY <1>1, <1>2, <1>3, <1>4, WorldStep

Later(p, e, v) ==
    /\ v \in Nat /\ v > 0 /\ built[p].v <= v
    /\ e # "" => v = built[p].v
    /\ \A w, at \in Nat : w \in 1 .. built[p].v /\ w < v /\ Dated(p, w, at) => at + BuildGap <= now

Write(p, e, v) ==
    /\ files' = Bind(files, <<p, e>>, [v |-> v, at |-> now])
    /\ built' = [built EXCEPT ![p] = [v |-> v, at |-> now]]
    /\ UNCHANGED <<now, req, held>>

\* A file is written: of the version that its path's last build has, or of a
\* new one, long after whatever an older one is known by.
LEMMA WriteStep ==
    ASSUME IInv, NEW p \in BuiltPaths, NEW e \in Exts, NEW v, Later(p, e, v), Write(p, e, v)
    PROVE  IInv'
<1> DEFINE t == <<p, e>>
           f == [v |-> v, at |-> now]
<1>1. /\ DOMAIN files' = DOMAIN files \cup {t} /\ files'[t] = f
      /\ \A u \in DOMAIN files : u # t => files'[u] = files[u]
  BY DEF Bind, Write
<1>2. now \in Nat /\ v \in Nat /\ v > 0 /\ built[p].v <= v /\ f \in Version /\ f.v = v /\ f.at = now /\ t \in BuiltPaths \X Exts
  BY NowIs DEF Version, Later, IInv, TypeOK
<1> HIDE DEF f
<1>3. /\ built \in [BuiltPaths -> Version] /\ built' \in [BuiltPaths -> Version] /\ built'[p] = f
      /\ \A q \in BuiltPaths : q # p => built'[q] = built[q]
  BY <1>2 DEF IInv, TypeOK, f, Write
<1>4. TypeOK'
  <2>1. \A u \in DOMAIN files' : files'[u] \in Version
    BY <1>1, <1>2 DEF IInv, TypeOK
  <2> QED
    BY <1>1, <1>2, <1>3, <2>1 DEF IInv, TypeOK, Write
<1>5. \A q \in BuiltPaths : /\ built[q].v \in Nat /\ built[q].at \in Nat /\ built'[q].v \in Nat
                            /\ built'[q].at \in Nat /\ built[q].v <= built'[q].v
                            /\ built[q].at <= built'[q].at /\ built'[q].at <= now
  <2>1. TAKE q \in BuiltPaths
  <2>2. built[q].v \in Nat /\ built[q].at \in Nat /\ built[q].at <= now
    BY VersionsAre
  <2>3. CASE q = p
    <3>1. built'[q].v = v /\ built'[q].at = now
      BY <1>2, <1>3, <2>3
    <3>2. built[q].v <= v /\ now \in Nat /\ v \in Nat
      BY <1>2, <2>3 DEF Later
    <3> QED
      BY <2>2, <3>1, <3>2
  <2>4. CASE q # p
    <3>1. built'[q] = built[q]
      BY <1>3, <2>4
    <3> QED
      BY <2>2, <3>1
  <2> QED
    BY <2>3, <2>4
<1>6. ASSUME NEW u \in Targets, NEW w \in Nat, u[1] \in BuiltPaths, Claim(u, w)
      PROVE  Stable(u, w)
  <2>1. w \in 1 .. built[u[1]].v
    BY <1>6 DEF Claim
  <2>2. w \in 1 .. built'[u[1]].v
    BY <1>5, <1>6, <2>1
  <2>3. u \in DOMAIN files' => w <= files'[u].v
    <3>1. CASE u = t
      <4>1. w <= built[p].v /\ built[p].v \in Nat
        BY <1>5, <2>1, <3>1
      <4> QED
        BY <1>1, <1>2, <3>1, <4>1
    <3>2. CASE u # t
      BY <1>1, <1>6, <3>2 DEF Claim
    <3> QED
      BY <3>1, <3>2
  <2>4. ASSUME NEW at \in Nat, Dated(u[1], w, at) PROVE Dated(u[1], w, at)'
    <3>1. at <= built'[u[1]].at
      BY <1>5, <1>6, <2>4 DEF Dated
    <3>2. ASSUME NEW x \in Exts, <<u[1], x>> \in DOMAIN files'
          PROVE  Older(w, at, files'[<<u[1], x>>])
      <4>1. CASE <<u[1], x>> = t
        <5>1. u[1] = p
          BY <4>1
        <5>2. w < v => at + BuildGap <= now
          BY <2>1, <2>4, <5>1 DEF Later
        <5> QED
          BY <1>1, <1>2, <4>1, <5>2 DEF Older
      <4>2. CASE <<u[1], x>> # t
        BY <1>1, <2>4, <3>2, <4>2 DEF Dated
      <4> QED
        BY <4>1, <4>2
    <3> QED
      BY <3>1, <3>2 DEF Dated
  <2> QED
    BY <2>2, <2>3, <2>4 DEF Stable, Claim
<1>7. DiskInv'
  <2>1. ASSUME NEW u \in DOMAIN files'
        PROVE  /\ (Claim(u, files[u].v) /\ Dated(u[1], files[u].v, files[u].at))'
               /\ u[2] = "" => files'[u].v = built'[u[1]].v
    <3>1. u \in BuiltPaths \X Exts /\ u \in Targets
      BY <1>1, <1>2 DEF IInv, TypeOK, Targets, Paths
    <3>2. CASE u = t
      <4>1. u[1] = p
        BY <3>2
      <4>2. Claim(u, files[u].v)'
        <5>1. files'[u].v = v /\ built'[u[1]].v = v
          BY <1>1, <1>2, <1>3, <3>2, <4>1
        <5> QED
          BY <1>2, <5>1 DEF Claim
      <4>3. Dated(u[1], files[u].v, files[u].at)'
        <5>1. files'[u].v = v /\ files'[u].at = now /\ built'[u[1]].at = now
          BY <1>1, <1>2, <1>3, <3>2, <4>1
        <5>2. ASSUME NEW x \in Exts, <<p, x>> \in DOMAIN files' PROVE files'[<<p, x>>].v <= v
          <6>1. CASE <<p, x>> = t
            BY <1>1, <1>2, <6>1
          <6>2. CASE <<p, x>> # t
            <7>1. <<p, x>> \in DOMAIN files /\ files'[<<p, x>>] = files[<<p, x>>]
              BY <1>1, <5>2, <6>2
            <7>2. Claim(<<p, x>>, files[<<p, x>>].v)
              BY <7>1 DEF IInv, DiskInv
            <7>3. files[<<p, x>>].v <= built[p].v /\ files[<<p, x>>].v \in Nat /\ built[p].v \in Nat
              BY <1>5, <7>2 DEF Claim
            <7> QED
              BY <1>2, <7>1, <7>3
          <6> QED
            BY <6>1, <6>2
        <5>3. \A x \in Exts : <<p, x>> \in DOMAIN files' => files'[<<p, x>>] \in Version
          BY <1>4 DEF TypeOK
        <5> QED
          BY <1>2, <4>1, <5>1, <5>2, <5>3 DEF Dated, Older, Version
      <4>4. files'[u].v = built'[u[1]].v
        BY <1>1, <1>3, <3>2, <4>1
      <4> QED
        BY <4>2, <4>3, <4>4
    <3>3. CASE u # t
      <4>1. u \in DOMAIN files /\ files'[u] = files[u]
        BY <1>1, <3>3
      <4>2. Claim(u, files[u].v) /\ Dated(u[1], files[u].v, files[u].at)
        BY <4>1 DEF IInv, DiskInv
      <4>3. files[u].v \in Nat /\ files[u].at \in Nat /\ u[1] \in BuiltPaths
        BY <3>1, <4>1 DEF IInv, TypeOK, Version
      <4>4. Stable(u, files[u].v)
        BY <1>6, <3>1, <4>2, <4>3
      <4>5. (Claim(u, files[u].v) /\ Dated(u[1], files[u].v, files[u].at))'
        BY <4>1, <4>2, <4>3, <4>4 DEF Stable
      <4>6. u[2] = "" => files'[u].v = built'[u[1]].v
        <5>1. CASE u[1] = p /\ u[2] = ""
          <6>1. e # "" /\ v = built[p].v
            <7>1. u = <<u[1], u[2]>>
              BY <3>1
            <7>2. e # ""
              BY <3>3, <5>1, <7>1
            <7> QED
              BY <7>2 DEF Later
          <6>2. files[u].v = built[p].v
            BY <4>1, <5>1 DEF IInv, DiskInv
          <6> QED
            BY <1>2, <1>3, <4>1, <5>1, <6>1, <6>2
        <5>2. CASE u[1] # p
          BY <1>3, <4>1, <4>3, <5>2 DEF IInv, DiskInv
        <5> QED
          BY <5>1, <5>2
      <4> QED
        BY <4>5, <4>6
    <3> QED
      BY <3>2, <3>3
  <2>2. now' = now
    BY DEF Write
  <2> QED
    BY <1>3, <1>5, <2>1, <2>2 DEF DiskInv
<1>8. \A u \in DOMAIN files' : \/ u \in DOMAIN files /\ files'[u] = files[u]
                               \/ built[u[1]].v <= files'[u].v
  <2>1. t[1] = p
    OBVIOUS
  <2> HIDE DEF t
  <2> QED
    BY <1>1, <1>2, <2>1
<1>9. UNCHANGED <<req, held>>
  BY DEF Write
<1> QED
  BY <1>4, <1>6, <1>7, <1>8, <1>9, WorldStep

LEMMA BuildStep == ASSUME IInv, NEW p \in BuiltPaths, Build(p) PROVE IInv'
<1> DEFINE v == built[p].v + 1
           last == built[p]
<1>1. last.v \in Nat /\ last.at \in Nat /\ now \in Nat /\ BuildGap \in Nat
  BY NowIs, VersionsAre
<1>2. last.v > 0 => last.at + BuildGap <= now
  BY DEF Build
<1>3. ASSUME NEW w \in Nat, NEW at \in Nat, w \in 1 .. last.v, Dated(p, w, at)
      PROVE  at + BuildGap <= now
  <2>1. at <= last.at
    BY <1>3 DEF Dated
  <2>2. last.v > 0
    BY <1>1, <1>3
  <2> HIDE DEF last
  <2> QED
    BY <1>1, <1>2, <2>1, <2>2
<1>4. Write(p, "", v)
  BY DEF Build, Write
<1>5. v \in Nat /\ v > 0 /\ built[p].v <= v
  BY <1>1
<1> HIDE DEF v
<1>6. Later(p, "", v)
  BY <1>3, <1>5 DEF Later
<1> QED
  BY <1>4, <1>6, WriteStep DEF Exts

LEMMA CompressStep ==
    ASSUME IInv, NEW p \in BuiltPaths, NEW ext \in Siblings, Compress(p, ext) PROVE IInv'
<1> DEFINE v == built[p].v
           plain == files[<<p, "">>]
<1>1. <<p, "">> \in DOMAIN files /\ <<p, "">> \in BuiltPaths \X Exts
  BY DEF Compress, IInv, TypeOK
<1>2. /\ v \in Nat /\ built[p].at \in Nat /\ built[p].at <= now /\ now \in Nat /\ BuildGap \in Nat
      /\ plain.v \in Nat /\ plain.at \in Nat
  BY <1>1, NowIs, VersionsAre
<1>3. plain.v = v /\ plain.v \in 1 .. v /\ plain.at <= built[p].at
  <2>1. <<p, "">>[1] = p /\ <<p, "">>[2] = ""
    OBVIOUS
  <2>2. Claim(<<p, "">>, plain.v) /\ Dated(p, plain.v, plain.at) /\ plain.v = built[p].v
    BY <1>1, <2>1 DEF IInv, DiskInv
  <2> QED
    BY <2>1, <2>2 DEF Claim, Dated
<1>4. Write(p, ext, v)
  BY DEF Compress, Write
<1> DEFINE last == built[p].at
<1> HIDE DEF v, last
<1>5. ASSUME NEW w \in Nat, NEW at \in Nat, w < v, Dated(p, w, at) PROVE at + BuildGap <= now
  <2>1. Older(w, at, plain)
    BY <1>1, <1>5 DEF Dated, Exts
  <2> HIDE DEF plain
  <2>2. at + BuildGap <= plain.at
    BY <1>3, <1>5, <2>1 DEF Older
  <2> QED
    BY <1>2, <1>3, <2>2 DEF last
<1>6. v \in Nat /\ v > 0
  <2> HIDE DEF plain
  <2> QED
    BY <1>2, <1>3
<1>7. v = built[p].v
  BY DEF v
<1>8. ext \in Exts
  BY DEF Exts, Siblings
<1>9. Later(p, ext, v)
  BY <1>5, <1>6, <1>7 DEF Later
<1> QED
  BY <1>4, <1>8, <1>9, WriteStep

-----------------------------------------------------------------------------
(* Every step.                                                             *)

LEMMA InitInv == Init => IInv
<1> SUFFICES ASSUME Init PROVE IInv
  OBVIOUS
<1>1. /\ now = 0 /\ DOMAIN files = {} /\ built = [p \in BuiltPaths |-> [v |-> 0, at |-> 0]]
      /\ req = [c \in Clients |-> Idle] /\ held = [c \in Clients |-> [t \in {} |-> t]]
  BY DEF Init
<1>2. now \in Times
  BY <1>1, RoutesAssumption DEF Times
<1>3. built \in [BuiltPaths -> Version] /\ \A p \in BuiltPaths : built[p].at = 0
  BY <1>1 DEF Version
<1>4. \A c \in Clients : DOMAIN held[c] = {}
  BY <1>1
<1>5. req \in [Clients -> Request]
  BY <1>1, IdleIs
<1>6. TypeOK
  BY <1>1, <1>2, <1>3, <1>4, <1>5 DEF TypeOK
<1>7. DiskInv
  BY <1>1, <1>3 DEF DiskInv
<1>8. ASSUME NEW c \in Clients PROVE ClientInv(c)
  <2>1. req[c] = Idle /\ Keeps(held[c])
    BY <1>1, <1>4 DEF Keeps
  <2> QED
    BY <2>1, IdleGood DEF ClientInv
<1>9. held = [c \in Clients |-> held[c]]
  BY <1>1
<1> QED
  BY <1>6, <1>7, <1>8, <1>9 DEF IInv

LEMMA ServeStep == ASSUME IInv, NEW c \in Clients, Serve(c) PROVE IInv'
BY DispatchStep, ReadMetadataStep, LookForSiblingStep, DecideStep, ReadFileStep, RootPageStep,
   AssetStep, ApiStep DEF Serve

\* A client's answers change nothing that another keeps, and no other step
\* changes what is kept.
NoneGoesBack ==
    \A c \in Clients : \A t \in DOMAIN held[c] \cap DOMAIN held'[c] : held'[c][t].v >= held[c][t].v

LEMMA HeldStays == ASSUME IInv, UNCHANGED held PROVE NoneGoesBack
<1>1. \A c \in Clients : \A t \in DOMAIN held[c] : held[c][t].v \in Nat
  BY DEF IInv, TypeOK, Held
<1> QED
  BY <1>1 DEF NoneGoesBack

LEMMA NextStep == ASSUME IInv, Next PROVE IInv' /\ NoneGoesBack
<1>1. CASE Tick
  BY <1>1, TickStep, HeldStays DEF Tick
<1>2. ASSUME NEW p \in BuiltPaths, Build(p) PROVE IInv' /\ NoneGoesBack
  BY <1>2, BuildStep, HeldStays DEF Build
<1>3. ASSUME NEW p \in BuiltPaths, NEW ext \in Siblings, Compress(p, ext) PROVE IInv' /\ NoneGoesBack
  BY <1>3, CompressStep, HeldStays DEF Compress
<1>4. ASSUME NEW t \in BuiltPaths \X Exts, Remove(t) PROVE IInv' /\ NoneGoesBack
  BY <1>4, RemoveStep, HeldStays DEF Remove
<1>5. ASSUME NEW c \in Clients, NEW origin \in Origins, Options(c, origin)
      PROVE  IInv' /\ NoneGoesBack
  BY <1>5, OptionsStep, HeldStays DEF Options
<1>6. ASSUME NEW c \in Clients, NEW accept \in Accepts, NEW method \in {"GET", "HEAD", "POST"},
             NEW t \in Asked, NEW cond \in SUBSET {"tag", "date"},
             AskPath(c, method, t, accept, cond)
      PROVE  IInv' /\ NoneGoesBack
  <2>1. UNCHANGED held
    BY <1>6 DEF AskPath, Ask
  <2> QED
    BY <1>6, <2>1, AskPathStep, HeldStays
<1>7. ASSUME NEW c \in Clients, NEW accept \in Accepts, NEW route \in Apis, AskApi(c, route, accept)
      PROVE  IInv' /\ NoneGoesBack
  BY <1>7, AskApiStep, HeldStays DEF AskApi, Ask
<1>8. ASSUME NEW c \in Clients, Serve(c) PROVE IInv' /\ NoneGoesBack
  <2>1. UNCHANGED held
    BY <1>8 DEF Serve, Dispatch, ReadMetadata, LookForSibling, Decide, ReadFile, RootPage, Asset, Api
  <2> QED
    BY <1>8, <2>1, ServeStep, HeldStays
<1>9. ASSUME NEW c \in Clients, Deliver(c) PROVE IInv' /\ NoneGoesBack
  <2>1. IInv' /\ \A d \in Clients : \A t \in DOMAIN held[d] \cap DOMAIN held'[d] :
                    held[d][t].v <= held'[d][t].v
    BY <1>9, DeliverStep
  <2>2. \A d \in Clients : \A t \in DOMAIN held'[d] : held'[d][t].v \in Nat
    BY <2>1 DEF IInv, TypeOK, Held
  <2>3. \A d \in Clients : \A t \in DOMAIN held[d] : held[d][t].v \in Nat
    BY DEF IInv, TypeOK, Held
  <2> QED
    BY <2>1, <2>2, <2>3 DEF NoneGoesBack
<1> QED
  BY <1>1, <1>2, <1>3, <1>4, <1>5, <1>6, <1>7, <1>8, <1>9 DEF Next

LEMMA StutterStep == ASSUME IInv, UNCHANGED vars PROVE IInv' /\ NoneGoesBack
<1>1. UNCHANGED <<now, files, built, req, held>>
  BY DEF vars
<1>2. TypeOK' /\ DiskInv'
  BY <1>1 DEF IInv, TypeOK, DiskInv, Claim, Dated
<1>3. \A t \in Targets, v \in Nat : t[1] \in BuiltPaths /\ Claim(t, v) => Stable(t, v)
  BY <1>1 DEF Stable, Claim, Dated
<1> QED
  BY <1>1, <1>2, <1>3, WorldStep, HeldStays

LEMMA Invariance == Spec => []IInv
<1>1. IInv /\ [Next]_vars => IInv'
  BY NextStep, StutterStep
<1> QED
  BY <1>1, InitInv, PTL DEF Spec

-----------------------------------------------------------------------------
(* The properties.                                                         *)

\* Everything the model keeps has its type, for any number of clients.
THEOREM RoutesTypeCorrect == Spec => []TypeOK
<1>1. IInv => TypeOK
  BY DEF IInv
<1> QED
  BY <1>1, Invariance, PTL

\* A 304 of the built client (serve_static) never confirms code older than the
\* file that the request looked at.
THEOREM NoStale304 == Spec => []ConfirmedIsCurrent
<1>1. ASSUME IInv PROVE ConfirmedIsCurrent
  <2> SUFFICES ASSUME NEW c \in Clients, Answered(c, 304), NEW m \in req[c].meta
               PROVE  /\ req[c].target \in DOMAIN held[c]
                      /\ held[c][req[c].target].v >= m.v
    BY DEF ConfirmedIsCurrent
  <2>1. PICK a \in req[c].answer : a.status = 304
    BY DEF Answered
  <2>2. Good(req[c], held[c], a)
    BY <1>1, Requests DEF Answering
  <2>3. Confirms(req[c], held[c], a)
    BY <2>1, <2>2 DEF Good
  <2>4. req[c].target \in DOMAIN held[c]
    BY <2>3 DEF Confirms
  <2>5. held[c][req[c].target].v \in Nat
    BY <1>1, <2>4 DEF IInv, TypeOK, Held
  <2>6. m.v \in Nat /\ m.v <= held[c][req[c].target].v
    BY <2>3 DEF Confirms, Version
  <2> QED
    BY <2>4, <2>5, <2>6
<1> QED
  BY <1>1, Invariance, PTL

\* A 304 of an asset (asset_response) is of the coding that the client holds.
THEOREM NoForeign304 == Spec => []ConfirmedIsHeld
<1>1. ASSUME IInv PROVE ConfirmedIsHeld
  <2> SUFFICES ASSUME NEW c \in Clients, Answered(c, 304), req[c].meta = {}, NEW a \in req[c].answer
               PROVE  /\ req[c].target \in DOMAIN held[c]
                      /\ \A g \in a.tag : g.suffix = Suffix(held[c][req[c].target].coding)
    BY DEF ConfirmedIsHeld
  <2>1. Good(req[c], held[c], a) /\ Keeps(held[c]) /\ \E b \in Answer : req[c].answer = {b}
    BY <1>1, Requests DEF Answering, Answered, At
  <2>2. a.status = 304
    BY <2>1 DEF Answered
  <2>3. Confirms(req[c], held[c], a)
    BY <2>1, <2>2 DEF Good
  <2>4. /\ req[c].target \in DOMAIN held[c]
        /\ a.tag \subseteq held[c][req[c].target].tag /\ \A g \in a.tag : g.of = "asset"
    BY <2>3 DEF Confirms
  <2>5. Kept(req[c].target, held[c][req[c].target])
    BY <2>1, <2>4 DEF Keeps
  <2> QED
    BY <2>4, <2>5 DEF Kept
<1> QED
  BY <1>1, Invariance, PTL

\* A sibling or an encoding that was chosen for a request is in a coding that
\* the request's header admits (accepts_encoding), whatever the header.
THEOREM NoneIsUnreadable == Spec => []NegotiatedIsWanted
<1>1. ASSUME IInv PROVE NegotiatedIsWanted
  <2>1. ASSUME NEW c \in Clients, NEW a \in req[c].answer
        PROVE  (\E g \in a.tag : g.suffix # "") /\ a.status = 200 => Admits(req[c].accept, a.coding)
    <3>1. Good(req[c], held[c], a)
      BY <1>1, Requests DEF Answering
    <3> QED
      BY ONLY <3>1, Zenon DEF Good
  <2> QED
    BY <2>1, Zenon DEF NegotiatedIsWanted
<1> QED
  BY <1>1, Invariance, PTL

\* An answer whose coding was negotiated, of no known origin, says so to the
\* caches on its way (negotiates_coding).
THEOREM CachesAreTold == Spec => []StoredFitsOthers
<1>1. ASSUME IInv PROVE StoredFitsOthers
  <2>1. ASSUME NEW c \in Clients, NEW a \in req[c].answer PROVE Says(a)
    BY <1>1, Requests DEF Answering, Good
  <2> QED
    BY <2>1 DEF Says, StoredFitsOthers
<1> QED
  BY <1>1, Invariance, PTL

\* No answer to a remote request has anything of the archives in it when the
\* operator keeps them (game_data_middleware), on any route.
THEOREM GameDataIsKept == Spec => []GameDataStaysHome
<1>1. ASSUME IInv PROVE GameDataStaysHome
  <2>1. ASSUME NEW c \in Clients, NEW a \in req[c].answer, a.game PROVE Grants(c)
    BY <1>1, <2>1, Requests DEF Answering, Good
  <2> QED
    BY <2>1 DEF Grants, GameDataStaysHome
<1> QED
  BY <1>1, Invariance, PTL

\* What a client holds of a file of the built client is never replaced by
\* older code (fresh_siblings, serve_static).
THEOREM NoOlderCode == Spec => CodeNeverGoesBack
<1>1. IInv /\ [Next]_vars => [NoneGoesBack]_vars
  BY NextStep
<1>2. Spec => [][NoneGoesBack]_vars
  BY <1>1, Invariance, PTL DEF Spec
<1> QED
  BY <1>2 DEF CodeNeverGoesBack, NoneGoesBack
=============================================================================
