----------------------------- MODULE HttpCoding -----------------------------
(***************************************************************************)
(* src/http.rs: which coding an answer is sent in, which validators and    *)
(* cache headers it carries, when it may be a 304, and what CORS adds.     *)
(*                                                                         *)
(* An Accept-Encoding header is the sequence of its items, <<>> when there *)
(* is none; an item is a name and what its q parameter comes to.  A file   *)
(* is its kind (what its extension says of it), whether it reaches the     *)
(* compression threshold, and whether gzip makes it smaller.  Vary is one  *)
(* header: what sets it replaces what was there.                           *)
(***************************************************************************)
EXTENDS Integers, Sequences, FiniteSets

CONSTANT EnableCompression  \* ENABLE_COMPRESSION
ASSUME CompressionAssumption == EnableCompression \in BOOLEAN

Codings == {"br", "gzip"}
Names == {"br", "gzip", "GZIP", "gzipx", "identity", "*"}
Qualities == {"absent", "positive", "zero", "unreadable"}
Item == [name : Names, q : Qualities]

Kinds == {"table", "picture", "script"}   \* .lub, .png, .js
File == [kind : Kinds, big : BOOLEAN, packs : BOOLEAN]

IsStatic(kind) == kind \in {"table", "picture"}

\* is_compressible: by its content type, or by the extensions game data has.
ByContentType(kind) == kind = "script"
IsCompressible(kind) == ByContentType(kind) \/ kind = "table"

\* The tag of a representation: whose it is, when that was modified (for an
\* asset the tag is a hash of its content, which one number stands for), and
\* the suffix for its coding.
Suffix(coding) == CASE coding = "gzip" -> "gz" [] coding = "br" -> "br" [] OTHER -> ""
Tag == [of : {"static", "asset"}, at : Nat, suffix : {"", "br", "gz"}]

\* tag, date and coding are those of the representation; v is the version its
\* bytes have, game whether they are the archives'.  keep: may be stored.
Answer == [status : {200, 204, 304, 400, 404, 405}, tag : SUBSET Tag, date : SUBSET Nat,
           coding : Codings \cup {"identity"}, vary : {"none", "Accept-Encoding", "Origin"},
           keep : BOOLEAN, v : Nat, game : BOOLEAN, origin : BOOLEAN]
Plain == [status |-> 200, tag |-> {}, date |-> {}, coding |-> "identity", vary |-> "none",
          keep |-> FALSE, v |-> 0, game |-> FALSE, origin |-> FALSE]
Status(n) == [Plain EXCEPT !.status = n]

-----------------------------------------------------------------------------
(* Accept-Encoding.                                                        *)

SameName(name, coding) == name = coding \/ (name = "GZIP" /\ coding = "gzip")
Acceptable(item) == item.q \in {"absent", "positive"}

\* accepts_encoding: the first item with the coding's name decides, else the
\* last "*".  The first forgets that an item may be a refusal.
AcceptsByName(accept, coding) ==
    \E i \in DOMAIN accept : SameName(accept[i].name, coding) \/ accept[i].name = "*"
AcceptsEncoding(accept, coding) ==
    LET named == {i \in DOMAIN accept : SameName(accept[i].name, coding)}
        stars == {i \in DOMAIN accept : accept[i].name = "*"}
        first == CHOOSE i \in named : \A j \in named : i <= j
        last == CHOOSE i \in stars : \A j \in stars : j <= i
    IN  IF named # {} THEN Acceptable(accept[first])
        ELSE stars # {} /\ Acceptable(accept[last])

\* accepts_gzip: an item that begins with "gzip", whatever follows.
AcceptsGzip(accept) == \E i \in DOMAIN accept : accept[i].name \in {"gzip", "gzipx"}

-----------------------------------------------------------------------------
(* Assets.                                                                 *)

NegotiatesCoding(file) == EnableCompression /\ file.big /\ IsCompressible(file.kind)

\* asset_coding, as the set with the chosen coding or none.
AssetCoding(accept, file) ==
    {c \in {"gzip"} : NegotiatesCoding(file) /\ AcceptsEncoding(accept, c)}

\* etag_matches, etag_matches_weak: inm is the set of tags If-None-Match lists.
EtagMatches(inm, tag) == tag \in inm

\* asset_response, with the headers alone when it is a 304.  The first sends
\* the tag of the file for every coding of it.
UncodedEtag(coding) == [of |-> "asset", at |-> 0, suffix |-> ""]
CodedEtag(coding) == [of |-> "asset", at |-> 0, suffix |-> Suffix(coding)]
VaryOf(file) == IF NegotiatesCoding(file) THEN "Accept-Encoding" ELSE "none"
AssetResponse(inm, file, coding, now, game) ==
    LET tag == CodedEtag(coding)
        whole == [Plain EXCEPT !.coding = coding, !.vary = VaryOf(file), !.game = game]
    IN  IF ~ IsStatic(file.kind) THEN whole
        ELSE IF EtagMatches(inm, tag)
             THEN [Status(304) EXCEPT !.tag = {tag}, !.vary = VaryOf(file), !.keep = TRUE]
             ELSE [whole EXCEPT !.tag = {tag}, !.date = {now}, !.keep = TRUE]

\* maybe_compress: answers made for one request, of which it knows the content
\* type and no extension.
MaybeCompress(accept, file, a) ==
    IF EnableCompression /\ file.big /\ ByContentType(file.kind)
       /\ AcceptsGzip(accept) /\ file.packs
    THEN [a EXCEPT !.coding = "gzip", !.vary = "Accept-Encoding"]
    ELSE a

-----------------------------------------------------------------------------
(* CORS.                                                                   *)

\* Cors::apply: origin is "none", one of the known ones, or another.
Cors(origin, a) ==
    IF origin = "known" THEN [a EXCEPT !.origin = TRUE, !.vary = "Origin"] ELSE a
Preflight(origin) == Cors(origin, Status(204))
=============================================================================
