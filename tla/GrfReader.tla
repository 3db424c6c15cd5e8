----------------------------- MODULE GrfReader -----------------------------
(***************************************************************************)
(* src/grf.rs: opening an archive and reading an entry of it, with         *)
(* src/grf_protected.rs: every check made on what the archive says of      *)
(* itself, in the order of the code, in its integers.                      *)
(*                                                                         *)
(* What an archive says is any number of the width it has.  Bytes are      *)
(* abstracted to where they are and how many: a place read from, a slice   *)
(* taken, a buffer made.  Inflating, deciphering and hashing succeed or    *)
(* fail.  The table is walked entry by entry for its geometry; the fields  *)
(* of an entry are looked at when one is read.                             *)
(***************************************************************************)
EXTENDS Integers, FiniteSets

CONSTANTS Byte, Word, Long,    \* how many values u8, u32 and u64 have
          HeaderSize,          \* HEADER_SIZE
          TableHead,           \* FILE_TABLE_HEADER_SIZE
          Field,               \* bytes in a u32
          NameAt,              \* where a 0x1xx entry has its name, also what
                               \*   is taken off the length of the name
          EntryData, WideData, \* fixed part of an entry, with a u64 offset
          LengthBias, AlignedBias,
          CountBias,           \* the seven in a count of files
          MaxEntries, MaxTable, MaxOutput, Overhead,  \* the limits
          KeyHead, KeyRecord, MaxKeys,                \* of the archive key block
          ProtectedHead,       \* header of a protected entry
          Sizes, Words, Blocks, Lengths, Offsets, Bodies, KeyIds  \* bounds of
                               \*   the model: the sizes of archives, and what the
                               \*   numbers of headers, names, entries, protected
                               \*   headers and key records are taken from

Versions == {"1xx", "200", "300", "other"}
Kinds == {"directory", "file", "protected", "protectedFile"}

ASSUME WidthAssumption ==
    /\ {Byte, Word, Long, HeaderSize, TableHead, Field, NameAt, EntryData, WideData,
        LengthBias, AlignedBias, CountBias, MaxEntries, MaxTable, MaxOutput, Overhead,
        KeyHead, KeyRecord, MaxKeys, ProtectedHead} \subseteq Nat \ {0}
    /\ NameAt >= Field /\ WideData >= EntryData /\ EntryData >= Field
    /\ KeyHead + MaxKeys * KeyRecord < Word
    /\ Byte * Word + HeaderSize + Field + TableHead + Word + Word < Long

ASSUME ValuesAssumption ==
    /\ Sizes \subseteq Nat /\ Offsets \subseteq 0 .. Long - 1 /\ KeyIds \subseteq Nat \ {0}
    /\ \A W \in {Words, Blocks, Lengths, Bodies} : W \subseteq 0 .. Word - 1

VARIABLES stage,
          size,       \* of the archive, of those Long can say
          head,       \* version, table offset, number of files
          keyLength,  \* of the key block
          table,      \* where the table is, how long on disk and in memory
          walk,       \* the entry, the cursor, and the slice last taken
          keys,       \* ids of the archive keys
          alloc,      \* the buffer made last
          body        \* the slice of a payload, and what read_entry returned

vars == <<stage, size, head, keyLength, table, walk, keys, alloc, body>>

Nothing == [of |-> 0, from |-> 0, to |-> 0]
Slice == [of : Nat, from : Nat, to : Nat]
NoHead == [version |-> "other", offset |-> 0, count |-> 0]
NoTable == [at |-> 0, packed |-> 0, length |-> 0]
NoWalk == [entry |-> 0, at |-> 0, slice |-> Nothing]
Outcome == [is : {"none", "error", "bytes"}, length : Nat, real : Nat, packed : Nat, aligned : Nat,
            slice : Slice]
NoBody == [is |-> "none", length |-> 0, real |-> 0, packed |-> 0, aligned |-> 0, slice |-> Nothing]

Larger(a, b) == IF a > b THEN a ELSE b

\* Sums of u64, as a release build makes them.
Plus(a, b) == (a + b) % Long

Init ==
    /\ stage = "closed"
    /\ size \in Sizes
    /\ head = NoHead /\ keyLength = 0 /\ table = NoTable /\ walk = NoWalk
    /\ keys = {} /\ alloc = 0 /\ body = NoBody

Fails == stage' = "failed" /\ UNCHANGED <<size, head, keyLength, table, walk, keys, alloc, body>>

-----------------------------------------------------------------------------
(* open_with_encoding.                                                     *)

\* parse_header: the three fields mean the same in all but a true 0x300.
Wide(version, high) == version = "300" /\ high < Byte
Count(third, high) == LET n == third - high - CountBias IN IF n > 0 THEN n ELSE 0
Parsed(version, low, high, third) ==
    IF Wide(version, high)
    THEN [version |-> "300", offset |-> Plus(Plus(high * Word, low), HeaderSize), count |-> third]
    ELSE [version |-> IF version = "300" THEN "200" ELSE version,
          offset |-> Plus(low, HeaderSize), count |-> Count(third, high)]

ParseHeader(signed, version, low, high, third) ==
    /\ stage = "closed"
    /\ LET h == Parsed(version, low, high, third) IN
       IF size < HeaderSize \/ ~ signed \/ version = "other" \/ h.count > MaxEntries THEN Fails
       ELSE /\ head' = h
            /\ stage' = IF h.version = "300" THEN "keyLength" ELSE "table"
            /\ table' = [NoTable EXCEPT !.at = h.offset]
            /\ UNCHANGED <<size, keyLength, walk, keys, alloc, body>>

ReadKeyLength(n) ==
    /\ stage = "keyLength"
    /\ IF head.offset + Field > size \/ n > KeyHead + MaxKeys * KeyRecord THEN Fails
       ELSE /\ keyLength' = n
            /\ table' = [table EXCEPT !.at = Plus(head.offset, Field)]
            /\ stage' = "table"
            /\ UNCHANGED <<size, head, walk, keys, alloc, body>>

\* 0x1xx: the table is in the clear from here to the end.
ReadClearTable ==
    /\ stage = "table" /\ head.version = "1xx"
    /\ LET length == size - table.at IN
       IF table.at > size \/ length = 0 \/ length > MaxTable THEN Fails
       ELSE /\ table' = [table EXCEPT !.packed = length, !.length = length]
            /\ alloc' = length
            /\ stage' = "walk"
            /\ UNCHANGED <<size, head, keyLength, walk, keys, body>>

\* Else it is compressed behind its sizes, checked before buffers are made.
\* The first does without the comparison with the archive, and takes what the
\* read finds for the table; as the code reads, it would fail, with the buffer made.
Believes(packed) == TRUE
Fits(packed) == Plus(Plus(table.at, TableHead), packed) <= size

ReadTable(packed, real, inflates) ==
    /\ stage = "table" /\ head.version # "1xx"
    /\ IF table.at + TableHead > size \/ packed = 0 \/ real = 0 \/ real > MaxTable \/ ~ Fits(packed)
       THEN Fails
       ELSE /\ alloc' = Larger(packed, real + 1)
            /\ table' = [table EXCEPT !.packed = packed, !.length = real]
            /\ stage' = IF inflates THEN "keys" ELSE "failed"
            /\ UNCHANGED <<size, head, keyLength, walk, keys, body>>

\* decode_archive_keys: whole records and a checksum; ids that repeat, or are
\* none, are an error.
ReadKeys(ids, valid) ==
    LET at == Plus(Plus(table.at, TableHead), table.packed)
        records == (keyLength - KeyHead) \div KeyRecord IN
    /\ stage = "keys"
    /\ IF keyLength = 0 THEN stage' = "walk" /\ UNCHANGED <<keys, alloc>>
       ELSE IF Plus(at, keyLength) > size THEN stage' = "failed" /\ UNCHANGED <<keys, alloc>>
       ELSE /\ alloc' = keyLength
            /\ IF /\ valid /\ keyLength > KeyHead /\ keyLength = KeyHead + records * KeyRecord
                  /\ Cardinality(ids) = records
               THEN stage' = "walk" /\ keys' = ids
               ELSE stage' = "failed" /\ UNCHANGED keys
    /\ UNCHANGED <<size, head, keyLength, table, walk, body>>

-----------------------------------------------------------------------------
(* The table.                                                              *)

Slices(from, to) == [of |-> table.length, from |-> from, to |-> to]
Steps(slice, next) ==
    /\ walk' = [entry |-> walk.entry + 1, at |-> next, slice |-> slice]
    /\ UNCHANGED <<stage, size, head, keyLength, table, keys, alloc, body>>

\* read_modern_table: a name, to its NUL or to the end, then the fixed part.
WalkModern(name) ==
    LET p == walk.at + name + 1
        fixed == IF head.version = "300" THEN WideData ELSE EntryData IN
    /\ stage = "walk" /\ head.version # "1xx" /\ walk.entry < head.count
    /\ walk.at + name <= table.length \/ name = 0
    /\ IF walk.at >= table.length \/ p + fixed > table.length THEN Fails
       ELSE Steps(Slices(walk.at, p + fixed), p + fixed)

\* read_legacy_table: a block with a name in it, then the fixed part.  The
\* first forgets that part.
MetaFitsBare(meta) == meta <= table.length
MetaFits(meta) == meta + EntryData <= table.length
WalkLegacy(block) ==
    LET p == walk.at
        meta == p + Field + block
        shown == (block % Byte) - NameAt
        name == IF shown > 0 THEN shown ELSE 0 IN
    /\ stage = "walk" /\ head.version = "1xx" /\ walk.entry < head.count
    /\ IF p + Field > table.length \/ ~ MetaFits(meta) \/ p + NameAt + name > meta THEN Fails
       ELSE Steps(Slices(p + NameAt, meta + EntryData), meta + EntryData)

\* The table is parsed and dropped.
TableWalked ==
    /\ stage = "walk" /\ walk.entry = head.count
    /\ stage' = IF head.count = 0 THEN "empty" ELSE "open"
    /\ head' = [NoHead EXCEPT !.version = head.version]
    /\ keyLength' = 0 /\ table' = NoTable /\ walk' = NoWalk /\ alloc' = 0
    /\ UNCHANGED <<size, keys, body>>

-----------------------------------------------------------------------------
(* read_entry.                                                             *)

IsProtected(kind) == kind \in {"protected", "protectedFile"}

\* A file kept as it is has no bit that says so.
StoredAsFile(kind, packed, real) ==
    IF kind = "directory" /\ real > 0 /\ packed = real THEN "file" ELSE kind

\* What the fields of an entry come to, with the biases of 0x1xx.
\* The ciphers of a file work in place, whichever its kind and name stand for.
Entry(packed, aligned, real, kind, offset) ==
    LET lessPacked == packed - real - LengthBias
        lessAligned == aligned - AlignedBias
        none(n) == IF n > 0 THEN n ELSE 0 IN
    IF head.version # "1xx"
    THEN [packed |-> packed, aligned |-> aligned, real |-> real, offset |-> offset,
          kind |-> StoredAsFile(kind, packed, real)]
    ELSE [packed |-> none(lessPacked), aligned |-> none(lessAligned), real |-> real,
          offset |-> offset % Word,
          kind |-> IF lessPacked >= 0 /\ lessAligned >= 0 THEN kind
                   ELSE IF kind = "protectedFile" THEN "protected"
                   ELSE IF kind = "file" THEN "directory" ELSE kind]

\* Kept when the table was parsed: a file, and not too large.
Kept(e) == e.kind # "directory" /\ e.real <= MaxOutput

\* checked_add: nothing past what a u64 holds.  The first looks at the start
\* alone.
StartsInside(e) == e.offset + HeaderSize < Long /\ e.offset + HeaderSize <= size
Inside(e) ==
    /\ e.offset + HeaderSize < Long /\ e.offset + HeaderSize + e.aligned < Long
    /\ e.offset + HeaderSize + e.aligned <= size

Result(e, is, length, slice) ==
    /\ body' = [is |-> is, length |-> length, real |-> e.real, packed |-> e.packed,
                aligned |-> e.aligned, slice |-> slice]
    /\ stage' = "read"
    /\ UNCHANGED <<size, head, keyLength, table, walk, keys>>

\* inflate_exact: one byte more than declared, to see a stream run over.  The
\* first takes what there is.
InflatedAnyhow(stream, e) == TRUE
InflatedExact(stream, e) == stream = e.real

ReadEntry(e, stream) ==
    /\ stage = "open" /\ Kept(e) /\ ~ IsProtected(e.kind)
    /\ IF e.aligned = 0 THEN Result(e, "bytes", 0, Nothing) /\ UNCHANGED alloc
       ELSE IF ~ Inside(e) THEN Result(e, "error", 0, Nothing) /\ UNCHANGED alloc
       ELSE IF e.real = e.packed
            THEN /\ alloc' = e.aligned
                 /\ Result(e, "bytes", IF e.aligned < e.real THEN e.aligned ELSE e.real, Nothing)
       ELSE /\ alloc' = Larger(e.aligned, e.real + 1)
            /\ IF InflatedExact(stream, e) THEN Result(e, "bytes", stream, Nothing)
               ELSE Result(e, "error", 0, Nothing)

ReadProtected(e) ==
    /\ stage = "open" /\ Kept(e) /\ IsProtected(e.kind)
    /\ IF ~ Inside(e) \/ e.kind # "protected" \/ e.packed > e.aligned \/ e.packed > MaxOutput + Overhead
       THEN Result(e, "error", 0, Nothing) /\ UNCHANGED alloc
       ELSE /\ alloc' = e.packed
            /\ body' = [NoBody EXCEPT !.real = e.real, !.packed = e.packed, !.aligned = e.aligned]
            /\ stage' = "payload"
            /\ UNCHANGED <<size, head, keyLength, table, walk, keys>>

\* decode_entry, with a protected header that says h: the sizes of the body as
\* it is kept, packed and in the clear, its key, its compression.  It is not
\* authentic when its checksum, its cipher, its flags or the hash of what comes
\* out are not those there are.
KeyFound(id) == id = 0 \/ id \in keys
BodyInside(h, payload) == h.padded <= payload - ProtectedHead /\ h.packed <= h.padded

DecodeEntry(h, authentic, stream) ==
    LET refused == \/ body.packed < ProtectedHead \/ ~ authentic
                   \/ h.output > MaxOutput \/ h.output # body.real
                   \/ ~ BodyInside(h, body.packed) \/ ~ KeyFound(h.key)
        slice == [of |-> body.packed, from |-> ProtectedHead, to |-> ProtectedHead + h.padded]
        out == IF h.stored THEN h.packed ELSE stream IN
    /\ stage = "payload"
    /\ IF refused THEN Result(body, "error", 0, Nothing) /\ UNCHANGED alloc
       ELSE /\ alloc' = IF h.stored THEN body.packed ELSE Larger(body.packed, h.output + 1)
            /\ IF out = h.output THEN Result(body, "bytes", out, slice)
               ELSE Result(body, "error", 0, slice)

Again ==
    /\ stage = "read"
    /\ stage' = "open" /\ alloc' = 0 /\ body' = NoBody
    /\ UNCHANGED <<size, head, keyLength, table, walk, keys>>

Entries ==
    {Entry(packed, aligned, real, kind, offset) :
       packed, aligned, real \in Lengths, kind \in Kinds, offset \in Offsets}
ProtectedHeaders == [padded : Bodies, packed : Bodies, output : Bodies, key : KeyIds \cup {0}, stored : BOOLEAN]

Next ==
    \/ /\ stage = "closed"
       /\ \E signed \in BOOLEAN, version \in Versions, low, high, third \in Words :
             ParseHeader(signed, version, low, high, third)
    \/ \E n \in Words : ReadKeyLength(n)
    \/ ReadClearTable
    \/ \E packed, real \in Words, inflates \in BOOLEAN : ReadTable(packed, real, inflates)
    \/ \E ids \in SUBSET KeyIds, valid \in BOOLEAN : ReadKeys(ids, valid)
    \/ \E name \in Words : WalkModern(name)
    \/ \E block \in Blocks : WalkLegacy(block)
    \/ TableWalked
    \/ /\ stage = "open"
       /\ \E e \in Entries : ReadProtected(e) \/ \E stream \in Lengths : ReadEntry(e, stream)
    \/ /\ stage = "payload"
       /\ \E h \in ProtectedHeaders, authentic \in BOOLEAN, stream \in Bodies :
             DecodeEntry(h, authentic, stream)
    \/ Again

Spec == Init /\ [][Next]_vars

-----------------------------------------------------------------------------
(* Properties.                                                             *)

Stages == {"closed", "keyLength", "table", "keys", "walk", "open", "empty", "payload", "read",
           "failed"}
TypeOK ==
    /\ stage \in Stages /\ size \in Nat
    /\ head \in [version : Versions, offset : 0 .. Long - 1, count : Nat]
    /\ keyLength \in Nat
    /\ table \in [at : 0 .. Long - 1, packed : Nat, length : Nat]
    /\ walk \in [entry : Nat, at : Nat, slice : Slice]
    /\ keys \subseteq KeyIds /\ alloc \in Nat
    /\ body \in Outcome

\* An accepted table lies inside the archive with its sizes and the key block
\* behind it, by sums that do not wrap, whatever the header says
\* (open_with_encoding).
TableInside ==
    /\ stage \in {"keys", "walk"} =>
          table.at + (IF head.version = "1xx" THEN 0 ELSE TableHead) + table.packed <= size
    /\ stage = "walk" /\ keyLength > 0 =>
          table.at + TableHead + table.packed + keyLength <= size

\* No index runs past the table or the payload it is into, and no slice ends
\* before it starts: each is a panic (read_modern_table, read_legacy_table,
\* decode_entry).
SlicesInside ==
    \A s \in {walk.slice, body.slice} : s.from <= s.to /\ s.to <= s.of

\* However large the numbers are that the archive gives, a buffer is no larger
\* than the archive or a byte over the limit for what goes into it ("believed
\* all the way to a multi-gigabyte allocation"), and the list made beforehand
\* for the entries a header counts has at most MaxEntries places.
BuffersBounded ==
    /\ alloc <= size \/ alloc <= MaxTable + 1 \/ alloc <= MaxOutput + 1
    /\ head.count <= MaxEntries

\* What is read has the size the table declares, but for an entry stored as it
\* is in fewer bytes, which is cut short without an error (read_entry,
\* inflate_exact, decode_entry).
SizesDeclared ==
    body.is = "bytes" =>
        \/ body.length = body.real
        \/ body.aligned = 0 /\ body.length = 0
        \/ body.real = body.packed /\ body.length = body.aligned
=============================================================================
