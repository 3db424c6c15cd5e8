-------------------------- MODULE GrfReaderProofs --------------------------
(***************************************************************************)
(* Proofs about GrfReader, for any widths, limits and numbers an archive   *)
(* may give: no index is out of its range, no buffer out of bounds, and    *)
(* what is read has the size it was declared with.                         *)
(***************************************************************************)
EXTENDS GrfReader, TLAPS

\* What the widths are, without their names.
LEMMA Widths ==
    /\ Byte \in Nat /\ Word \in Nat /\ Long \in Nat /\ HeaderSize \in Nat /\ TableHead \in Nat
    /\ Field \in Nat /\ NameAt \in Nat /\ EntryData \in Nat /\ WideData \in Nat
    /\ LengthBias \in Nat /\ AlignedBias \in Nat /\ CountBias \in Nat
    /\ MaxEntries \in Nat /\ MaxTable \in Nat /\ MaxOutput \in Nat /\ Overhead \in Nat
    /\ KeyHead \in Nat /\ KeyRecord \in Nat /\ MaxKeys \in Nat /\ ProtectedHead \in Nat
    /\ Byte > 0 /\ Word > 0 /\ Long > 0 /\ KeyRecord > 0
    /\ NameAt >= Field
BY WidthAssumption

\* The numbers of an archive are naturals.
LEMMA Values ==
    /\ Words \subseteq Nat /\ Blocks \subseteq Nat /\ Lengths \subseteq Nat /\ Bodies \subseteq Nat
    /\ Offsets \subseteq Nat
<1>1. \A W \in {Words, Blocks, Lengths, Bodies} : W \subseteq 0 .. Word - 1
  BY ValuesAssumption
<1>2. 0 .. Word - 1 \subseteq Nat /\ 0 .. Long - 1 \subseteq Nat
  BY Widths
<1> QED
  BY <1>1, <1>2, ValuesAssumption

\* A sum that fits is its own remainder.
LEMMA NoWrap == ASSUME NEW n \in Nat, n < Long PROVE n % Long = n
BY Widths

LEMMA PlusType == ASSUME NEW a \in Nat, NEW b \in Nat PROVE Plus(a, b) \in 0 .. Long - 1
BY Widths DEF Plus

LEMMA PlusExact == ASSUME NEW a \in Nat, NEW b \in Nat, a + b < Long PROVE Plus(a, b) = a + b
BY NoWrap DEF Plus

\* The highest place a header can name, and the one the table can be at.
MaxOffset == Byte * Word + HeaderSize

LEMMA Room ==
    /\ MaxOffset \in Nat
    /\ MaxOffset + Field + TableHead + Word + Word < Long
    /\ Word + HeaderSize <= MaxOffset
<1>1. Byte * Word \in Nat /\ Word <= Byte * Word
  <2>1. Byte - 1 \in Nat /\ (Byte - 1) * Word >= 0
    BY Widths
  <2> QED
    BY <2>1, Widths
<1> QED
  BY <1>1, WidthAssumption, Widths DEF MaxOffset

LEMMA ParsedOffset ==
    ASSUME NEW version \in Versions, NEW low \in Words, NEW high \in Words, NEW third \in Words
    PROVE  /\ Parsed(version, low, high, third) \in [version : Versions, offset : 0 .. Long - 1, count : Nat]
           /\ Parsed(version, low, high, third).offset < MaxOffset
<1>1. /\ low \in Nat /\ high \in Nat /\ third \in Nat /\ low < Word /\ high < Word
      /\ Words \subseteq Nat
  BY ValuesAssumption, Widths
<1>2. Plus(low, HeaderSize) = low + HeaderSize /\ low + HeaderSize < MaxOffset /\ low + HeaderSize < Long
  BY <1>1, Room, PlusExact, Widths
<1>3. Count(third, high) \in Nat
  BY <1>1, Widths DEF Count
<1>4. CASE Wide(version, high)
  <2>1. high * Word \in Nat /\ high * Word <= Byte * Word - Word
    <3>1. Byte - 1 - high \in Nat
      BY <1>1, <1>4, Widths DEF Wide
    <3>2. (Byte - 1 - high) * Word \in Nat
      BY <3>1, Widths
    <3>3. (Byte - 1 - high) * Word = Byte * Word - Word - high * Word
      BY <1>1, Widths
    <3> QED
      BY <1>1, <3>2, <3>3, Widths
  <2>2. high * Word + low + HeaderSize < MaxOffset /\ high * Word + low + HeaderSize < Long
    BY <1>1, <2>1, Room, Widths DEF MaxOffset
  <2>3. Plus(high * Word, low) = high * Word + low
    BY <1>1, <2>1, <2>2, PlusExact, Widths
  <2>4. Plus(Plus(high * Word, low), HeaderSize) = high * Word + low + HeaderSize
    BY <1>1, <2>1, <2>2, <2>3, PlusExact, Widths
  <2> QED
    BY <1>1, <1>4, <2>1, <2>2, <2>4, Widths DEF Parsed, Versions
<1>5. CASE ~ Wide(version, high)
  BY <1>1, <1>2, <1>3, <1>5, Widths DEF Parsed, Versions
<1> QED
  BY <1>4, <1>5

-----------------------------------------------------------------------------
(* The inductive invariant.  The places stay far below what a long holds,  *)
(* so that sums are exact; only a 0x300 archive has a key block; and the   *)
(* payload of a protected entry was inside the archive when it was read.   *)

Placed ==
    /\ head.offset <= MaxOffset
    /\ table.at <= MaxOffset + Field
    /\ keyLength < Word
    /\ stage \in {"keys", "walk"} /\ head.version # "1xx" => table.packed < Word
Keyed ==
    /\ stage = "closed" => keyLength = 0
    /\ stage = "keyLength" => head.version = "300" /\ keyLength = 0
    /\ stage \in {"table", "keys", "walk"} /\ head.version = "1xx" => keyLength = 0
    /\ stage = "keys" => head.version # "1xx"
Payload == stage = "payload" => body.is = "none" /\ body.packed <= size

IInv == /\ TypeOK /\ TableInside /\ SlicesInside /\ BuffersBounded /\ SizesDeclared
        /\ Placed /\ Keyed /\ Payload

LEMMA InitIInv == Init => IInv
<1> SUFFICES ASSUME Init PROVE IInv
  OBVIOUS
<1>1. size \in Nat
  BY ValuesAssumption DEF Init
<1>2. TypeOK
  BY <1>1, Widths DEF Init, TypeOK, Stages, Versions, NoHead, NoTable, NoWalk, NoBody, Nothing, Slice,
        Outcome
<1>3. TableInside /\ SlicesInside /\ BuffersBounded /\ SizesDeclared /\ Placed /\ Keyed /\ Payload
  BY <1>1, Room, Widths DEF Init, TableInside, SlicesInside, BuffersBounded, SizesDeclared, Placed,
        Keyed, Payload, NoHead, NoTable, NoWalk, NoBody, Nothing
<1> QED
  BY <1>2, <1>3 DEF IInv

\* A failure changes the stage alone.
LEMMA FailsKeepsIInv == IInv /\ Fails => IInv'
BY DEF IInv, Fails, TypeOK, Stages, TableInside, SlicesInside, BuffersBounded, SizesDeclared, Placed,
       Keyed, Payload

LEMMA ParseHeaderKeepsIInv ==
    ASSUME IInv, NEW signed \in BOOLEAN, NEW version \in Versions, NEW low \in Words, NEW high \in Words,
           NEW third \in Words, ParseHeader(signed, version, low, high, third)
    PROVE  IInv'
<1> DEFINE h == Parsed(version, low, high, third)
<1>1. h \in [version : Versions, offset : 0 .. Long - 1, count : Nat] /\ h.offset < MaxOffset
  BY ParsedOffset
<1>2. CASE Fails
  BY <1>2, FailsKeepsIInv
<1>3. CASE ~ Fails
  <2> HIDE DEF h
  <2>1. /\ stage = "closed" /\ ~ (h.count > MaxEntries)
        /\ head' = h /\ stage' = IF h.version = "300" THEN "keyLength" ELSE "table"
        /\ table' = [NoTable EXCEPT !.at = h.offset]
        /\ UNCHANGED <<size, keyLength, walk, keys, alloc, body>>
    BY <1>3 DEF ParseHeader, h
  <2>2. table'.at = h.offset /\ table'.packed = 0 /\ table'.length = 0 /\ h.offset \in Nat
        /\ table' \in [at : 0 .. Long - 1, packed : Nat, length : Nat]
    BY <1>1, <2>1, Widths DEF NoTable
  <2>3. TypeOK'
    BY <1>1, <2>1, <2>2 DEF IInv, TypeOK, Stages
  <2>4. SlicesInside' /\ SizesDeclared' /\ TableInside'
    BY <2>1 DEF IInv, SlicesInside, SizesDeclared, TableInside
  <2>5. BuffersBounded'
    BY <1>1, <2>1, Widths DEF IInv, BuffersBounded
  <2>6. Placed' /\ Keyed' /\ Payload'
    BY <1>1, <2>1, <2>2, Room, Widths DEF IInv, Placed, Keyed, Payload
  <2> QED
    BY <2>3, <2>4, <2>5, <2>6 DEF IInv
<1> QED
  BY <1>2, <1>3

LEMMA ReadKeyLengthKeepsIInv ==
    ASSUME IInv, NEW n \in Words, ReadKeyLength(n) PROVE IInv'
<1>1. CASE Fails
  BY <1>1, FailsKeepsIInv
<1>2. CASE ~ Fails
  <2>1. /\ stage = "keyLength" /\ n <= KeyHead + MaxKeys * KeyRecord
        /\ keyLength' = n /\ table' = [table EXCEPT !.at = Plus(head.offset, Field)]
        /\ stage' = "table" /\ UNCHANGED <<size, head, walk, keys, alloc, body>>
    BY <1>2, ValuesAssumption, Widths DEF ReadKeyLength
  <2>2. n \in Nat /\ n < Word
    BY ValuesAssumption, Widths
  <2>3. head.offset \in Nat /\ head.offset <= MaxOffset /\ head.version = "300"
    BY <2>1, Widths DEF IInv, TypeOK, Placed, Keyed
  <2>4. Plus(head.offset, Field) = head.offset + Field
    BY <2>3, Room, PlusExact, Widths
  <2>5. /\ table' \in [at : 0 .. Long - 1, packed : Nat, length : Nat]
        /\ table'.at = head.offset + Field
    BY <2>1, <2>3, <2>4, PlusType, Widths DEF IInv, TypeOK
  <2>6. TypeOK'
    BY <2>1, <2>2, <2>5 DEF IInv, TypeOK, Stages
  <2>7. SlicesInside' /\ BuffersBounded' /\ SizesDeclared' /\ TableInside'
    BY <2>1 DEF IInv, SlicesInside, BuffersBounded, SizesDeclared, TableInside
  <2>8. Placed' /\ Keyed' /\ Payload'
    BY <2>1, <2>2, <2>3, <2>5, Room, Widths DEF IInv, Placed, Keyed, Payload
  <2> QED
    BY <2>6, <2>7, <2>8 DEF IInv
<1> QED
  BY <1>1, <1>2

LEMMA ReadClearTableKeepsIInv == IInv /\ ReadClearTable => IInv'
<1> SUFFICES ASSUME IInv, ReadClearTable PROVE IInv'
  OBVIOUS
<1>1. CASE Fails
  BY <1>1, FailsKeepsIInv
<1>2. CASE ~ Fails
  <2> DEFINE length == size - table.at
  <2>1. /\ stage = "table" /\ head.version = "1xx" /\ keyLength = 0
        /\ table.at <= size /\ length <= MaxTable
        /\ table' = [table EXCEPT !.packed = length, !.length = length]
        /\ alloc' = length /\ stage' = "walk"
        /\ UNCHANGED <<size, head, keyLength, walk, keys, body>>
    BY <1>2, Widths DEF ReadClearTable, IInv, TypeOK, Keyed
  <2>2. size \in Nat /\ table.at \in Nat /\ table \in [at : 0 .. Long - 1, packed : Nat, length : Nat]
        /\ length \in Nat /\ length <= size
    BY <2>1, Widths DEF IInv, TypeOK
  <2> HIDE DEF length
  <2>3. /\ table' \in [at : 0 .. Long - 1, packed : Nat, length : Nat]
        /\ table'.at = table.at /\ table'.packed = length
    BY <2>1, <2>2
  <2>4. table'.at + table'.packed <= size
    BY <2>2, <2>3 DEF length
  <2>5. TypeOK'
    BY <2>1, <2>2, <2>3 DEF IInv, TypeOK, Stages
  <2>6. SlicesInside' /\ SizesDeclared'
    BY <2>1 DEF IInv, SlicesInside, SizesDeclared
  <2>7. BuffersBounded' /\ TableInside'
    BY <2>1, <2>2, <2>3, <2>4, Widths DEF IInv, BuffersBounded, TableInside
  <2>8. Placed' /\ Keyed' /\ Payload'
    BY <2>1, <2>3, Widths DEF IInv, Placed, Keyed, Payload
  <2> QED
    BY <2>5, <2>6, <2>7, <2>8 DEF IInv
<1> QED
  BY <1>1, <1>2

LEMMA ReadTableKeepsIInv ==
    ASSUME IInv, NEW packed \in Words, NEW real \in Words, NEW inflates \in BOOLEAN,
           ReadTable(packed, real, inflates)
    PROVE  IInv'
<1>1. CASE Fails
  BY <1>1, FailsKeepsIInv
<1>2. CASE ~ Fails
  <2>1. /\ stage = "table" /\ head.version # "1xx"
        /\ ~ (real > MaxTable) /\ Fits(packed)
        /\ alloc' = Larger(packed, real + 1)
        /\ table' = [table EXCEPT !.packed = packed, !.length = real]
        /\ stage' = IF inflates THEN "keys" ELSE "failed"
        /\ UNCHANGED <<size, head, keyLength, walk, keys, body>>
    BY <1>2 DEF ReadTable
  <2>2. /\ packed \in Nat /\ packed < Word /\ real \in Nat /\ size \in Nat
        /\ table.at \in Nat /\ table.at <= MaxOffset + Field
        /\ table \in [at : 0 .. Long - 1, packed : Nat, length : Nat]
    BY ValuesAssumption, Widths DEF IInv, TypeOK, Placed
  <2>3. Plus(table.at, TableHead) = table.at + TableHead
    BY <2>2, Room, PlusExact, Widths
  <2>4. Plus(Plus(table.at, TableHead), packed) = table.at + TableHead + packed
    BY <2>2, <2>3, Room, PlusExact, Widths
  <2>5. table.at + TableHead + packed <= size
    BY <2>1, <2>4 DEF Fits
  <2>6. /\ table' \in [at : 0 .. Long - 1, packed : Nat, length : Nat]
        /\ table'.at = table.at /\ table'.packed = packed
    BY <2>1, <2>2
  <2>7. TypeOK'
    BY <2>1, <2>2, <2>6 DEF IInv, TypeOK, Stages, Larger
  <2>8. SlicesInside' /\ SizesDeclared'
    BY <2>1 DEF IInv, SlicesInside, SizesDeclared
  <2>9. BuffersBounded' /\ TableInside'
    BY <2>1, <2>2, <2>5, <2>6, Widths DEF IInv, BuffersBounded, TableInside, Larger
  <2>10. Placed' /\ Keyed' /\ Payload'
    BY <2>1, <2>2, <2>6, Widths DEF IInv, Placed, Keyed, Payload
  <2> QED
    BY <2>7, <2>8, <2>9, <2>10 DEF IInv
<1> QED
  BY <1>1, <1>2

LEMMA ReadKeysKeepsIInv ==
    ASSUME IInv, NEW ids \in SUBSET KeyIds, NEW valid \in BOOLEAN, ReadKeys(ids, valid)
    PROVE  IInv'
<1> DEFINE at == Plus(Plus(table.at, TableHead), table.packed)
<1>1. /\ stage = "keys" /\ head.version # "1xx" /\ table.packed \in Nat /\ table.packed < Word
      /\ table.at \in Nat /\ table.at <= MaxOffset + Field /\ size \in Nat
      /\ keyLength \in Nat /\ keyLength < Word
      /\ table.at + TableHead + table.packed <= size
      /\ UNCHANGED <<size, head, keyLength, table, walk, body>>
  BY Widths DEF ReadKeys, IInv, TypeOK, Placed, Keyed, TableInside
<1>2. at = table.at + TableHead + table.packed
  BY <1>1, Room, PlusExact, Widths
<1>3. Plus(at, keyLength) = table.at + TableHead + table.packed + keyLength
  BY <1>1, <1>2, Room, PlusExact, Widths
<1>4. /\ stage' \in {"walk", "failed"} /\ keys' \subseteq KeyIds
      /\ alloc' = alloc \/ (alloc' = keyLength /\ ~ (Plus(at, keyLength) > size))
      /\ stage' = "walk" => keyLength = 0 \/ ~ (Plus(at, keyLength) > size)
  <2> DEFINE fits == ~ (Plus(at, keyLength) > size)
  <2> HIDE DEF at
  <2>0. keys \subseteq KeyIds
    BY DEF IInv, TypeOK
  <2>1. CASE keyLength = 0
    <3>1. stage' = "walk" /\ keys' = keys /\ alloc' = alloc
      BY <2>1 DEF ReadKeys
    <3> QED
      BY <2>0, <2>1, <3>1
  <2>2. CASE keyLength # 0 /\ ~ fits
    <3>1. stage' = "failed" /\ keys' = keys /\ alloc' = alloc
      BY <2>2 DEF ReadKeys, at
    <3> QED
      BY <2>0, <2>2, <3>1
  <2>3. CASE keyLength # 0 /\ fits
    <3>1. /\ alloc' = keyLength
          /\ \/ stage' = "walk" /\ keys' = ids
             \/ stage' = "failed" /\ keys' = keys
      BY <2>3 DEF ReadKeys, at
    <3> QED
      BY <2>0, <2>3, <3>1
  <2> QED
    BY <2>1, <2>2, <2>3
<1> HIDE DEF at
<1>5. alloc' = alloc \/ alloc' <= size
  BY <1>1, <1>3, <1>4, Widths
<1>6. TypeOK'
  BY <1>1, <1>4 DEF IInv, TypeOK, Stages
<1>7. SlicesInside' /\ SizesDeclared'
  BY <1>1 DEF IInv, SlicesInside, SizesDeclared
<1>8. BuffersBounded' /\ TableInside'
  BY <1>1, <1>3, <1>4, <1>5, Widths DEF IInv, BuffersBounded, TableInside
<1>9. Placed' /\ Keyed' /\ Payload'
  BY <1>1, <1>4 DEF IInv, Placed, Keyed, Payload
<1> QED
  BY <1>6, <1>7, <1>8, <1>9 DEF IInv

-----------------------------------------------------------------------------
(* Walking the table.                                                      *)

\* A step that takes a slice inside the table keeps everything.
LEMMA StepsKeepsIInv ==
    ASSUME IInv, NEW from \in Nat, NEW to \in Nat, from <= to, to <= table.length,
           Steps(Slices(from, to), to)
    PROVE  IInv'
<1>1. /\ walk' = [entry |-> walk.entry + 1, at |-> to, slice |-> Slices(from, to)]
      /\ UNCHANGED <<stage, size, head, keyLength, table, keys, alloc, body>>
  BY DEF Steps
<1>2. table.length \in Nat /\ walk.entry \in Nat
  BY DEF IInv, TypeOK
<1>3. Slices(from, to) \in Slice
  BY <1>2 DEF Slices, Slice
<1>4. TypeOK'
  BY <1>1, <1>2, <1>3 DEF IInv, TypeOK
<1>5. SlicesInside'
  BY <1>1 DEF IInv, SlicesInside, Slices
<1>6. TableInside' /\ SizesDeclared' /\ BuffersBounded' /\ Placed' /\ Keyed' /\ Payload'
  BY <1>1 DEF IInv, TableInside, SizesDeclared, BuffersBounded, Placed, Keyed, Payload
<1> QED
  BY <1>4, <1>5, <1>6 DEF IInv

LEMMA WalkModernKeepsIInv == ASSUME IInv, NEW name \in Words, WalkModern(name) PROVE IInv'
<1> DEFINE fixed == IF head.version = "300" THEN WideData ELSE EntryData
           to == walk.at + name + 1 + fixed
<1>1. /\ name \in Nat /\ walk.at \in Nat /\ fixed \in Nat /\ table.length \in Nat
  BY Values, Widths DEF IInv, TypeOK
<1>2. CASE Fails
  BY <1>2, FailsKeepsIInv
<1>3. CASE ~ Fails
  <2>1. ~ (to > table.length) /\ Steps(Slices(walk.at, to), to)
    BY <1>3 DEF WalkModern
  <2> HIDE DEF fixed
  <2>2. to \in Nat /\ walk.at <= to /\ to <= table.length
    BY <1>1, <2>1
  <2> QED
    BY <1>1, <2>1, <2>2, StepsKeepsIInv
<1> QED
  BY <1>2, <1>3

LEMMA WalkLegacyKeepsIInv == ASSUME IInv, NEW block \in Blocks, WalkLegacy(block) PROVE IInv'
<1> DEFINE p == walk.at
           meta == p + Field + block
           shown == (block % Byte) - NameAt
           name == IF shown > 0 THEN shown ELSE 0
<1>1. block \in Nat /\ p \in Nat /\ table.length \in Nat /\ meta \in Nat
  BY ValuesAssumption, Widths DEF IInv, TypeOK
<1>2. name \in Nat
  BY <1>1, Widths
<1>3. CASE Fails
  BY <1>3, FailsKeepsIInv
<1>4. CASE ~ Fails
  <2>1. /\ MetaFits(meta) /\ ~ (p + NameAt + name > meta)
        /\ Steps(Slices(p + NameAt, meta + EntryData), meta + EntryData)
    BY <1>4 DEF WalkLegacy
  <2> HIDE DEF meta, name
  <2>2. /\ p + NameAt \in Nat /\ meta + EntryData \in Nat
        /\ p + NameAt <= meta + EntryData /\ meta + EntryData <= table.length
    BY <1>1, <1>2, <2>1, Widths DEF MetaFits
  <2> QED
    BY <2>1, <2>2, StepsKeepsIInv
<1> QED
  BY <1>3, <1>4

LEMMA NothingTyped == Nothing \in Slice /\ Nothing.from <= Nothing.to /\ Nothing.to <= Nothing.of
BY DEF Nothing, Slice

LEMMA TableWalkedKeepsIInv == IInv /\ TableWalked => IInv'
<1> SUFFICES ASSUME IInv, TableWalked PROVE IInv'
  OBVIOUS
<1>1. /\ stage' \in {"empty", "open"} /\ head' = [NoHead EXCEPT !.version = head.version]
      /\ keyLength' = 0 /\ table' = NoTable /\ walk' = NoWalk /\ alloc' = 0
      /\ UNCHANGED <<size, keys, body>>
  BY DEF TableWalked
<1>2. head.version \in Versions /\ size \in Nat
  BY DEF IInv, TypeOK
<1>3. head' = [version |-> head.version, offset |-> 0, count |-> 0]
  BY <1>1 DEF NoHead
<1>4. /\ head' \in [version : Versions, offset : 0 .. Long - 1, count : Nat]
      /\ table' \in [at : 0 .. Long - 1, packed : Nat, length : Nat]
      /\ walk' \in [entry : Nat, at : Nat, slice : Slice]
  <2>1. 0 \in 0 .. Long - 1
    BY Widths
  <2>2. head' \in [version : Versions, offset : 0 .. Long - 1, count : Nat]
    BY <1>2, <1>3, <2>1
  <2>3. table' \in [at : 0 .. Long - 1, packed : Nat, length : Nat]
    BY <1>1, <2>1 DEF NoTable
  <2>4. walk' \in [entry : Nat, at : Nat, slice : Slice]
    BY <1>1, NothingTyped DEF NoWalk
  <2> QED
    BY <2>2, <2>3, <2>4
<1>5. keys' \subseteq KeyIds /\ body' \in Outcome /\ size' \in Nat
  BY <1>1 DEF IInv, TypeOK
<1>6. TypeOK'
  BY <1>1, <1>4, <1>5 DEF TypeOK, Stages
<1>7. SlicesInside'
  BY <1>1 DEF IInv, SlicesInside, NoWalk, Nothing
<1>8. TableInside' /\ SizesDeclared' /\ BuffersBounded'
  BY <1>1, <1>2, <1>3, Widths DEF IInv, TableInside, SizesDeclared, BuffersBounded
<1>9. Placed' /\ Keyed' /\ Payload'
  BY <1>1, <1>3, Room, Widths DEF Placed, Keyed, Payload, NoTable
<1> QED
  BY <1>6, <1>7, <1>8, <1>9 DEF IInv

-----------------------------------------------------------------------------
(* Reading an entry.                                                       *)

EntryRecord == [packed : Nat, aligned : Nat, real : Nat, offset : Nat, kind : Kinds]

LEMMA EntryTyped == ASSUME NEW e \in Entries PROVE e \in EntryRecord
<1>1. PICK packed \in Lengths, aligned \in Lengths, real \in Lengths, kind \in Kinds, offset \in Offsets :
         e = Entry(packed, aligned, real, kind, offset)
  BY DEF Entries
<1>2. /\ packed \in Nat /\ aligned \in Nat /\ real \in Nat /\ offset \in Nat
      /\ offset % Word \in Nat
  BY Values, Widths
<1>3. CASE head.version # "1xx"
  BY <1>1, <1>2, <1>3 DEF Entry, StoredAsFile, EntryRecord, Kinds
<1>4. CASE head.version = "1xx"
  <2> DEFINE lessPacked == packed - real - LengthBias
             lessAligned == aligned - AlignedBias
             none(n) == IF n > 0 THEN n ELSE 0
             kinds == IF lessPacked >= 0 /\ lessAligned >= 0 THEN kind
                      ELSE IF kind = "protectedFile" THEN "protected"
                      ELSE IF kind = "file" THEN "directory" ELSE kind
  <2>1. none(lessPacked) \in Nat /\ none(lessAligned) \in Nat
    BY <1>2, Widths
  <2>2. kinds \in Kinds
    BY DEF Kinds
  <2>3. e = [packed |-> none(lessPacked), aligned |-> none(lessAligned), real |-> real,
             offset |-> offset % Word, kind |-> kinds]
    BY <1>1, <1>4 DEF Entry
  <2> HIDE DEF none, kinds
  <2> QED
    BY <1>2, <2>1, <2>2, <2>3 DEF EntryRecord
<1> QED
  BY <1>3, <1>4

\* What a read leaves: its result, and a buffer inside the bounds.
LEMMA ResultKeepsIInv ==
    ASSUME IInv, NEW e, e.real \in Nat, e.packed \in Nat, e.aligned \in Nat,
           NEW is \in {"error", "bytes"}, NEW length \in Nat, NEW slice \in Slice,
           slice.from <= slice.to, slice.to <= slice.of,
           is = "bytes" => \/ length = e.real
                           \/ e.aligned = 0 /\ length = 0
                           \/ e.real = e.packed /\ length = e.aligned,
           alloc' \in Nat,
           alloc' <= size \/ alloc' <= MaxTable + 1 \/ alloc' <= MaxOutput + 1,
           Result(e, is, length, slice)
    PROVE  IInv'
<1>1. /\ body' = [is |-> is, length |-> length, real |-> e.real, packed |-> e.packed,
                  aligned |-> e.aligned, slice |-> slice]
      /\ stage' = "read" /\ UNCHANGED <<size, head, keyLength, table, walk, keys>>
  BY DEF Result
<1>2. TypeOK'
  BY <1>1 DEF IInv, TypeOK, Stages, Outcome
<1>3. SlicesInside'
  BY <1>1 DEF IInv, SlicesInside
<1>4. SizesDeclared' /\ BuffersBounded' /\ TableInside'
  BY <1>1 DEF IInv, SizesDeclared, BuffersBounded, TableInside
<1>5. Placed' /\ Keyed' /\ Payload'
  BY <1>1 DEF IInv, Placed, Keyed, Payload
<1> QED
  BY <1>2, <1>3, <1>4, <1>5 DEF IInv

\* What the invariant says of the buffer in hand, and of the widths of an entry
\* that is inside the archive.
LEMMA InHand ==
    ASSUME IInv
    PROVE  /\ alloc \in Nat /\ size \in Nat
           /\ alloc <= size \/ alloc <= MaxTable + 1 \/ alloc <= MaxOutput + 1
           /\ head.count <= MaxEntries
BY DEF IInv, TypeOK, BuffersBounded

LEMMA ReadEntryKeepsIInv ==
    ASSUME IInv, NEW e \in Entries, NEW stream \in Lengths, ReadEntry(e, stream) PROVE IInv'
<1>1. /\ e.packed \in Nat /\ e.aligned \in Nat /\ e.real \in Nat /\ e.offset \in Nat
  BY EntryTyped DEF EntryRecord
<1>2. stream \in Nat /\ e.real <= MaxOutput
  BY Values DEF ReadEntry, Kept
<1>3. CASE e.aligned = 0
  <2>1. Result(e, "bytes", 0, Nothing) /\ alloc' = alloc
    BY <1>3 DEF ReadEntry
  <2> QED
    BY <1>1, <1>3, <2>1, InHand, NothingTyped, ResultKeepsIInv
<1>4. CASE e.aligned # 0 /\ ~ Inside(e)
  <2>1. Result(e, "error", 0, Nothing) /\ alloc' = alloc
    BY <1>4 DEF ReadEntry
  <2> QED
    BY <1>1, <2>1, InHand, NothingTyped, ResultKeepsIInv
<1>5. CASE e.aligned # 0 /\ Inside(e)
  <2>1. e.aligned <= size
    BY <1>1, <1>5, InHand, Widths DEF Inside
  <2>2. CASE e.real = e.packed
    <3> DEFINE length == IF e.aligned < e.real THEN e.aligned ELSE e.real
    <3>1. alloc' = e.aligned /\ Result(e, "bytes", length, Nothing)
      BY <1>5, <2>2 DEF ReadEntry
    <3>2. length \in Nat /\ (length = e.real \/ length = e.aligned)
      BY <1>1
    <3> HIDE DEF length
    <3> QED
      BY <1>1, <2>1, <2>2, <3>1, <3>2, NothingTyped, ResultKeepsIInv
  <2>3. CASE e.real # e.packed
    <3>1. /\ alloc' = Larger(e.aligned, e.real + 1)
          /\ \/ stream = e.real /\ Result(e, "bytes", stream, Nothing)
             \/ Result(e, "error", 0, Nothing)
      BY <1>5, <2>3 DEF ReadEntry, InflatedExact
    <3>2. alloc' \in Nat /\ (alloc' <= size \/ alloc' <= MaxOutput + 1)
      BY <1>1, <1>2, <2>1, <3>1, Widths DEF Larger
    <3>3. CASE stream = e.real /\ Result(e, "bytes", stream, Nothing)
      BY <1>1, <1>2, <3>2, <3>3, NothingTyped, ResultKeepsIInv
    <3>4. CASE Result(e, "error", 0, Nothing)
      BY <1>1, <3>2, <3>4, NothingTyped, ResultKeepsIInv
    <3> QED
      BY <3>1, <3>3, <3>4
  <2> QED
    BY <2>2, <2>3
<1> QED
  BY <1>3, <1>4, <1>5

LEMMA ReadProtectedKeepsIInv == ASSUME IInv, NEW e \in Entries, ReadProtected(e) PROVE IInv'
<1>1. /\ e.packed \in Nat /\ e.aligned \in Nat /\ e.real \in Nat /\ e.offset \in Nat
  BY EntryTyped DEF EntryRecord
<1> DEFINE refused == \/ ~ Inside(e) \/ e.kind # "protected" \/ e.packed > e.aligned
                      \/ e.packed > MaxOutput + Overhead
<1>2. CASE refused
  <2>1. Result(e, "error", 0, Nothing) /\ alloc' = alloc
    BY <1>2 DEF ReadProtected
  <2> QED
    BY <1>1, <2>1, InHand, NothingTyped, ResultKeepsIInv
<1>3. CASE ~ refused
  <2>1. /\ Inside(e) /\ ~ (e.packed > e.aligned) /\ alloc' = e.packed
        /\ body' = [NoBody EXCEPT !.real = e.real, !.packed = e.packed, !.aligned = e.aligned]
        /\ stage' = "payload" /\ UNCHANGED <<size, head, keyLength, table, walk, keys>>
    BY <1>3 DEF ReadProtected
  <2>2. e.packed <= size
    <3>1. e.aligned <= size
      BY <1>1, <2>1, InHand, Widths DEF Inside
    <3> QED
      BY <1>1, <2>1, <3>1, InHand
  <2>3. body' = [is |-> "none", length |-> 0, real |-> e.real, packed |-> e.packed,
                 aligned |-> e.aligned, slice |-> Nothing]
    BY <2>1 DEF NoBody
  <2>4. /\ body'.is = "none" /\ body'.packed = e.packed /\ body'.slice = Nothing
        /\ body' \in Outcome
    BY <1>1, <2>3, NothingTyped DEF Outcome
  <2>5. /\ stage' = "payload" /\ alloc' = e.packed
        /\ size' = size /\ head' = head /\ keyLength' = keyLength /\ table' = table
        /\ walk' = walk /\ keys' = keys
    BY <2>1
  <2>6. TypeOK'
    BY <1>1, <2>4, <2>5 DEF IInv, TypeOK, Stages
  <2>7. SlicesInside'
    BY <2>4, <2>5, NothingTyped DEF IInv, SlicesInside
  <2>8. SizesDeclared' /\ BuffersBounded' /\ TableInside'
    BY <2>2, <2>4, <2>5, InHand DEF SizesDeclared, BuffersBounded, TableInside
  <2>9. Placed' /\ Keyed' /\ Payload'
    BY <2>2, <2>4, <2>5 DEF IInv, Placed, Keyed, Payload
  <2> QED
    BY <2>6, <2>7, <2>8, <2>9 DEF IInv
<1> QED
  BY <1>2, <1>3

LEMMA DecodeEntryKeepsIInv ==
    ASSUME IInv, NEW h \in ProtectedHeaders, NEW authentic \in BOOLEAN, NEW stream \in Bodies,
           DecodeEntry(h, authentic, stream)
    PROVE  IInv'
<1>1. /\ body.packed \in Nat /\ body.aligned \in Nat /\ body.real \in Nat /\ body.packed <= size
  BY DEF IInv, TypeOK, Outcome, Payload, DecodeEntry
<1>2. /\ h.padded \in Nat /\ h.packed \in Nat /\ h.output \in Nat /\ h.stored \in BOOLEAN /\ stream \in Nat
  BY Values DEF ProtectedHeaders
<1> DEFINE refused == \/ body.packed < ProtectedHead \/ ~ authentic
                      \/ h.output > MaxOutput \/ h.output # body.real
                      \/ ~ BodyInside(h, body.packed) \/ ~ KeyFound(h.key)
           slice == [of |-> body.packed, from |-> ProtectedHead, to |-> ProtectedHead + h.padded]
           out == IF h.stored THEN h.packed ELSE stream
<1>3. CASE refused
  <2>1. Result(body, "error", 0, Nothing) /\ alloc' = alloc
    BY <1>3 DEF DecodeEntry
  <2> QED
    BY <1>1, <2>1, InHand, NothingTyped, ResultKeepsIInv
<1>4. CASE ~ refused
  <2>1. /\ alloc' = IF h.stored THEN body.packed ELSE Larger(body.packed, h.output + 1)
        /\ \/ out = h.output /\ Result(body, "bytes", out, slice)
           \/ Result(body, "error", 0, slice)
    BY <1>4 DEF DecodeEntry
  <2>2. out \in Nat /\ h.output <= MaxOutput /\ h.output = body.real
    BY <1>1, <1>2, <1>4, Widths
  <2>3. slice \in Slice /\ slice.from <= slice.to /\ slice.to <= slice.of
    BY <1>1, <1>2, <1>4, Widths DEF BodyInside, Slice
  <2>4. alloc' \in Nat /\ (alloc' <= size \/ alloc' <= MaxOutput + 1)
    BY <1>1, <1>2, <2>1, <2>2, InHand, Widths DEF Larger
  <2> HIDE DEF slice, out
  <2>5. CASE out = h.output /\ Result(body, "bytes", out, slice)
    BY <1>1, <2>2, <2>3, <2>4, <2>5, ResultKeepsIInv
  <2>6. CASE Result(body, "error", 0, slice)
    BY <1>1, <2>3, <2>4, <2>6, ResultKeepsIInv
  <2> QED
    BY <2>1, <2>5, <2>6
<1> QED
  BY <1>3, <1>4

LEMMA AgainKeepsIInv == IInv /\ Again => IInv'
<1> SUFFICES ASSUME IInv, Again PROVE IInv'
  OBVIOUS
<1>1. /\ stage' = "open" /\ alloc' = 0 /\ body' = NoBody
      /\ UNCHANGED <<size, head, keyLength, table, walk, keys>>
  BY DEF Again
<1>2. TypeOK'
  BY <1>1, NothingTyped DEF IInv, TypeOK, Stages, Outcome, NoBody
<1>3. SlicesInside'
  BY <1>1, NothingTyped DEF IInv, SlicesInside, NoBody
<1>4. SizesDeclared' /\ BuffersBounded' /\ TableInside'
  BY <1>1, InHand DEF SizesDeclared, BuffersBounded, TableInside, NoBody
<1>5. Placed' /\ Keyed' /\ Payload'
  BY <1>1 DEF IInv, Placed, Keyed, Payload
<1> QED
  BY <1>2, <1>3, <1>4, <1>5 DEF IInv

-----------------------------------------------------------------------------
(* Every step, and the theorems.                                           *)

LEMMA NextKeepsIInv == IInv /\ [Next]_vars => IInv'
<1> SUFFICES ASSUME IInv, [Next]_vars PROVE IInv'
  OBVIOUS
<1>1. CASE \E signed \in BOOLEAN, version \in Versions, low, high, third \in Words :
              ParseHeader(signed, version, low, high, third)
  BY <1>1, ParseHeaderKeepsIInv
<1>2. CASE \E n \in Words : ReadKeyLength(n)
  BY <1>2, ReadKeyLengthKeepsIInv
<1>3. CASE ReadClearTable
  BY <1>3, ReadClearTableKeepsIInv
<1>4. CASE \E packed, real \in Words, inflates \in BOOLEAN : ReadTable(packed, real, inflates)
  BY <1>4, ReadTableKeepsIInv
<1>5. CASE \E ids \in SUBSET KeyIds, valid \in BOOLEAN : ReadKeys(ids, valid)
  BY <1>5, ReadKeysKeepsIInv
<1>6. CASE \E name \in Words : WalkModern(name)
  BY <1>6, WalkModernKeepsIInv
<1>7. CASE \E block \in Blocks : WalkLegacy(block)
  BY <1>7, WalkLegacyKeepsIInv
<1>8. CASE TableWalked
  BY <1>8, TableWalkedKeepsIInv
<1>9. CASE \E e \in Entries : ReadProtected(e) \/ \E stream \in Lengths : ReadEntry(e, stream)
  BY <1>9, ReadProtectedKeepsIInv, ReadEntryKeepsIInv
<1>10. CASE \E h \in ProtectedHeaders, authentic \in BOOLEAN, stream \in Bodies :
              DecodeEntry(h, authentic, stream)
  BY <1>10, DecodeEntryKeepsIInv
<1>11. CASE Again
  BY <1>11, AgainKeepsIInv
<1>12. CASE UNCHANGED vars
  BY <1>12 DEF vars, IInv, TypeOK, TableInside, SlicesInside, BuffersBounded, SizesDeclared, Placed,
               Keyed, Payload
<1> QED
  BY <1>1, <1>2, <1>3, <1>4, <1>5, <1>6, <1>7, <1>8, <1>9, <1>10, <1>11, <1>12 DEF Next

LEMMA Inductive == Spec => []IInv
<1> QED
  BY InitIInv, NextKeepsIInv, PTL DEF Spec

\* Every variable keeps its type: no number of an archive makes a length or a
\* count negative, or a place more than a u64.
THEOREM ReaderTypeCorrect == Spec => []TypeOK
<1>1. IInv => TypeOK
  BY DEF IInv
<1> QED
  BY <1>1, Inductive, PTL

\* The table and the key block an archive is opened with lie inside it, and the
\* sums that say so do not wrap, for any header (open_with_encoding).
THEOREM TableLiesInside == Spec => []TableInside
<1>1. IInv => TableInside
  BY DEF IInv
<1> QED
  BY <1>1, Inductive, PTL

\* No slice of a table or of a payload leaves it or ends before it starts, so
\* none panics (read_modern_table, read_legacy_table, decode_entry).
THEOREM SlicesLieInside == Spec => []SlicesInside
<1>1. IInv => SlicesInside
  BY DEF IInv
<1> QED
  BY <1>1, Inductive, PTL

\* No buffer is larger than the archive or a byte over a limit, whatever the
\* archive declares (open_with_encoding, inflate_exact, read_entry).
THEOREM BuffersAreBounded == Spec => []BuffersBounded
<1>1. IInv => BuffersBounded
  BY DEF IInv
<1> QED
  BY <1>1, Inductive, PTL

\* What read_entry returns has the declared size, but for stored entries that
\* are shorter than it.
THEOREM SizesAreDeclared == Spec => []SizesDeclared
<1>1. IInv => SizesDeclared
  BY DEF IInv
<1> QED
  BY <1>1, Inductive, PTL
=============================================================================
