------------------------------ MODULE Catalog ------------------------------
(***************************************************************************)
(* Startup up to the merged index: validate_and_load of src/validator.rs   *)
(* with parse_data_ini of src/config.rs, the choice of a name encoding     *)
(* (sample_names of src/grf.rs, detect_best_encoding of src/encoding.rs),  *)
(* AssetIndex of src/index.rs, and the ladder of spellings                 *)
(* Client::resolve_with climbs.                                            *)
(*                                                                         *)
(* A text is the letters of a name and the separator between them.  What   *)
(* lower-casing and the codecs make of letters is given by functions; what *)
(* they do to separators is nothing.  A raw name is what either encoding   *)
(* makes of its bytes, and the bad characters that gives.                  *)
(***************************************************************************)
EXTENDS Integers, Sequences, FiniteSets, Functions

CONSTANTS Letters,
          Lower, ToMojibake, DecodeMojibake,  \* js_lowercase and the two readings
          ToLatin1,       \* windows1252_to_latin1, where it changes anything
          Raws,           \* the raw names in archives
          Archives,       \* the archives DATA.INI may name
          Numbers,        \* the numbers it gives them
          FallbackIndex,  \* 1 000 000
          SampleCount,    \* DETECT_SAMPLE_COUNT
          Forced,         \* GRF_FILENAME_ENCODING, or "none"
          MaxLines,       \* bounds of the model: lines and entries of DATA.INI,
          MaxEntries,
          MaxFiles        \*   and files in all archives

Separators == {"/", "\\", ""}
Text == [letters : Letters, sep : Separators]
Raw == [utf8 : Letters, cp949 : Letters, sep : Separators, high : BOOLEAN,
        badUtf8 : Nat, badCp949 : Nat, bytes : Nat \ {0}]

ASSUME CatalogAssumption ==
    /\ \A f \in {Lower, ToMojibake, DecodeMojibake} : f \in [Letters -> Letters]
    /\ DOMAIN ToLatin1 \subseteq Letters /\ \A l \in DOMAIN ToLatin1 : ToLatin1[l] \in Letters
    /\ Raws \subseteq Raw /\ Numbers \subseteq Int
    /\ Forced \in {"none", "utf-8", "cp949"}
    /\ FallbackIndex \in Int /\ SampleCount \in Nat \ {0}
    /\ MaxLines \in Nat /\ MaxEntries \in Nat /\ MaxFiles \in Nat

VARIABLES stage,
          errors,     \* whether the report has an error
          ini,        \* lines read, whether in [Data], the last index made up; if all was read
          entries,    \* what the [Data] section lists, by line
          listed,     \* what it lists, in load order
          grfs,       \* what was opened: the archive, its raw names, their encoding
          files,      \* AssetIndex: [grf, name] of every file
          keys,       \*   spelling -> slot of the file it leads to
          reachable   \*   slots that own a key

vars == <<stage, errors, ini, entries, listed, grfs, files, keys, reachable>>
index == <<files, keys, reachable>>

Entry == [index : Int, archive : Archives]
Grf == [archive : Archives, names : Seq(Raws), encoding : {"utf-8", "cp949"}]

Init ==
    /\ stage = "environment"
    /\ errors = FALSE
    /\ ini = [lines |-> 0, data |-> FALSE, last |-> FallbackIndex, read |-> FALSE]
    /\ entries = <<>> /\ listed = <<>> /\ grfs = <<>>
    /\ files = <<>> /\ keys = [k \in {} |-> k] /\ reachable = <<>>

-----------------------------------------------------------------------------
(* The checks.                                                             *)

\* An unset or unusable public address, a target or a client directory that
\* cannot be used are errors; a missing override directory is not.
ValidateEnvironment(address, targets, directories) ==
    /\ stage = "environment"
    /\ stage' = "required"
    /\ errors' = (errors \/ address # "usable" \/ ~ targets \/ ~ directories)
    /\ UNCHANGED <<ini, entries, listed, grfs, index>>

ValidateRequired(resources, file) ==
    /\ stage = "required"
    /\ stage' = IF file THEN "ini" ELSE "decide"
    /\ errors' = (errors \/ ~ resources \/ ~ file)
    /\ UNCHANGED <<ini, entries, listed, grfs, index>>

\* DATA.INI is there and not UTF-8, or cannot be read.
IniUnreadable ==
    /\ stage = "ini" /\ ini.lines = 0
    /\ stage' = "decide"
    /\ UNCHANGED <<errors, ini, entries, listed, grfs, index>>

-----------------------------------------------------------------------------
(* parse_data_ini.                                                         *)

Header(isData) ==
    /\ stage = "ini" /\ ini.lines < MaxLines
    /\ ini' = [ini EXCEPT !.lines = @ + 1, !.data = isData]
    /\ UNCHANGED <<stage, errors, entries, listed, grfs, index>>

\* key=value; a key that is no number gets the next one made up.
Listing(number, archive) ==
    /\ stage = "ini" /\ ini.lines < MaxLines /\ Len(entries) < MaxEntries
    /\ IF ~ ini.data THEN ini' = [ini EXCEPT !.lines = @ + 1] /\ UNCHANGED entries
       ELSE LET made == IF number = {} THEN ini.last + 1 ELSE ini.last IN
            /\ ini' = [ini EXCEPT !.lines = @ + 1, !.last = made]
            /\ \E n \in IF number = {} THEN {made} ELSE number :
                 entries' = Append(entries, [index |-> n, archive |-> archive])
    /\ UNCHANGED <<stage, errors, listed, grfs, index>>

\* Entries by index, those with the same index in the order of their lines.
\* The first leaves them as the file has them.
AsListed(es) == [i \in DOMAIN es |-> es[i].archive]
Sorted(es) ==
    LET before(i) == {j \in DOMAIN es : es[j].index < es[i].index
                                        \/ (es[j].index = es[i].index /\ j < i)}
    IN  [n \in DOMAIN es |-> es[CHOOSE i \in DOMAIN es : Cardinality(before(i)) = n - 1].archive]

IniEnds ==
    /\ stage = "ini"
    /\ listed' = Sorted(entries)
    /\ errors' = (errors \/ entries = <<>>)
    /\ ini' = [lines |-> 0, data |-> FALSE, last |-> FallbackIndex, read |-> TRUE]
    /\ stage' = "open"
    /\ UNCHANGED <<entries, grfs, index>>

-----------------------------------------------------------------------------
(* The archives.  tried of listed have been.                               *)

\* sample_names: the first names with a high byte, wherever they are.  The
\* first looks at the first entries only.
EarlyNames(names) == {i \in DOMAIN names : names[i].high /\ i <= SampleCount}
SampleNames(names) ==
    {i \in DOMAIN names : names[i].high /\ Cardinality({j \in 1 .. i : names[j].high}) <= SampleCount}

\* detect_best_encoding: UTF-8 with less than one bad character in a hundred
\* bytes, or no more of them than CP949 has.
DetectBestEncoding(names) ==
    LET samples == SampleNames(names)
        utf8Bad == SumFunction([i \in samples |-> names[i].badUtf8])
        cp949Bad == SumFunction([i \in samples |-> names[i].badCp949])
        total == SumFunction([i \in samples |-> names[i].bytes])
    IN  IF samples # {} /\ 100 * utf8Bad >= total /\ cp949Bad < utf8Bad THEN "cp949" ELSE "utf-8"

Decode(encoding, raw) ==
    [letters |-> IF encoding = "utf-8" THEN raw.utf8 ELSE raw.cp949, sep |-> raw.sep]

\* Neither a missing archive nor one that cannot be read stops the loop.  The
\* first lets the report pass without them.
Overlooked(archive) == FALSE
Reported(archive) == TRUE

Tried == Len(grfs)
SameAsBefore(archive, names) ==
    \A g \in {grfs[i] : i \in DOMAIN grfs} : g.archive = archive => g.names = names

OpenGrf(names) ==
    /\ stage = "open" /\ Tried < Len(listed)
    /\ LET archive == listed[Tried + 1] IN
       /\ SameAsBefore(archive, names)
       /\ Len(names) + SumFunction([i \in DOMAIN grfs |-> Len(grfs[i].names)]) <= MaxFiles
       /\ grfs' = Append(grfs, [archive |-> archive, names |-> names,
                                encoding |-> IF Forced # "none" THEN Forced ELSE DetectBestEncoding(names)])
    /\ UNCHANGED <<stage, errors, ini, entries, listed, index>>

OpenFails ==
    /\ stage = "open" /\ Tried < Len(listed)
    /\ listed' = [i \in 1 .. Len(listed) - 1 |-> listed[IF i <= Tried THEN i ELSE i + 1]]
    /\ errors' = (errors \/ Reported(listed[Tried + 1]))
    /\ UNCHANGED <<stage, ini, entries, grfs, index>>

AllTried ==
    /\ stage = "open" /\ Tried = Len(listed)
    /\ stage' = "decide"
    /\ UNCHANGED <<errors, ini, entries, listed, grfs, index>>

\* run(): any error ends the process before the index is built.
Decide ==
    /\ stage = "decide"
    /\ stage' = IF errors THEN "stopped" ELSE "index"
    /\ UNCHANGED <<errors, ini, entries, listed, grfs, index>>

-----------------------------------------------------------------------------
(* AssetIndex::build.                                                      *)

NormForward(t) == [letters |-> Lower[t.letters], sep |-> IF t.sep = "" THEN "" ELSE "/"]
NormBackward(t) == [letters |-> Lower[t.letters], sep |-> IF t.sep = "" THEN "" ELSE "\\"]
Mojibake(t) == [t EXCEPT !.letters = ToMojibake[@]]
Spellings(name) == {NormForward(t) : t \in {name, Mojibake(name)}}
                   \cup {NormBackward(t) : t \in {name, Mojibake(name)}}

\* A key that is taken stays with its file.  The first gives it to the last.
LastClaim(owners, key, slot) == slot
Claim(owners, key, slot) == IF key \in DOMAIN owners THEN owners[key] ELSE slot

\* A file that owns a key is listed.  The first goes by its mojibake alone.
WinsMojibake(name) == NormForward(Mojibake(name)) \notin DOMAIN keys
Wins(name) == \E k \in Spellings(name) : k \notin DOMAIN keys

\* Where the file goes.
Slot == Len(files) + 1

\* The next file: of the first archive that has more than were taken of it.
TakenOf(g) == Cardinality({i \in DOMAIN files : files[i].grf = g})
Taking == {g \in DOMAIN grfs : TakenOf(g) < Len(grfs[g].names)}

IndexFile ==
    /\ stage = "index" /\ Taking # {}
    /\ LET g == CHOOSE x \in Taking : \A y \in Taking : x <= y
           name == Decode(grfs[g].encoding, grfs[g].names[TakenOf(g) + 1])
           all == DOMAIN keys \cup Spellings(name)
       IN  /\ files' = Append(files, [grf |-> g, name |-> name])
           /\ keys' = [k \in all |-> Claim(keys, k, Slot)]
           /\ reachable' = IF Wins(name) THEN Append(reachable, Slot) ELSE reachable
    /\ UNCHANGED <<stage, errors, ini, entries, listed, grfs>>

IndexBuilt ==
    /\ stage = "index" /\ Taking = {}
    /\ stage' = "serve"
    /\ UNCHANGED <<errors, ini, entries, listed, grfs, index>>

Next ==
    \/ \E address \in {"unset", "invalid", "usable"}, targets, directories \in BOOLEAN :
          ValidateEnvironment(address, targets, directories)
    \/ \E resources, file \in BOOLEAN : ValidateRequired(resources, file)
    \/ IniUnreadable
    \/ \E isData \in BOOLEAN : Header(isData)
    \/ \E number \in {{}} \cup {{n} : n \in Numbers}, archive \in Archives : Listing(number, archive)
    \/ IniEnds
    \/ \E n \in 0 .. MaxFiles : \E names \in [1 .. n -> Raws] : OpenGrf(names)
    \/ OpenFails \/ AllTried \/ Decide
    \/ IndexFile \/ IndexBuilt

Spec == Init /\ [][Next]_vars

-----------------------------------------------------------------------------
(* Lookups, as sets with the slot or none.                                 *)

\* AssetIndex::lookup.
Lookup(t) ==
    IF NormForward(t) \in DOMAIN keys THEN {keys[NormForward(t)]}
    ELSE {keys[k] : k \in {NormBackward(t)} \cap DOMAIN keys}

\* Client::resolve_with: the path, its Korean reading, and the same with
\* windows-1252 letters put back to their bytes.
Read(t) == [t EXCEPT !.letters = DecodeMojibake[@]]
Ladder(t) ==
    LET latin1 == [t EXCEPT !.letters = ToLatin1[@]] IN
    <<t, Read(t)>> \o IF t.letters \in DOMAIN ToLatin1 THEN <<latin1, Read(latin1)>> ELSE <<>>
FirstHit(ts) ==
    LET hits == {i \in DOMAIN ts : Lookup(ts[i]) # {}} IN
    IF hits = {} THEN {} ELSE Lookup(ts[CHOOSE i \in hits : \A j \in hits : i <= j])
Resolve(t) == FirstHit(Ladder(t))

-----------------------------------------------------------------------------
(* Properties.                                                             *)

TypeOK ==
    /\ stage \in {"environment", "required", "ini", "open", "decide", "index", "serve", "stopped"}
    /\ errors \in BOOLEAN
    /\ ini \in [lines : 0 .. MaxLines, data : BOOLEAN, last : Int, read : BOOLEAN]
    /\ entries \in Seq(Entry) /\ listed \in Seq(Archives) /\ grfs \in Seq(Grf)
    /\ files \in Seq([grf : DOMAIN grfs, name : Text])
    /\ DOMAIN keys \subseteq Text /\ \A k \in DOMAIN keys : keys[k] \in DOMAIN files
    /\ reachable \in Seq(DOMAIN files)

\* Archives are loaded by the number DATA.INI gives them, lowest first, equal
\* ones by line, whatever else its lines say (parse_data_ini).
Place(archive, i) == entries[i].archive = archive
LoadedByNumber ==
    stage \in {"open", "index", "serve"} =>
        \A m, n \in DOMAIN listed : m < n =>
            \E i, j \in DOMAIN entries :
                /\ Place(listed[m], i) /\ Place(listed[n], j)
                /\ entries[i].index < entries[j].index
                   \/ (entries[i].index = entries[j].index /\ i < j)

\* A server that starts after it has read DATA.INI has every archive that it
\* lists, and at least one (validate_grfs, Validation::success).
StartedWhole ==
    stage \in {"index", "serve"} /\ ini.read =>
        entries # <<>> /\ Len(grfs) = Len(entries)

\* A path leads to the first file in load order that has a spelling of it, the
\* spellings taken in the ladder's order, whichever way its slashes lean and
\* whatever the four keys of other files took first (build, lookup,
\* resolve_with).
Answers(t) == {i \in DOMAIN files : \E k \in {NormForward(t), NormBackward(t)} : k \in Spellings(files[i].name)}
SpellingFindsFirst ==
    stage = "serve" =>
        \A t \in Text :
            LET ts == Ladder(t)
                rungs == {i \in DOMAIN ts : Answers(ts[i]) # {}}
            IN  Resolve(t) =
                  IF rungs = {} THEN {}
                  ELSE LET found == Answers(ts[CHOOSE i \in rungs : \A j \in rungs : i <= j])
                       IN  {CHOOSE i \in found : \A j \in found : i <= j}

\* No archive names a file by what another file's name is when it is misread.
NameLetters == UNION {{r.utf8, r.cp949} : r \in Raws}
NoNameIsMojibake ==
    \A x, y \in NameLetters : Lower[ToMojibake[x]] = Lower[y] => Lower[x] = Lower[y]

\* What names() lists leads, asked for as it is spelled, to a file of that
\* name, and a file that it does not list would lead to another archive's or
\* to an earlier one's (reachable).
Named(slot) == NormForward(files[slot].name)
NamesLead ==
    \A n \in DOMAIN reachable :
        \A slot \in Resolve(files[reachable[n]].name) : Named(slot) = Named(reachable[n])
HiddenLeadBack ==
    \A i \in DOMAIN files : (\A n \in DOMAIN reachable : reachable[n] # i) =>
        \E slot \in Resolve(files[i].name) : slot < i
ListedLeads == stage = "serve" => NamesLead /\ HiddenLeadBack

\* An archive whose names are CP949 has them read so, however many plain names
\* come before them (sample_names).
HangulIsRead ==
    \A n \in DOMAIN grfs :
        LET high == {i \in DOMAIN grfs[n].names : grfs[n].names[i].high} IN
        /\ Forced = "none" /\ high # {}
        /\ \A i \in high : LET r == grfs[n].names[i] IN r.badCp949 = 0 /\ 100 * r.badUtf8 >= r.bytes
        => grfs[n].encoding = "cp949"

\* A browser asks for a file by its mojibake spelling; it gets a file of that
\* name, since "case is irrelevant to both" spellings.
BrowserFindsFile ==
    stage = "serve" =>
        \A i \in DOMAIN files :
            \E slot \in Resolve(Mojibake(files[i].name)) : Named(slot) = Named(i)
=============================================================================
