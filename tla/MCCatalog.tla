----------------------------- MODULE MCCatalog -----------------------------
(***************************************************************************)
(* TLC instances of Catalog.  The letters stand for                        *)
(*   a, A: themselves; geod (bytes B0 C8), gye (B0 E8), uk (9F 70): the  *)
(*     Hangul syllables those bytes are in CP949;                          *)
(*   geodM, gyeM, ukM: the same bytes as Latin-1 letters, of which B0 C8 *)
(*     in lower case is B0 E8; ukW, ukL: 9F 70 as windows-1252, and that   *)
(*     in lower case;                                                      *)
(*   lost: what UTF-8 makes of CP949 bytes; mess, messM: the bytes of gye  *)
(*     in UTF-8, read as CP949 and as Latin-1;                             *)
(*   mark: with question marks for what Latin-1 has not; ncr: with numbers *)
(*     for what CP949 has not.                                             *)
(***************************************************************************)
EXTENDS Catalog, TLC

MCLetters == {"a", "A", "geod", "gye", "uk", "geodM", "gyeM", "ukM", "ukW", "ukL",
              "lost", "mess", "messM", "mark", "ncr"}

MCLower == [l \in MCLetters |-> CASE l = "A" -> "a" [] l = "geodM" -> "gyeM"
                                   [] l = "ukW" -> "ukL" [] OTHER -> l]
Hangul == [geod |-> "geodM", gye |-> "gyeM", uk |-> "ukM", mess |-> "messM"]
MCToMojibake == [l \in MCLetters |-> IF l \in {"a", "A", "mark", "ncr"} THEN l
                                     ELSE IF l \in DOMAIN Hangul THEN Hangul[l] ELSE "ncr"]
MCDecodeMojibake ==
    [l \in MCLetters |-> IF l \in {"a", "A", "mark", "ncr"} THEN l
                         ELSE IF l = "ukL" THEN "lost"
                         ELSE IF \E h \in DOMAIN Hangul : Hangul[h] = l
                              THEN CHOOSE h \in DOMAIN Hangul : Hangul[h] = l ELSE "mark"]
MCToLatin1 == [l \in {"ukW"} |-> "ukM"]

Plain(l, s) == [utf8 |-> l, cp949 |-> l, sep |-> s, high |-> FALSE,
                badUtf8 |-> 0, badCp949 |-> 0, bytes |-> 1]
Korean(l) == [utf8 |-> "lost", cp949 |-> l, sep |-> "\\", high |-> TRUE,
              badUtf8 |-> 1, badCp949 |-> 0, bytes |-> 2]
MCRaws == {Plain("a", "/"), Plain("A", "\\"), Korean("geod"), Korean("gye"), Korean("uk"),
           [utf8 |-> "gye", cp949 |-> "mess", sep |-> "\\", high |-> TRUE,
            badUtf8 |-> 0, badCp949 |-> 1, bytes |-> 3]}

\* The hypothesis of ListedFilesLead (CatalogProofs) holds of these names.
ASSUME NamesAssumption == NoNameIsMojibake
=============================================================================
