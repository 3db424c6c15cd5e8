SPECIFICATION Spec
CONSTANTS
    Letters <- MCLetters
    Lower <- MCLower
    ToMojibake <- MCToMojibake
    DecodeMojibake <- MCDecodeMojibake
    ToLatin1 <- MCToLatin1
    Raws <- MCRaws
    Archives = {a, b}
    Numbers = {0, 3}
    FallbackIndex = 1
    SampleCount = 1
    Forced = "none"
    MaxLines = 4
    MaxEntries = 2
    MaxFiles = 3
CHECK_DEADLOCK FALSE
INVARIANTS
    LoadedByNumber
    StartedWhole
    SpellingFindsFirst
    ListedLeads
    HangulIsRead
