SPECIFICATION Spec
CONSTANTS
    Paths = {mod, song, jingle, tr, plain, hidden}
    PublicPaths = {mod, song, jingle, tr, plain}
    KeyOf <- MCKeyOf
    RootFiles = {mod}
    ClientFiles = {song, jingle}
    OverrideFiles = {tr, song}
    ArchiveFiles = {mod, song, tr, plain, hidden}
    WarmPaths = {plain}
    AutoExtract = TRUE
    RemoteGrfData = FALSE
    Workers = {w1, w2}
    Slots = {s1}
    ChunkCount = 2
    MaxReadFails = 1
    MaxMishaps = 1
SYMMETRY MCWorkerSymmetry
INVARIANTS
    RemoteOnlyHostFiles
    PrecedenceHolds
