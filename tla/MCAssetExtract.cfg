SPECIFICATION Spec
CONSTANTS
    Paths = {mod, plain}
    PublicPaths = {mod, plain}
    KeyOf <- MCKeyOf
    RootFiles = {mod}
    ClientFiles = {}
    OverrideFiles = {}
    ArchiveFiles = {mod, plain}
    WarmPaths = {}
    AutoExtract = TRUE
    RemoteGrfData = TRUE
    Workers = {w1, w2}
    Slots = {s1, s2}
    ChunkCount = 2
    MaxReadFails = 1
    MaxMishaps = 1
SYMMETRY MCWorkerSymmetry
INVARIANTS
    PrecedenceHolds
    HostFilesKept
    QuietDiskWhole
