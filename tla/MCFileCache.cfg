SPECIFICATION Spec
CONSTANTS
    Keys = {k1, k2, k3}
    Workers = {w1, w2}
    Lens = {2, 3, 7}
    EncodedLens = {1}
    MaxSize = 2
    MaxMemory = 6
    KeepShare = 2
    MaxSeq = 4
    MaxMisses = 1
SYMMETRY MCSymmetry
INVARIANTS
    OrderMatchesMap
    MemoryAccounted
    WithinLimits
    EncodingCountedOnce
PROPERTY ImplementsLru
