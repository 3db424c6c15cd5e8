SPECIFICATION Spec
CONSTANTS
    Byte = 256
    Word = 65536
    Long = 33554432
    HeaderSize = 46
    TableHead = 8
    Field = 4
    NameAt = 6
    EntryData = 17
    WideData = 21
    LengthBias = 715
    AlignedBias = 37579
    CountBias = 7
    MaxEntries = 2
    MaxTable = 330
    MaxOutput = 60
    Overhead = 100
    KeyHead = 20
    KeyRecord = 64
    MaxKeys = 2
    ProtectedHead = 104
    Sizes = {40, 100, 190, 400}
    Words <- MCWords
    Blocks <- MCBlocks
    Lengths <- MCLengths
    Offsets <- MCOffsets
    Bodies = {0, 40, 41, 60}
    KeyIds = {1, 2}
CHECK_DEADLOCK FALSE
INVARIANTS
    TableInside
    SlicesInside
    BuffersBounded
    SizesDeclared
