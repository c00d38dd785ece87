\* Files: blocks of two bytes and copies by three, so that every call meets the
\* edges of the blocks.  Maps: three keys, two growths; used wraps at three.
\* Settings: every text of up to three lines, whole or without its last line
\* end, from a file and from memory.  One allocation may fail.
CONSTANTS
    CR = "cr"
    LF = "lf"
    NUL = "nul"
    Junk = "junk"
    Chunks <- MCChunks
    ReadSizes <- MCReadSizes
    Rooms <- MCRooms
    BlockSize = 2
    CopySize = 3
    MaxIov = 5
    MaxBytes = 4
    MaxFaults = 1
    k1 = k1
    k2 = k2
    k3 = k3
    Keys = {k1, k2, k3}
    Values = {v, w}
    NULL = NULL
    Code <- MCCode
    Primes <- MCPrimes
    UsedMod = 3
    Cells = {1, 2, 3}
    MaxFailures = 1
    Null = Null
    NOTFOUND = NOTFOUND
    DictMinSz = 1
    Files <- MCFiles
    Lower <- MCLower
    LineSize = 3
    Number <- MCNumber
    IntOptions = {"port"}
    StrOptions = {"level"}
    Required = {"level"}
    Module = "g"
    Programs <- MCPrograms
    MaxMisses = 1
SPECIFICATION Spec
INVARIANTS
    CursorsAgree
    ChainsHoldEntries
    
    SlotsConsistent
    LoadIsExact
    
PROPERTIES
    ImplementsByteFile
    
    
    
\* A program that has read its settings is done with them.
CHECK_DEADLOCK FALSE
