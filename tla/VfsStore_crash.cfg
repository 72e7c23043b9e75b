\* Two downloads of one or two blocks, a compaction of up to two rounds, a flush, and an
\* I/O error in any step but the flip of a round and a crash between any two steps, or a
\* block the disk spoils.
CONSTANTS
    a = a
    b = b
    c = c
    Files = {a, b}
    Word <- MCWord
    FirstImage <- MCFirstImage
    Flushers = {ff}
    Compactor = cc
    Sizes = {1, 2}
    Reserve = 1
    MaxLogical = 3
    MaxBlock = 8
    MaxDownloads = 2
    MaxCompactions = 1
    MaxRot = 1
    MaxFails = 1
    MaxCrashes = 1
SPECIFICATION SteadySpec
CONSTRAINT RotAlone
SYMMETRY Symmetry
INVARIANTS
    StoreInv
    RecoverableIntact
PROPERTY
    NothingFlushedLost
