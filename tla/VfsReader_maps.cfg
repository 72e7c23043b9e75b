\* A session of the reader, closed and opened again: two downloads of a name, a compaction,
\* an I/O error anywhere and a block the disk spoils.
CONSTANTS
    a = a
    Files = {a}
    Word <- MCWord
    FirstImage <- MCFirstImage
    Flushers = {hh}
    Host = hh
    Compactor = cc
    Sizes = {1}
    Reserve = 0
    MaxLogical = 2
    MaxBlock = 5
    MaxDownloads = 2
    MaxCompactions = 1
    MaxRot = 1
    MaxFails = 1
    MaxCrashes = 0
SPECIFICATION ReaderSpec
INVARIANTS
    ReaderSees
    ReaderFindsAll
    CloseKeeps
PROPERTY
    CompactionEnds
