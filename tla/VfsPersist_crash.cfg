\* Two flushing threads and a compaction: one crash with regions of two lengths, or with
\* regions of one length and one more index change: three crashes in a row, or an I/O
\* error in any persist and a crash.
CONSTANTS
    f1 = f1
    f2 = f2
    Flushers = {f1, f2}
    Compactor = cc
    Lens = {1, 2}
    EmptyLen = 1
    Tears = {"bad", "stuck", "sb"}
    MaxVer = 3
    Faults <- ErrorOrCrashes
SPECIFICATION Spec
CONSTRAINT Manageable
SYMMETRY Symmetry
INVARIANTS
    PersistInv
    AckedIntact
    FlushAccepted
PROPERTIES
    NoRegress
    ImplementsDurable
