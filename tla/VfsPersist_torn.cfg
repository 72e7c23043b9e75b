\* An append that an I/O error cuts short, then a flush that succeeds, then a crash.
CONSTANTS
    f1 = f1
    f2 = f2
    Flushers = {f1}
    Compactor = cc
    Lens = {1}
    EmptyLen = 1
    Tears = {"stuck"}
    MaxVer = 2
    Faults <- ErrorAndCrash
SPECIFICATION Spec
INVARIANT FlushedSurvives
