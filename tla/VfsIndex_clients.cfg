\* Two files, one whose handle may fail to open, two compactions, and a client that
\* enumerates.  The bounds on generations and compactions may be used up.
CONSTANTS
    a = a
    b = b
    r1 = r1
    r2 = r2
    Names = {a, b}
    Runs = {r1, r2}
    OpenFails = {b}
    MaxGen = 7
SPECIFICATION Spec
INVARIANTS
    IndexInv
    GenerationTells
    StatusSettles
PROPERTY
    DoneOnce
CHECK_DEADLOCK FALSE
