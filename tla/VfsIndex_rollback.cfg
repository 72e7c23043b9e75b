\* A handle that fails to open takes its entry back under the same generation.
CONSTANTS
    a = a
    b = b
    r1 = r1
    r2 = r2
    Names = {a}
    Runs = {r1}
    OpenFails = {a}
    MaxGen = 3
SPECIFICATION Spec
INVARIANT EnumerationExact
CHECK_DEADLOCK FALSE
