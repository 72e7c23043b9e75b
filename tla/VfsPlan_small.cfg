\* Every layout of up to four files, holes of up to two blocks, files of 0 to 3.
CONSTANTS
    MaxFiles = 4
    MaxHole = 2
    MaxSpan = 2
    MaxTail = 1
    Files <- MCFiles
    Layouts <- MCLayouts
    Rotten <- MCRotten
    Word <- MCWord
    MaxRounds = 8
SPECIFICATION Spec
INVARIANTS
    PlanInv
    TargetsSpareSources
    LayoutLegal
    WrapsOnlyForEmpty
    ConvergesBeforeLimit
CHECK_DEADLOCK FALSE
