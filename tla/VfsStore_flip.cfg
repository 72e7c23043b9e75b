\* The SuperBlock may be on the disk although its last fsync failed.
CONSTANTS
    a = a
    b = b
    c = c
    Files = {a, b}
    Word <- MCWord
    FirstImage <- MCFirstImage
    Flushers = {}
    Compactor = cc
    Sizes = {1, 2}
    Reserve = 0
    MaxLogical = 4
    MaxBlock = 8
    MaxDownloads = 3
    MaxCompactions = 1
    MaxRot = 0
    MaxFails = 1
    MaxCrashes = 1
SPECIFICATION FaultySpec
INVARIANT RecoverableIntact
CHECK_DEADLOCK FALSE
