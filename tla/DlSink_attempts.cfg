\* Every task of up to three chunks, with and without a fallback source, two retries,
\* into a file or the vfs. A task that is over stops.
CONSTANTS
    MaxSize = 3
    Jobs <- AllJobs
    RetryCount = 2
    Kinds = {"vfs", "file"}
SPECIFICATION SinkSpec
INVARIANTS
    TaskInv
    DoneIntact
    AttemptsBounded
    EntryVerifies
PROPERTIES
    ImplementsLife
    EndsInTime
    SinkClean
CHECK_DEADLOCK FALSE
