\* Two transfers, one of a task with a limit of its own, and a host that changes the
\* global rate at any time; half a second is a tick, so that bytes come in parts.
CONSTANTS
    t1 = t1
    t2 = t2
    Transfers = {t1, t2}
    Ticks = 2
    Rates = {0, 1, 3}
    TaskRate <- OneLimited
    Wants = {1, 3}
SPECIFICATION FairSpec
INVARIANTS
    RateInv
    AnyWindow
PROPERTIES
    ImplementsBucket
    AcquireReturns
