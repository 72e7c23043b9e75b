\* Two threads, two places for managers and for shares, each reused.
\* Threads stop when the bounds are spent.
CONSTANTS
    h1 = h1
    h2 = h2
    Hosts = {h1, h2}
    m1 = m1
    m2 = m2
    Addresses = {m1, m2}
    s1 = s1
    s2 = s2
    Shares = {s1, s2}
    Chunk = 2
    MaxSessions = 2
    MaxManagers = 3
    MaxDelegates = 2
SPECIFICATION Spec
SYMMETRY Symmetry
INVARIANTS
    BindingInv
    LocksLive
    DelegatesKept
CHECK_DEADLOCK FALSE
