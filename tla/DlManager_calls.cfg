\* Two host threads, two workers, two tasks of two priorities.  A manager that was freed
\* stops.
CONSTANTS
    w1 = w1
    w2 = w2
    MaxHosts = 2
    Workers = {w1, w2}
    MaxTasks = 2
    MaxCalls <- OverlapWhileFew
    Prios = {0, 1}
    Failing = {1}
SPECIFICATION FairSpec
INVARIANTS
    ManagerInv
    FreedAllTold
    CalmMeansIdle
PROPERTIES
    LivesImplement
    Settles
CHECK_DEADLOCK FALSE
