CONSTANTS
    Persistent = {p1}
    Temporary = {m1}
    Size <- MCSize
    Threads = {t1, t2}
    Limits = {0, 1, 2}
    InsertInterval = 1
    PurgeMultiplier = 1
    EarlyOut = 2
    AliveMultiplier = 2
    CanDestroy = {}
    MaxInserts = 2
    MaxFaults = 1
    MaxLimits = 1
    NoBlock = noblock
    NoThread = nothread
SYMMETRY Symmetry
SPECIFICATION Spec
INVARIANTS MemoryAccounted ContentsKept EvictableQueued DeadNodesCounted WithinLimit
CHECK_DEADLOCK FALSE
