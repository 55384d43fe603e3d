CONSTANTS
    s1 = s1
    s2 = s2
    g = g
    w1 = w1
    w2 = w2
    p1 = p1
    p2 = p2
    p3 = p3
    p4 = p4
    NoPath = NoPath
    Savers <- MCSavers
    Ingests <- MCIngests
    Waiters <- MCWaiters
    Paths <- MCPaths
    Saved <- MCSaved
    RecentsCap = 2
    MaxRestarts = 1
    Faulty = {s1, g}

SPECIFICATION Spec

INVARIANT
    ParkedAreResumed
