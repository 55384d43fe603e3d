CONSTANTS
    g1 = g1
    g2 = g2
    c1 = c1
    c2 = c2
    a = a
    b = b
    x = x
    y = y
    NoItem = NoItem
    NoName = NoName
    Ingests <- MCIngests
    Frame <- MCFrame
    Callers <- MCCallers
    Items <- MCItems
    Pushed <- MCPushed

SPECIFICATION FairSpec

INVARIANTS
    TypeOK
    ExactlyOnce
    ClaimedInOrder

PROPERTIES
    RefinesQueue
    CallsEnd
    JournalDrains
