CONSTANTS
    g1 = g1
    g2 = g2
    c1 = c1
    c2 = c2
    a = a
    b = b
    x = x
    y = y
    NoItem = NoItem
    NoName = NoName
    Ingests = {g1}
    Frame <- OneFrame
    Callers = {c1}
    Items <- MCItems
    Pushed = {}

SPECIFICATION FairSpec

PROPERTY
    JournaledIsReceived
