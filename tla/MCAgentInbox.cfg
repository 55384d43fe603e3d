CONSTANTS
    r1 = r1
    r2 = r2
    r3 = r3
    i1 = i1
    i2 = i2
    i3 = i3
    NoItem = NoItem
    Receivers <- MCReceivers
    Pollers <- MCPollers
    Items <- MCItems
    Batches <- MCBatches

SPECIFICATION FairSpec

INVARIANTS
    TypeOK
    NoLostWakeup
    SendNeverBlocks

PROPERTIES
    ServedInParkOrder
    RefinesInbox
    EveryItemReturned
