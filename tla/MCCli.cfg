CONSTANTS
    c1 = c1
    c2 = c2
    c3 = c3
    b1 = b1
    b2 = b2
    k1 = k1
    k2 = k2
    ca = ca
    None = None
    Calls = {c1, c2, c3}
    Boxes = {b1, b2}
    Keys = {k1, k2, ca}
    CertKeys = {ca}
    FirstKey = k1
    BinUnits = 2
    MaxCuts = 1
    MaxBytes = 3
    Worlds <- MCWorlds
SPECIFICATION Spec
INVARIANTS
    TypeOK
    OnlyTrustedHosts
    SuccessMeansDelivered
    
    SetupMeansReady
    DaemonIsReached
CHECK_DEADLOCK FALSE
