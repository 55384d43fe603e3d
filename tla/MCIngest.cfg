CONSTANTS
    r1 = r1
    r2 = r2
    NoPath = NoPath
    Requests <- MCRequests
    Envelopes <- MCEnvelopes
    MaxBytes = 3
    LongTextThreshold = 1

SPECIFICATION Spec

INVARIANTS
    TypeOK
    ResponseTellsDisk
    LastPathExists
    BatchOrder
