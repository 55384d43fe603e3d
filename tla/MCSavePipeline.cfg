CONSTANTS
    s1 = s1
    s2 = s2
    t = t
    u = u
    daemon = daemon
    ingest1 = ingest1
    ingest2 = ingest2
    n1 = n1
    n2 = n2
    n3 = n3
    n4 = n4
    n5 = n5
    Nobody = Nobody
    Absent = Absent
    Empty = Empty
    Foreign = Foreign
    Savers <- MCSavers
    Processes <- MCProcesses
    ProcessOf <- MCProcessOf
    Names <- MCNames
    Candidates <- MCCandidates
    Intruders = {n1}
    Killable = {ingest1}

SPECIFICATION FairSpec

INVARIANTS
    TypeOK
    NamesAreOwned
    NoLitter

PROPERTIES
    RefinesDirectory
    SavesEnd
