SPECIFICATION FairSpec
CONSTANTS
    None = None
    n1 = n1
    n2 = n2
    p1 = p1
    Docs = {d1, d2}
    Hashes = {h1, h2}
    RawNames = {n1, n2}
    SafeName <- CleanNames
    MaxBatches = 1
    LegCount = 0
    Faults <- IndexFaults
    MaxCrashes = 0
    MaxAged = 0
INVARIANTS
    IndexedIsSearchable
PROPERTIES
    ProcessingEnds
CHECK_DEADLOCK FALSE
