SPECIFICATION PathSpec
CONSTANTS
    None = None
    n1 = n1
    n2 = n2
    Docs = {d1, d2}
    Hashes = {h1, h2}
    RawNames = {n1, n2}
    SafeName <- CleanNames
    MaxBatches = 1
    LegCount = 0
    Faults <- NoFaults
    MaxCrashes = 0
    MaxAged = 0
    Readers = {r1}
    NativeSparse = FALSE
    ReadFaults <- LegacyReadFaults
    MaxVersion = 4
SYMMETRY Symmetry
INVARIANTS
    IndexedIsServed
CHECK_DEADLOCK FALSE
