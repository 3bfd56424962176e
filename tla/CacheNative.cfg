SPECIFICATION PathSpec
CONSTANTS
    None = None
    n1 = n1
    n2 = n2
    Docs = {d1}
    Hashes = {h1}
    RawNames = {n1, n2}
    SafeName <- CleanNames
    MaxBatches = 1
    LegCount = 1
    Faults <- BumpingFaults
    MaxCrashes = 1
    MaxAged = 0
    Readers = {r1, r2}
    NativeSparse = TRUE
    ReadFaults <- NativeReadFaults
    MaxVersion = 4
SYMMETRY ReaderSymmetry
INVARIANTS
    NoStaleHit
CHECK_DEADLOCK FALSE
