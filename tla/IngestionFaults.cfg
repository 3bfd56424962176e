SPECIFICATION Spec
CONSTANTS
    None = None
    n1 = n1
    n2 = n2
    p1 = p1
    Docs = {d1, d2}
    Hashes = {h1, h2}
    RawNames = {n1, p1}
    SafeName <- PathNames
    MaxBatches = 1
    LegCount = 1
    Faults <- AllFaults
    MaxCrashes = 1
    MaxAged = 2
SYMMETRY Symmetry
INVARIANTS
    IndexedIsStored
    FailedHoldsNothing
    DeletedIsGone
CHECK_DEADLOCK FALSE
