SPECIFICATION Spec
CONSTANTS
    p1 = p1
    i1 = i1
    i2 = i2
    k1 = k1
    k2 = k2
    g1 = g1
    g2 = g2
    g3 = g3
    f1 = f1
    r1 = r1
    r2 = r2
    None = None
    Projects = {p1}
    Items = {i1, i2}
    Rows = {k1, k2}
    RagIds = {g1, g2}
    Files = {f1}
    Requests = {r1, r2}
    MaxAborts = 1
SYMMETRY Symmetry
CHECK_DEADLOCK FALSE
INVARIANTS
    FilesBehindRows
    RagBehindRows
