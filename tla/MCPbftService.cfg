CONSTANTS
    p0 = p0
    b1 = b1
    b2 = b2
    b3 = b3
    Replicas = {p0, b1, b2, b3}
    Primary = p0
    F = 1
    Alive = {p0, b1, b2}
    Clients = {c1, c2, c3}
    None = None
    InOrder = TRUE
    Slow = {}
    MaxBatch = 2
    MaxSeq = 1
    MaxDup = 0
    MaxBad = 0
SPECIFICATION StragglerSpec
SYMMETRY ClientSymmetry
PROPERTIES ServiceSpec
CHECK_DEADLOCK FALSE
