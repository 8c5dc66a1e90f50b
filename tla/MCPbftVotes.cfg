CONSTANTS
    p0 = p0
    b1 = b1
    b2 = b2
    b3 = b3
    Replicas = {p0, b1, b2, b3}
    Primary = p0
    F = 1
    Alive = {p0, b1, b2}
    Clients = {c1}
    None = None
    InOrder = FALSE
    Slow = {p0, b1, b2}
    MaxBatch = 1
    MaxSeq = 1
    MaxDup = 1
    MaxBad = 1
SPECIFICATION Spec
SYMMETRY Symmetry
INVARIANTS NoPanic VotesRight RequestsKept
CHECK_DEADLOCK FALSE
