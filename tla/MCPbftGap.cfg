CONSTANTS
    p0 = p0
    b1 = b1
    b2 = b2
    b3 = b3
    Replicas = {p0, b1, b2, b3}
    Primary = p0
    F = 1
    Alive = {p0, b1, b2, b3}
    Clients = {c1}
    None = None
    InOrder = FALSE
    Slow = {}
    MaxBatch = 1
    MaxSeq = 2
    MaxDup = 0
    MaxBad = 0
SPECIFICATION StragglerSpec
INVARIANTS PreparedHasPrePrepare
CHECK_DEADLOCK FALSE
