CONSTANTS
    c1 = c1
    c2 = c2
    Clients = {c1, c2}
    Ops = {put}
    NumOps <- MCNumOps
    None = None
SPECIFICATION FairSpec
INVARIANTS ExecutedInOrder ResultsMatch Inv
PROPERTIES AllDone ServiceSpec
CHECK_DEADLOCK FALSE
