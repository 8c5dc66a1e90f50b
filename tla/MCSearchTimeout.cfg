CONSTANTS
    Nodes = {1, 2, 3, 4, 5, 6}
    Initial = 1
    Systems <- MCLimited
    MaxDepth = 3
    Workers = {w1, w2}
    None = None
SPECIFICATION SearchFairSpec
INVARIANTS TrapsEveryWorker
CHECK_DEADLOCK FALSE
