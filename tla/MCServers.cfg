CONSTANTS
    s = s
    t = t
    Servers = {s, t}
    NumTotal = 1
    K = 2
    N = 3
    Url <- MCUrl
    MaxMishaps = 1
    MaxTimeouts = 1
    NumReplicas = 2
    Loops = {1, 2, 3}
    NumRounds = 2
    MaxFailures = 1
    NoResult = NoResult
    Nodes = {"a", "b"}
    Messages <- MCMessages
    MaxConns = 2
    MaxFaults = 1
SPECIFICATION MCSpec
INVARIANTS BenchmarkSound RoundsSound DeliveryRight
PROPERTIES BenchmarkEnds RoundsEnd DispatchSettles
CHECK_DEADLOCK FALSE
