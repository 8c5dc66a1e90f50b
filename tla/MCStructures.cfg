CONSTANTS
    Periods = {1, 2, 4}
    MaxId = 3
    MaxTime = 5
    Bits = 4
    BucketSize = 2
    Origin = {0, 2}
    Contacts = {{0}, {2}, {0, 2}, {0, 1, 2}, {3}, {1, 3}, {0, 1, 3}, {0, 2, 3}, {0, 1, 2, 3}}
    LinearPeriods = {1, 2, 3}
    MaxSets = 4
    k1 = k1
    k2 = k2
    k3 = k3
    CheckClients = {k1, k2, k3}
    RecordedBy = {k1, k2}
    Script <- MCScript
    NoValue = NoValue
    S = 3
    U32Max = 2
    MaxClocks = 6
    Nodes = {1, 2, 3, 4, 5, 6}
    Initial = 1
    Systems <- MCSystems
    MaxDepth = 3
    Workers = {w1, w2}
    None = None
SPECIFICATION MCSpec
INVARIANTS Inv TableInv FindsNearest NoOvertaking DrySuffices ChecksRight ClocksSound SearchSound
PROPERTIES FiresInOrder NeverShrinks DueFires Terminates
CHECK_DEADLOCK FALSE
