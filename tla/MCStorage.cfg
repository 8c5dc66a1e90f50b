CONSTANTS
    u = u
    a = a
    b = b
    v = v
    x = x
    Peers = {u, a, b, v}
    Chunks = {x}
    ChunkK = 1
    MaxExtra = 1
    ChunkN = 2
    Closest <- MCClosest
    Draws <- MCDraws
    Putters <- MCPutters
    Getters <- MCGetters
    MaxTimeout = 1
    None = None
    Offers = {1, 2}
    Tokens = {1}
    Tasks <- MCTasks
    YcsbLoops = {1, 2, 3}
    RecordCount = 2
    Latest = TRUE
    MaxInserts = 3
    Nil = Nil
    Sharers = {1, 2, 3}
    Count = 4
SPECIFICATION MCSpec
INVARIANTS DataSafe InsertsRight CountShared
PROPERTIES ImplementsChunkStore EntropyEnds BulkSettles
CHECK_DEADLOCK FALSE
