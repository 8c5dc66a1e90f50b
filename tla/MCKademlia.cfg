CONSTANTS
    Bits = 3
    BucketSize = 3
    NumConcurrency = 2
    Peers <- MCPeers
    Seeds <- MCSeeds
    Random = {{0}, {2}, {0, 2}}
    Lookups <- MCLookups
    MaxAsked <- MCMaxAsked
    None = None
    NetPeers = {"a", "b"}
    Requests <- MCRequests
    Rank <- MCRank
    CacheSize = 2
    MaxProgress = 1
SPECIFICATION MCSpec
INVARIANTS PeersSound FindsJoined SentOnce LookupsRight
PROPERTIES QueriesEnd
CHECK_DEADLOCK FALSE
