CONSTANTS
    c1 = c1
    c2 = c2
    Conns <- MCConns
    PidOf <- MCPidOf
    Pids = {1, 2}
    ProcNames = {"a", "b"}
    NoName = "none"
    MaxStarts = 2
SPECIFICATION AttributionSpec
INVARIANT CacheFollowsTracker
PROPERTY OwnersNamed
