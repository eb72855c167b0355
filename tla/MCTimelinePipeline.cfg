CONSTANTS
    c1 = c1
    c2 = c2
    c3 = c3
    a = a
    b = b
    Conns <- ThreeConns
    PidOf <- MCPidOf
    RemoteOf <- MCRemoteOf
    Counters <- MCCounters
    SourceSets <- MCSourceSets
    Pids = {1}
    ProcNames <- TwoNames
    NoName = "none"
    NoText = "empty"
    ElevatedUploadBytes = 2
    OneMiB = 1
    UploadDominantRatio = 2
    ManyRemoteEndpoints = 2
    RepeatedUploadEvents = 2
    MaxStarts = 2
    MaxOpen = 2
    MaxTotal = 2
    MaxEvents = 2
SYMMETRY NamesAlike
SPECIFICATION Spec
INVARIANT SummaryShowsPeaks
PROPERTIES NamesNotStale GrowthRecorded
