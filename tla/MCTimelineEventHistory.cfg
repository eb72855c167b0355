CONSTANTS
    Sources <- MCSources
    NoName = "none"
    NoText = "empty"
    ElevatedUploadBytes = 2
    OneMiB = 1
    UploadDominantRatio = 2
    ManyRemoteEndpoints = 2
    RepeatedUploadEvents = 2
    Limits = {0, 3}
    Ages = {0, 1}
    MaxBatch = 2
    MaxAdds = 4
    MaxClock = 3
SPECIFICATION HistorySpec
INVARIANTS TypeOK KeepsNewest LookupsAgree SummariesRight
PROPERTY DropsOnlyOldest
