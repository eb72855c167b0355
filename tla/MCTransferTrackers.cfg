CONSTANTS
    a1 = a1
    a2 = a2
    b1 = b1
    Keys <- MCKeys
    Pids <- MCPids
    PidOf <- MCPidOf
    Names = {"none", "app", "svc"}
    NoName = "none"
    Times <- MCTimes
    RateUnit = 6
    Snapshots <- MCSnapshots
    MaxTotal = 4
SPECIFICATION TrackersSpec
INVARIANTS TypeOK EachProcessListedOnce ProcessTotalsConserved TrackersAgree
PROPERTIES NameNeverForgotten FirstObservedNeverLater ImplementsSentLedger
