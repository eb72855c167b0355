CONSTANTS
    c1 = c1
    c2 = c2
    Keys <- MCKeys
    Names = {"none", "app"}
    NoName = "none"
    Times <- MCTimes
    Counter = "sent"
    Snapshots <- MCSnapshots
    MaxTotal = 3
SPECIFICATION Spec
INVARIANTS TypeOK TotalsFollowCounter
PROPERTY ImplementsLedger
