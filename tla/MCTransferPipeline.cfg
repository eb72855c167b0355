CONSTANTS
    t1 = t1
    t2 = t2
    Conns <- OneConn
    TableOf <- MCTableOf
    TupleOf <- OwnTuple
    NoName = "none"
    Clock <- MCClock
    Kinds = {"transfers"}
    TablesReliable = FALSE
    EstatsReliable = TRUE
    MaxOpens = 2
    MaxBytes <- BothWays
    Counter = "sent"
SPECIFICATION LiveSpec
INVARIANTS TypeOK NoPhantomRows NeverOvercounts
PROPERTIES TrackedMeansSeen GoneEventuallyClosed EventuallyCaughtUp
