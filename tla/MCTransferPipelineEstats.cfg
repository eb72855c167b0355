CONSTANTS
    t1 = t1
    t2 = t2
    Conns <- OneConn
    TableOf <- MCTableOf
    TupleOf <- OwnTuple
    NoName = "none"
    Clock <- MCClock
    Kinds = {"transfers"}
    TablesReliable = TRUE
    EstatsReliable = FALSE
    MaxOpens = 2
    MaxBytes <- BothWays
    Counter = "sent"
SPECIFICATION Spec
INVARIANT NeverOvercounts
