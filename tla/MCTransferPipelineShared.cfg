CONSTANTS
    t1 = t1
    t2 = t2
    Conns <- TwoConns
    TableOf <- MCTableOf
    TupleOf <- OneTuple
    NoName = "none"
    Clock <- MCClock
    Kinds = {"transfers"}
    TablesReliable = TRUE
    EstatsReliable = TRUE
    MaxOpens = 2
    MaxBytes <- SentOnly
    Counter = "sent"
SPECIFICATION Spec
SYMMETRY ConnsAlike
INVARIANTS AddressesNeverOvercounted OwnCountersUnlessReplaced
