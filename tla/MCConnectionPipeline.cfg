CONSTANTS
    u1 = u1
    u2 = u2
    h1 = h1
    h2 = h2
    Conns <- TwoConns
    Handlers <- TwoHandlers
    TableOf <- TableEach
    TupleOf <- MCTupleOf
    NoName = "none"
    Clock <- MCClock
    Kinds = {"connections"}
    TablesReliable = FALSE
    EstatsReliable = TRUE
    HandlersThrow = TRUE
    MaxOpens = 1
    MaxBytes <- NoBytes
SPECIFICATION LiveSpec
INVARIANTS CompleteUnlessFailed ViewsFollowTracker
PROPERTIES EveryEventIsNews ClosedOnlyIfGoneOrUnread ChangesReachConsumers
