CONSTANTS
    u1 = u1
    u2 = u2
    h1 = h1
    h2 = h2
    Conns <- TwoConns
    Handlers <- OneHandler
    TableOf <- OneTable
    TupleOf <- MCTupleOf
    NoName = "none"
    Clock <- MCClock
    Kinds = {"connections"}
    TablesReliable = TRUE
    EstatsReliable = TRUE
    HandlersThrow = FALSE
    MaxOpens = 1
    MaxBytes <- NoBytes
SPECIFICATION Spec
PROPERTY ClosedOnlyIfGone
