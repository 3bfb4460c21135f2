SPECIFICATION Spec
CONSTANTS
    Conns <- MCConns
    Handlers = {h1, h2}
    None = None
    SelArgs <- MCSelArgs
    DbMod = 2
    Tries = 2
    MaxRequests <- MCLong
INVARIANTS
    TypeOK
    SessionContext
    QueueBelongsToSession
PROPERTIES
    DiscardedNeverRuns
    SessionsArePrivate
SYMMETRY MCSymmetry
CHECK_DEADLOCK FALSE
