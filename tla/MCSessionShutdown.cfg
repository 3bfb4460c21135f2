SPECIFICATION FairSpec
CONSTANTS
    Conns <- MCConns
    Handlers = {h1, h2}
    None = None
    SelArgs <- MCSelArgs
    DbMod = 2
    Tries = 2
    MaxRequests <- MCShort
PROPERTIES
    CloseReturns
CHECK_DEADLOCK FALSE
