SPECIFICATION Spec
CONSTANTS
    Conns <- MCConns
    Handlers = {h1, h2}
    None = None
    SelArgs <- MCSelArgs
    DbMod = 2
    Tries = 2
    MaxRequests <- MCShort
PROPERTIES
    GracefulClose
CHECK_DEADLOCK FALSE
