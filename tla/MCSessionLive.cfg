SPECIFICATION FairSpec
CONSTANTS
    Conns <- MCConns
    Handlers = {h1, h2}
    None = None
    SelArgs <- MCSelArgs
    DbMod = 2
    Tries = 2
    MaxRequests <- MCBoth
INVARIANTS
    HandlersExclusive
PROPERTIES
    RequestsEnd
CHECK_DEADLOCK FALSE
