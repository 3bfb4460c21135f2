SPECIFICATION FairSpec
CONSTANTS
    p1 = p1
    p2 = p2
    p3 = p3
    a = a
    b = b
    None = None
    Bad = Bad
    Procs = {p1, p2, p3}
    Dbs = {a, b}
    MaxDbs = 2
    MaxOps = 1
INVARIANTS
    TypeOK
    TableIsGuarded
    OwnDatabase
    NoCircularWait
PROPERTIES
    HandlesStay
    CatalogueImplemented
    OperationsEnd
