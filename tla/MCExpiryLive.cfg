SPECIFICATION FairSpec
CONSTANTS
    Conns = {c1, c2}
    Dbs = {d1}
    Keys = {k1}
    Timers = {t1, t2, t3}
    NoTTL = NoTTL
    NoCall = NoCall
    ExpireArgs <- MCExpireArgs
    ExArgs <- MCExArgs
    PxArgs <- MCPxArgs
    MsPerSec = 2
    UintMod = 4
    MaxLag = 2
    MaxTime = 3
PROPERTIES
    VolatileExpires
    LeasesImplemented
