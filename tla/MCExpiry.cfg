SPECIFICATION Spec
CONSTANTS
    Conns = {c1, c2}
    Dbs = {d1, d2}
    Keys = {k1}
    Timers = {t1, t2, t3}
    NoTTL = NoTTL
    NoCall = NoCall
    ExpireArgs <- MCExpireArgs
    ExArgs <- MCLongExArgs
    PxArgs <- MCPxArgs
    MsPerSec = 2
    UintMod = 4
    MaxLag = 1
    MaxTime = 3
SYMMETRY Symmetry
INVARIANTS
    TypeOK
    TableMatchesTimers
    PositiveTTLMeansArmed
    TTLTellsTimeLeft
    VolatileHasTimer
    VolatileIsVisible
