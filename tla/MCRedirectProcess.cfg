SPECIFICATION PFairSpec
CONSTANTS
    Codes = {c1}
    Urls = {u1, empty}
    EmptyUrl = empty
    NoUrl = NoUrl
    NoCode = NoCode
    Unborn = Unborn
    Gone = Gone
    Reqs = {r1}
    TTL = 2
    GrpcTimeout = 1
    RedisTimeout = 1
INVARIANTS
    ProcessInv
    ClosedWhenQuiet
PROPERTIES
    ShutdownEnds
    EveryRequestEnds
    EventuallyFresh
