SPECIFICATION Spec
CONSTANTS
    Codes = {c1, c2}
    Urls = {u1, empty}
    EmptyUrl = empty
    NoUrl = NoUrl
    NoCode = NoCode
    Unborn = Unborn
    Gone = Gone
    Reqs = {r1, r2}
    TTL = 1
    GrpcTimeout = 1
    RedisTimeout = 1
PROPERTY ImplementsStaleRead
VIEW BareView
