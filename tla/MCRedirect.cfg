SPECIFICATION Spec
CONSTANTS
    Codes = {c1}
    Urls = {u1, u2, empty}
    EmptyUrl = empty
    NoUrl = NoUrl
    NoCode = NoCode
    Unborn = Unborn
    Gone = Gone
    Reqs = {r1, r2}
    TTL = 2
    GrpcTimeout = 1
    RedisTimeout = 1
SYMMETRY ReqSymmetry
INVARIANTS
    TypeOK
    BoundedStaleness
    StalenessInv
    FailuresAreExcused
    EmptyIsNeverStale
