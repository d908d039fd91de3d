SPECIFICATION FairSpec
CONSTANTS
    u1 = u1
    u2 = u2
    p1 = p1
    p2 = p2
    Users = {u1, u2}
    Sids = {s1, s2}
    None = None
    Procs = {p1, p2}
    Serves <- SharedSlot
    Ops = {"create", "logout", "list", "get", "update", "destroy"}
    TTL = 1
    Faults = {"get", "write", "crash"}
INVARIANT TypeOK
PROPERTIES UsersIsolated OrphansExpire CallsEnd
