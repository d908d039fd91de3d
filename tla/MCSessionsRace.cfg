SPECIFICATION Spec
CONSTANTS
    u1 = u1
    u2 = u2
    p1 = p1
    p2 = p2
    Users = {u1}
    Sids = {s1, s2}
    None = None
    Procs = {p1, p2}
    Serves <- SameUser
    Ops = {"create", "logout"}
    TTL = 0
    Faults = {}
PROPERTY LogoutDeletesAll
