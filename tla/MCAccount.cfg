SPECIFICATION Spec
CONSTANTS
    ann = ann
    p1 = p1
    Logins = {ann}
    Passwords = {pw}
    NoPassword = NoPassword
    Tokens = {t1, t2, t3, t4}
    NoLogin = NoLogin
    Procs = {p1}
    Serves <- OneSlot
    Sids = {s1, s2, s3}
    TTL = 2
    Faults = {"write", "crash"}
SYMMETRY AccountSymmetry
INVARIANTS LiveSessionsListed SessionsHaveTokens
PROPERTY LoggedOutEverywhere
