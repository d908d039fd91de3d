SPECIFICATION FairSpec
CONSTANTS
    l1 = l1
    l2 = l2
    Logins = {l1, l2}
    Usernames = {n1}
    NoLogin = NoLogin
    r1 = r1
    r2 = r2
    r3 = r3
    Reqs = {r1, r2, r3}
    Serves <- MCServes
    NoReq = NoReq
    PoolSize = 2
    Envs <- MCEnvs
    Attempts = 2
INVARIANTS ProcessTypeOK PoolInv
PROPERTIES ImplementsAccounts RegistrationsEnd KeepsStarting
