SPECIFICATION Spec
CONSTANTS
    Logins = {ann}
    Passwords = {pw1, pw2}
    NoPassword = NoPassword
    Tokens = {t1, t2}
    NoLogin = NoLogin
    Procs = {p1, p2}
    Faulty = TRUE
SYMMETRY AuthSymmetry
INVARIANTS
    RevokeInv
    ProofInv
PROPERTIES
    RevokesKnown
    PasswordProves
