-------------------------------- MODULE Auth --------------------------------
(***************************************************************************)
(* AuthService of link-svc over PostgreSQL: accounts and refresh-token     *)
(* rows under concurrent register, login, logout, password change and      *)
(* refresh requests.  Every await of a database statement is a step.       *)
(*                                                                         *)
(* An account stands for its login (users.login is unique); hashing and    *)
(* comparing passwords is modelled by equality.  seen, known and proof are *)
(* auxiliary.                                                              *)
(***************************************************************************)
EXTENDS Integers

CONSTANTS
    Logins,     \* login names
    Passwords,
    NoPassword, \* a login without an account
    Tokens,     \* refresh tokens that may be generated (fresh: jti is a uuid)
    NoLogin,    \* owner of a token that has no row
    Procs,      \* requests that link-svc handles at a time
    Faulty      \* may statements fail and the process crash?

ASSUME AuthAssumption ==
    /\ NoPassword \notin Passwords
    /\ NoLogin \notin Logins
    /\ Faulty \in BOOLEAN

VARIABLES
    password,  \* password[l]: what users.password_hash was made from
    owner,     \* owner[t]: the user of the row of t
    revoked,   \* revoked[t]: is_revoked of that row
    op, pc,    \* the operation of slot p and the statement it awaits next
    login,     \* its login
    given,     \* given[p]: the (current) password in the request
    wanted,    \* wanted[p]: the new password in the request
    todo,      \* todo[p]: rows read by revokeAllForUser and not yet saved
    status,    \* status[p]: how its last operation ended
    seen,      \* seen[p]: every password its account has had meanwhile
    known,     \* known[p]: rows its account had when the operation began
    proof      \* proof[t]: the password its login or registration gave

rows == <<password, owner, revoked, proof>>
locals == <<op, pc, login, given, wanted, todo, status>>
aux == <<seen, known>>
vars == <<password, owner, revoked, op, pc, login, given, wanted, todo, status,
          seen, known, proof>>

RowsOf(l) == {t \in Tokens : owner[t] = l}

Init ==
    /\ password = [l \in Logins |-> NoPassword]
    /\ owner = [t \in Tokens |-> NoLogin]
    /\ revoked = [t \in Tokens |-> FALSE]
    /\ op = [p \in Procs |-> "none"]
    /\ pc = [p \in Procs |-> "idle"]
    /\ login \in [Procs -> Logins]
    /\ given = [p \in Procs |-> NoPassword]
    /\ wanted = [p \in Procs |-> NoPassword]
    /\ todo = [p \in Procs |-> {}]
    /\ status = [p \in Procs |-> "none"]
    /\ seen = [p \in Procs |-> {}]
    /\ known = [p \in Procs |-> {}]
    /\ proof = [t \in Tokens |-> NoPassword]

At(p, stage) == pc[p] = stage
Go(p, stage) == pc' = [pc EXCEPT ![p] = stage]

-----------------------------------------------------------------------------
(* Requests.                                                               *)

Begin(p, o, l, stage) ==
    /\ At(p, "idle")
    /\ op' = [op EXCEPT ![p] = o]
    /\ Go(p, stage)
    /\ login' = [login EXCEPT ![p] = l]
    /\ todo' = [todo EXCEPT ![p] = {}]
    /\ status' = [status EXCEPT ![p] = "none"]
    /\ seen' = [seen EXCEPT ![p] = {password[l]}]
    /\ known' = [known EXCEPT ![p] = RowsOf(l)]
    /\ UNCHANGED rows

Register(p, l, pw) ==
    /\ Begin(p, "register", l, "findLogin")
    /\ given' = [given EXCEPT ![p] = pw]
    /\ UNCHANGED wanted

Login(p, l, pw) ==
    /\ Begin(p, "login", l, "validate")
    /\ given' = [given EXCEPT ![p] = pw]
    /\ UNCHANGED wanted

\* JwtAuthGuard wants an access token: a login or a registration of the account has
\* returned one, so there is a row of a refresh token.
Authenticated(l) == RowsOf(l) # {}

Logout(p, l) ==
    /\ Authenticated(l)
    /\ Begin(p, "logout", l, "findTokens")
    /\ UNCHANGED <<given, wanted>>

ChangePassword(p, l, pw, new) ==
    /\ Authenticated(l)
    /\ Begin(p, "change", l, "compare")
    /\ given' = [given EXCEPT ![p] = pw]
    /\ wanted' = [wanted EXCEPT ![p] = new]

-----------------------------------------------------------------------------
(* How an operation ends.                                                  *)

End(p, how) ==
    /\ Go(p, "idle")
    /\ op' = [op EXCEPT ![p] = "none"]
    /\ status' = [status EXCEPT ![p] = how]

Refuse(p) == End(p, "401") /\ UNCHANGED <<rows, aux, login, given, wanted, todo>>
Continue(p, stage) ==
    Go(p, stage) /\ UNCHANGED <<rows, aux, op, login, given, wanted, todo, status>>

\* POST /auth/refresh: RefreshTokenGuard asks for the strategy "jwt-refresh", which no
\* module provides, so it refuses every token before anything looks at it.
Refresh(p) ==
    /\ At(p, "idle")
    /\ status' = [status EXCEPT ![p] = "refused"]
    /\ UNCHANGED <<rows, aux, op, pc, login, given, wanted, todo>>

-----------------------------------------------------------------------------
(* Statements.                                                             *)

\* register: is the login taken?
FindLogin(p) ==
    /\ At(p, "findLogin")
    /\ IF password[login[p]] # NoPassword THEN Refuse(p) ELSE Continue(p, "insertUser")

\* validateUser and changePassword read the row and compare with its hash.
Validate(p) ==
    /\ At(p, "validate")
    /\ IF password[login[p]] = given[p] THEN Continue(p, "saveToken") ELSE Refuse(p)

\* Mutant: the current password is not compared.
CompareNothing(p) == At(p, "compare") /\ Continue(p, "update")

Compare(p) ==
    /\ At(p, "compare")
    /\ IF password[login[p]] = given[p] THEN Continue(p, "update") ELSE Refuse(p)

\* The password of l becomes pw; whoever works on l meanwhile has seen it.
SetPassword(l, pw) ==
    /\ password' = [password EXCEPT ![l] = pw]
    /\ seen' = [q \in Procs |-> IF login[q] = l THEN seen[q] \cup {pw} ELSE seen[q]]

Fail(p) == End(p, "500") /\ UNCHANGED <<rows, aux, login, given, wanted, todo>>

\* Mutant: no UNIQUE on users.login.
InsertAnyway(p) ==
    /\ At(p, "insertUser")
    /\ SetPassword(login[p], given[p])
    /\ Go(p, "saveToken")
    /\ UNCHANGED <<owner, revoked, proof, op, login, given, wanted, todo, status, known>>

\* createWithTransaction: the unique login makes one of two inserts fail, and a
\* failed insert is rolled back.
InsertUser(p) ==
    /\ At(p, "insertUser")
    /\ password[login[p]] = NoPassword
    /\ SetPassword(login[p], given[p])
    /\ Go(p, "saveToken")
    /\ UNCHANGED <<owner, revoked, proof, op, login, given, wanted, todo, status, known>>

LoginTaken(p) ==
    /\ At(p, "insertUser")
    /\ password[login[p]] # NoPassword
    /\ Fail(p)

\* generateTokens and createRefreshToken.
SaveToken(p, t) ==
    /\ At(p, "saveToken")
    /\ owner[t] = NoLogin
    /\ owner' = [owner EXCEPT ![t] = login[p]]
    /\ proof' = [proof EXCEPT ![t] = given[p]]
    /\ End(p, "ok")
    /\ UNCHANGED <<password, revoked, aux, login, given, wanted, todo>>

\* updateUserById
Update(p) ==
    /\ At(p, "update")
    /\ SetPassword(login[p], wanted[p])
    /\ Go(p, "findTokens")
    /\ UNCHANGED <<owner, revoked, proof, op, login, given, wanted, todo, status, known>>

\* Mutant: revokeAllForUser reads one row.
FindOneToken(p) ==
    /\ At(p, "findTokens")
    /\ \E t \in Tokens : todo' = [todo EXCEPT ![p] = RowsOf(login[p]) \cap {t}]
    /\ Go(p, "revoke")
    /\ UNCHANGED <<rows, aux, op, login, given, wanted, status>>

\* revokeAllForUser: read the user's unrevoked rows, then save one at a time.
FindTokens(p) ==
    /\ At(p, "findTokens")
    /\ todo' = [todo EXCEPT ![p] = {t \in RowsOf(login[p]) : ~revoked[t]}]
    /\ Go(p, "revoke")
    /\ UNCHANGED <<rows, aux, op, login, given, wanted, status>>

RevokeOne(p, t) ==
    /\ At(p, "revoke") /\ t \in todo[p]
    /\ revoked' = [revoked EXCEPT ![t] = TRUE]
    /\ todo' = [todo EXCEPT ![p] = @ \ {t}]
    /\ UNCHANGED <<password, owner, proof, aux, op, pc, login, given, wanted, status>>

\* Mutant: the saves are not awaited.
RevokedUnawaited(p) ==
    /\ At(p, "revoke")
    /\ End(p, "ok")
    /\ UNCHANGED <<rows, aux, login, given, wanted, todo>>

Revoked(p) ==
    /\ At(p, "revoke") /\ todo[p] = {}
    /\ End(p, "ok")
    /\ UNCHANGED <<rows, aux, login, given, wanted, todo>>

\* A statement fails: what earlier statements did stays.
StatementFails(p) == Faulty /\ ~At(p, "idle") /\ Fail(p)

\* link-svc dies: every request is lost, PostgreSQL keeps what was committed.
Crash ==
    /\ Faulty
    /\ \E p \in Procs : ~At(p, "idle")
    /\ op' = [p \in Procs |-> "none"]
    /\ status' = [p \in Procs |-> IF At(p, "idle") THEN status[p] ELSE "lost"]
    /\ pc' = [p \in Procs |-> "idle"]
    /\ UNCHANGED <<rows, aux, login, given, wanted, todo>>

Request(p) ==
    \/ \E l \in Logins, pw \in Passwords : Register(p, l, pw) \/ Login(p, l, pw)
    \/ \E l \in Logins : Logout(p, l)
    \/ \E l \in Logins, pw, new \in Passwords : ChangePassword(p, l, pw, new)
    \/ Refresh(p)

Step(p) ==
    \/ FindLogin(p) \/ Validate(p) \/ Compare(p) \/ InsertUser(p) \/ LoginTaken(p)
    \/ Update(p) \/ FindTokens(p) \/ Revoked(p) \/ StatementFails(p)
    \/ \E t \in Tokens : SaveToken(p, t) \/ RevokeOne(p, t)

Next == (\E p \in Procs : Request(p) \/ Step(p)) \/ Crash

Spec == Init /\ [][Next]_vars

-----------------------------------------------------------------------------
(* Properties.                                                             *)

Stages == {"idle", "findLogin", "insertUser", "validate", "saveToken", "compare",
           "update", "findTokens", "revoke"}

\* Type invariant.
TypeOK ==
    /\ password \in [Logins -> Passwords \cup {NoPassword}]
    /\ owner \in [Tokens -> Logins \cup {NoLogin}]
    /\ revoked \in [Tokens -> BOOLEAN]
    /\ op \in [Procs -> {"none", "register", "login", "logout", "change"}]
    /\ pc \in [Procs -> Stages]
    /\ login \in [Procs -> Logins]
    /\ given \in [Procs -> Passwords \cup {NoPassword}]
    /\ wanted \in [Procs -> Passwords \cup {NoPassword}]
    /\ todo \in [Procs -> SUBSET Tokens]
    /\ status \in [Procs -> {"none", "ok", "401", "500", "refused", "lost"}]
    /\ seen \in [Procs -> SUBSET (Passwords \cup {NoPassword})]
    /\ known \in [Procs -> SUBSET Tokens]
    /\ proof \in [Tokens -> Passwords \cup {NoPassword}]

\* A logout or password change that returns has revoked every token whose row was
\* there when it began, whatever other requests insert and revoke between its
\* read of the rows and its saves, and although it saves them one by one.
RevokesKnown ==
    [][\A p \in Procs : Revoked(p) =>
          \A t \in known[p] : owner[t] = login[p] /\ revoked[t]]_vars

\* The inductive form: what was there is revoked or still to be revoked.
RevokeInv ==
    \A p \in Procs :
        /\ pc[p] # "idle" => \A t \in known[p] : owner[t] = login[p]
        /\ pc[p] = "revoke" => \A t \in known[p] : revoked[t] \/ t \in todo[p]

\* An account is entered, taken over or given a new password only by a request
\* that gave a password the account had at some moment of that request; in
\* particular two registrations of one login never both get a token, and once a
\* changed password is stored no request that begins with the old one does.
PasswordProves ==
    [][/\ \A t \in Tokens : owner[t] = NoLogin /\ owner'[t] # NoLogin =>
             \E p \in Procs : SaveToken(p, t) /\ given[p] \in seen[p]
       /\ \A l \in Logins : password[l] # NoPassword /\ password'[l] # password[l] =>
             \E p \in Procs : Update(p) /\ login[p] = l /\ given[p] \in seen[p]]_vars

\* The inductive form: a running request has seen its account's password, and
\* one that is past its check gave a password it has seen.
ProofInv ==
    \A p \in Procs :
        /\ pc[p] # "idle" => password[login[p]] \in seen[p]
        /\ pc[p] \in {"saveToken", "update"} => given[p] \in seen[p]

\* After a successful password change no token obtained with the old password is
\* left (auth.service.ts:178, "revoke all existing tokens of the user").
OldPasswordTokensRevoked ==
    [][\A p \in Procs : op[p] = "change" /\ Revoked(p) =>
          \A t \in RowsOf(login[p]) : proof[t] = given[p] /\ given[p] # password[login[p]]
                                      => revoked[t]]_vars
=============================================================================
