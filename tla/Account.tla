------------------------------- MODULE Account -------------------------------
(***************************************************************************)
(* A whole request of AuthController: the statements of AuthService over   *)
(* PostgreSQL (Auth), then the commands of SessionService over Redis       *)
(* (Sessions), with AUTH_SESSION_ENABLED on.  A request may fail or be     *)
(* lost anywhere between the two stores.  Password changes, which leave    *)
(* the sessions alone, are in Auth only.                                   *)
(***************************************************************************)
EXTENDS Integers, FiniteSets

CONSTANTS Logins, Passwords, NoPassword, Tokens, NoLogin, Procs, Serves, Sids, TTL, Faults

ASSUME AccountAssumption ==
    /\ NoPassword \notin Passwords
    /\ NoLogin \notin Logins \cup Sids
    /\ Serves \in [Procs -> SUBSET Logins]
    /\ TTL \in Nat
    /\ Faults \subseteq {"get", "write", "crash"}

VARIABLES
    password, owner, revoked, op, pc, login, given, wanted, todo, status, seen, known, proof,
    sOwner, left, list, listLeft, call, spc, held, work, sure, owed

A == INSTANCE Auth WITH Faulty <- Faults # {}
S == INSTANCE Sessions WITH
        Users <- Logins, None <- NoLogin, Ops <- {"create", "logout", "list"},
        owner <- sOwner, pc <- spc

aVars == <<password, owner, revoked, op, pc, login, given, wanted, todo, status, seen,
           known, proof>>
sVars == <<sOwner, left, list, listLeft, call, spc, held, work, sure, owed>>
vars == <<aVars, sVars>>

Init == A!Init /\ S!Init

Busy(p) == pc[p] # "idle" \/ spc[p] # "idle"

-----------------------------------------------------------------------------
(* Requests.                                                               *)

Register(p, l, pw) == ~Busy(p) /\ l \in Serves[p] /\ A!Register(p, l, pw) /\ UNCHANGED sVars
Login(p, l, pw) == ~Busy(p) /\ l \in Serves[p] /\ A!Login(p, l, pw) /\ UNCHANGED sVars
Logout(p, l) == ~Busy(p) /\ l \in Serves[p] /\ A!Logout(p, l) /\ UNCHANGED sVars

\* GET /auth/sessions, with the access token of an earlier login.
List(p, l) == ~Busy(p) /\ A!Authenticated(l) /\ S!List(p, l) /\ UNCHANGED aVars

-----------------------------------------------------------------------------
(* Where the service goes on from PostgreSQL to Redis.                     *)

\* Mutant: the session is created although its token could not be saved.
SavedAnyway(p, t, s) ==
    /\ op[p] = "login" /\ pc[p] = "saveToken"
    /\ A!SaveToken(p, t) \/ A!StatementFails(p)
    /\ S!Create(p, login[p], s)

\* login: the token is saved, the session comes next.
Saved(p, t, s) == op[p] = "login" /\ A!SaveToken(p, t) /\ S!Create(p, login[p], s)

\* register opens no session.
Registered(p, t) == op[p] = "register" /\ A!SaveToken(p, t) /\ UNCHANGED sVars

\* Mutant: revoking and deleting go on side by side.
RevokedUnawaited(p) ==
    /\ op[p] = "logout" /\ pc[p] = "revoke" /\ A!End(p, "ok")
    /\ UNCHANGED <<password, owner, revoked, proof, seen, known, login, given, wanted, todo>>
    /\ S!Logout(p, login[p])

\* logout: the tokens are revoked, the sessions come next.
Revoked(p) == op[p] = "logout" /\ A!Revoked(p) /\ S!Logout(p, login[p])

\* The other statements, and the commands.
Statement(p) ==
    /\ \/ A!FindLogin(p) \/ A!Validate(p) \/ A!InsertUser(p) \/ A!LoginTaken(p)
       \/ A!FindTokens(p) \/ A!StatementFails(p)
       \/ \E t \in Tokens : A!RevokeOne(p, t)
    /\ UNCHANGED sVars

Command(p) == S!Advance(p) /\ UNCHANGED aVars

\* Redis fails the request; what PostgreSQL has stored stays.
Throw(p) ==
    /\ S!Throw(p)
    /\ status' = [status EXCEPT ![p] = "500"]
    /\ UNCHANGED <<password, owner, revoked, proof, op, pc, login, given, wanted, todo,
                   seen, known>>

\* link-svc dies, wherever its requests are.
Crash ==
    /\ "crash" \in Faults /\ \E p \in Procs : Busy(p)
    /\ op' = [p \in Procs |-> "none"]
    /\ pc' = [p \in Procs |-> "idle"]
    /\ status' = [p \in Procs |-> IF Busy(p) THEN "lost" ELSE status[p]]
    /\ S!LoseCalls
    /\ UNCHANGED <<password, owner, revoked, proof, login, given, wanted, todo, seen, known>>

Tick == S!Tick /\ UNCHANGED aVars

Next ==
    \/ \E p \in Procs :
          \/ \E l \in Logins :
                Logout(p, l) \/ List(p, l)
                    \/ \E pw \in Passwords : Register(p, l, pw) \/ Login(p, l, pw)
          \/ \E t \in Tokens : Registered(p, t) \/ \E s \in Sids : Saved(p, t, s)
          \/ Revoked(p) \/ Statement(p) \/ Command(p) \/ Throw(p)
    \/ Crash \/ Tick

Spec == Init /\ [][Next]_vars

-----------------------------------------------------------------------------
(* Properties.  Requests of one user do not overlap here.                  *)

\* A logout that is answered has revoked every refresh token of the account and
\* deleted every session its user was told of, in both stores, whatever an earlier
\* logout that failed between or inside the two left behind.
LoggedOutEverywhere ==
    [][\A p \in Procs : S!DelList(p) =>
          /\ \A t \in A!RowsOf(login[p]) : revoked[t]
          /\ \A s \in sure' : sOwner[s] = login[p] => left'[s] = 0]_vars

\* See Sessions: here with whole requests, failed writes and crashes.
LiveSessionsListed == S!LiveSessionsListed

\* No session without a refresh token of its own: one that could not be saved never
\* leaves a session behind, and logins do not share one.
SessionsHaveTokens ==
    \A l \in Logins :
        Cardinality({s \in Sids : sOwner[s] = l}) <= Cardinality(A!RowsOf(l))
=============================================================================
