----------------------------- MODULE AuthProofs -----------------------------
(* Proofs about Auth, for any logins, passwords, tokens and requests. *)
EXTENDS Auth, TLAPS

\* Every step keeps the type invariant.
LEMMA TypeStep == TypeOK /\ [Next]_vars => TypeOK'
<1> SUFFICES ASSUME TypeOK, [Next]_vars PROVE TypeOK'
  OBVIOUS
<1> USE DEF TypeOK, Stages, rows, aux, At, Go
<1>1. ASSUME NEW p \in Procs, NEW l \in Logins,
             NEW o \in {"register", "login", "logout", "change"},
             NEW s \in Stages, Begin(p, o, l, s),
             given' \in [Procs -> Passwords \cup {NoPassword}],
             wanted' \in [Procs -> Passwords \cup {NoPassword}]
      PROVE  TypeOK'
  <2>1. op' \in [Procs -> {"none", "register", "login", "logout", "change"}]
    BY <1>1 DEF Begin
  <2>2. pc' \in [Procs -> Stages] /\ login' \in [Procs -> Logins]
    BY <1>1 DEF Begin
  <2>3. /\ todo' \in [Procs -> SUBSET Tokens]
        /\ status' \in [Procs -> {"none", "ok", "401", "500", "refused", "lost"}]
    BY <1>1 DEF Begin
  <2>4. seen' \in [Procs -> SUBSET (Passwords \cup {NoPassword})]
    BY <1>1 DEF Begin
  <2>5. known' \in [Procs -> SUBSET Tokens]
    BY <1>1 DEF Begin, RowsOf
  <2> QED
    BY <1>1, <2>1, <2>2, <2>3, <2>4, <2>5 DEF Begin
<1>2. ASSUME NEW p \in Procs, NEW l \in Logins, NEW pw \in Passwords,
             Register(p, l, pw) \/ Login(p, l, pw)
      PROVE  TypeOK'
  <2>1. /\ given' \in [Procs -> Passwords \cup {NoPassword}]
        /\ wanted' \in [Procs -> Passwords \cup {NoPassword}]
    BY <1>2 DEF Register, Login
  <2>2. CASE Register(p, l, pw)
    BY <1>1, <2>1, <2>2 DEF Register
  <2>3. CASE Login(p, l, pw)
    BY <1>1, <2>1, <2>3 DEF Login
  <2> QED
    BY <1>2, <2>2, <2>3
<1>3. ASSUME NEW p \in Procs, NEW l \in Logins, Logout(p, l) PROVE TypeOK'
  <2>1. /\ given' \in [Procs -> Passwords \cup {NoPassword}]
        /\ wanted' \in [Procs -> Passwords \cup {NoPassword}]
    BY <1>3 DEF Logout
  <2> QED
    BY <1>1, <1>3, <2>1 DEF Logout
<1>4. ASSUME NEW p \in Procs, NEW l \in Logins, NEW pw \in Passwords,
             NEW new \in Passwords, ChangePassword(p, l, pw, new)
      PROVE  TypeOK'
  <2>1. /\ given' \in [Procs -> Passwords \cup {NoPassword}]
        /\ wanted' \in [Procs -> Passwords \cup {NoPassword}]
    BY <1>4 DEF ChangePassword
  <2> QED
    BY <1>1, <1>4, <2>1 DEF ChangePassword
<1>5. ASSUME NEW p \in Procs, Refresh(p) PROVE TypeOK'
  BY <1>5 DEF Refresh
<1>6. ASSUME NEW p \in Procs, FindLogin(p) \/ Validate(p) \/ Compare(p) PROVE TypeOK'
  BY <1>6 DEF FindLogin, Validate, Compare, Refuse, Continue, End
<1>7. ASSUME NEW p \in Procs, InsertUser(p) PROVE TypeOK'
  BY <1>7 DEF InsertUser, SetPassword
<1>8. ASSUME NEW p \in Procs, LoginTaken(p) \/ StatementFails(p) PROVE TypeOK'
  BY <1>8 DEF LoginTaken, StatementFails, Fail, End
<1>9. ASSUME NEW p \in Procs, NEW t \in Tokens, SaveToken(p, t) PROVE TypeOK'
  BY <1>9 DEF SaveToken, End
<1>10. ASSUME NEW p \in Procs, Update(p) PROVE TypeOK'
  BY <1>10 DEF Update, SetPassword
<1>11. ASSUME NEW p \in Procs, FindTokens(p) \/ Revoked(p) PROVE TypeOK'
  BY <1>11 DEF FindTokens, Revoked, End, RowsOf
<1>12. ASSUME NEW p \in Procs, NEW t \in Tokens, RevokeOne(p, t) PROVE TypeOK'
  BY <1>12 DEF RevokeOne
<1>13. CASE Crash
  BY <1>13 DEF Crash
<1>14. CASE UNCHANGED vars
  BY <1>14 DEF vars
<1> QED
  BY <1>2, <1>3, <1>4, <1>5, <1>6, <1>7, <1>8, <1>9, <1>10, <1>11, <1>12, <1>13,
     <1>14
     DEF Next, Request, Step

\* Every variable keeps its type.
THEOREM TypeCorrect == Spec => []TypeOK
<1>1. Init => TypeOK
  BY DEF Init, TypeOK, Stages
<1> QED
  BY <1>1, TypeStep, PTL DEF Spec

-----------------------------------------------------------------------------
\* Every step keeps the loop invariant of revokeAllForUser: nothing known at the
\* start changes hands, and what is not yet revoked is still to be saved.
LEMMA RevokeStep == TypeOK /\ RevokeInv /\ [Next]_vars => RevokeInv'
<1> SUFFICES ASSUME TypeOK, RevokeInv, [Next]_vars PROVE RevokeInv'
  OBVIOUS
<1> USE DEF TypeOK, RevokeInv, rows, aux, At, Go
<1>1. ASSUME NEW p \in Procs, NEW o, NEW l \in Logins, NEW s, s # "revoke",
             Begin(p, o, l, s)
      PROVE  RevokeInv'
  BY <1>1 DEF Begin, RowsOf
<1>2. ASSUME NEW p \in Procs, Request(p) PROVE RevokeInv'
  <2>1. ASSUME Refresh(p) PROVE RevokeInv'
    BY <2>1 DEF Refresh
  <2> QED
    BY <1>1, <1>2, <2>1 DEF Request, Register, Login, Logout, ChangePassword
<1>3. ASSUME NEW p \in Procs, NEW how,
             End(p, how) /\ UNCHANGED <<rows, aux, login, given, wanted, todo>>
      PROVE  RevokeInv'
  BY <1>3 DEF End
<1>4. ASSUME NEW p \in Procs, NEW s, s # "revoke", ~At(p, "idle"), Continue(p, s)
      PROVE  RevokeInv'
  BY <1>4 DEF Continue
<1>5. ASSUME NEW p \in Procs, FindLogin(p) \/ Validate(p) \/ Compare(p)
      PROVE  RevokeInv'
  BY <1>3, <1>4, <1>5 DEF FindLogin, Validate, Compare, Refuse
<1>6. ASSUME NEW p \in Procs, InsertUser(p) \/ Update(p) PROVE RevokeInv'
  BY <1>6 DEF InsertUser, Update, SetPassword
<1>7. ASSUME NEW p \in Procs, LoginTaken(p) \/ StatementFails(p) \/ Revoked(p)
      PROVE  RevokeInv'
  BY <1>3, <1>7 DEF LoginTaken, StatementFails, Revoked, Fail
<1>8. ASSUME NEW p \in Procs, NEW t \in Tokens, SaveToken(p, t) PROVE RevokeInv'
  <2>1. /\ owner' = [owner EXCEPT ![t] = login[p]] /\ owner[t] = NoLogin
        /\ pc' = [pc EXCEPT ![p] = "idle"]
        /\ UNCHANGED <<revoked, login, todo, known>>
    BY <1>8 DEF SaveToken, End
  <2>2. ASSUME NEW q \in Procs, NEW v \in known[q], pc'[q] # "idle"
        PROVE  owner'[v] = login[q]
    <3>1. owner[v] = login[q] /\ v # t
      BY <2>1, <2>2, AuthAssumption
    <3> QED
      BY <2>1, <3>1
  <2>3. ASSUME NEW q \in Procs, NEW v \in known[q], pc'[q] = "revoke"
        PROVE  revoked'[v] \/ v \in todo'[q]
    BY <2>1, <2>3
  <2> QED
    BY <2>1, <2>2, <2>3
<1>9. ASSUME NEW p \in Procs, FindTokens(p) PROVE RevokeInv'
  BY <1>9 DEF FindTokens, RowsOf
<1>10. ASSUME NEW p \in Procs, NEW t \in Tokens, RevokeOne(p, t) PROVE RevokeInv'
  <2>1. /\ revoked' = [revoked EXCEPT ![t] = TRUE]
        /\ todo' = [todo EXCEPT ![p] = todo[p] \ {t}]
        /\ UNCHANGED <<owner, pc, login, known>>
    BY <1>10 DEF RevokeOne
  <2>2. ASSUME NEW q \in Procs, NEW v \in known[q], pc[q] = "revoke"
        PROVE  revoked'[v] \/ v \in todo'[q]
    BY <2>1, <2>2
  <2> QED
    BY <2>1, <2>2
<1>11. CASE Crash
  BY <1>11 DEF Crash
<1>12. CASE UNCHANGED vars
  BY <1>12 DEF vars
<1> QED
  BY <1>2, <1>5, <1>6, <1>7, <1>8, <1>9, <1>10, <1>11, <1>12 DEF Next, Step

\* At every step of a revocation each token it began with is revoked, or still to be
\* revoked: the inductive invariant.
THEOREM RevokeInvariant == Spec => []RevokeInv
<1>1. Init => RevokeInv
  BY DEF Init, RevokeInv
<1> QED
  BY <1>1, RevokeStep, TypeCorrect, PTL DEF Spec

\* A logout or password change that returns has revoked every token whose row was
\* there when it began.
THEOREM RevocationComplete == Spec => RevokesKnown
<1>1. TypeOK /\ RevokeInv /\ [Next]_vars =>
        [\A p \in Procs : Revoked(p) =>
           \A t \in known[p] : owner[t] = login[p] /\ revoked[t]]_vars
  BY DEF RevokeInv, Revoked, At
<1> QED
  BY <1>1, RevokeInvariant, TypeCorrect, PTL DEF Spec, RevokesKnown

-----------------------------------------------------------------------------
\* Every step keeps what running requests have seen and proved.
LEMMA ProofStep == TypeOK /\ ProofInv /\ [Next]_vars => ProofInv'
<1> SUFFICES ASSUME TypeOK, ProofInv, [Next]_vars PROVE ProofInv'
  OBVIOUS
<1> USE DEF TypeOK, ProofInv, rows, aux, At, Go
<1>1. ASSUME NEW p \in Procs, NEW o, NEW l \in Logins, NEW s,
             s \notin {"saveToken", "update"}, Begin(p, o, l, s),
             \A q \in Procs \ {p} : given'[q] = given[q]
      PROVE  ProofInv'
  BY <1>1 DEF Begin
<1>2. ASSUME NEW p \in Procs, Request(p) PROVE ProofInv'
  <2>1. ASSUME Refresh(p) PROVE ProofInv'
    BY <2>1 DEF Refresh
  <2> QED
    BY <1>1, <1>2, <2>1 DEF Request, Register, Login, Logout, ChangePassword
<1>3. ASSUME NEW p \in Procs, NEW how,
             End(p, how) /\ UNCHANGED <<password, aux, login, given>>
      PROVE  ProofInv'
  BY <1>3 DEF End
<1>4. ASSUME NEW p \in Procs, FindLogin(p) \/ Validate(p) \/ Compare(p)
      PROVE  ProofInv'
  BY <1>4 DEF FindLogin, Validate, Compare, Refuse, Continue, End
<1>5. ASSUME NEW p \in Procs, InsertUser(p) PROVE ProofInv'
  BY <1>5 DEF InsertUser, SetPassword
<1>6. ASSUME NEW p \in Procs, Update(p) PROVE ProofInv'
  BY <1>6 DEF Update, SetPassword
<1>7. ASSUME NEW p \in Procs,
             \/ LoginTaken(p) \/ StatementFails(p) \/ Revoked(p)
             \/ \E t \in Tokens : SaveToken(p, t)
      PROVE  ProofInv'
  BY <1>3, <1>7 DEF LoginTaken, StatementFails, Revoked, Fail, SaveToken
<1>8. ASSUME NEW p \in Procs, FindTokens(p) \/ \E t \in Tokens : RevokeOne(p, t)
      PROVE  ProofInv'
  BY <1>8 DEF FindTokens, RevokeOne
<1>9. CASE Crash \/ UNCHANGED vars
  BY <1>9 DEF Crash, vars
<1> QED
  BY <1>2, <1>4, <1>5, <1>6, <1>7, <1>8, <1>9 DEF Next, Step

\* A running request has seen its account's password, and one past its check gave a
\* password it has seen: the inductive invariant.
THEOREM ProofInvariant == Spec => []ProofInv
<1>1. Init => ProofInv
  BY DEF Init, ProofInv
<1> QED
  BY <1>1, ProofStep, TypeCorrect, PTL DEF Spec

\* What PasswordProves says of a step.
Proven ==
    /\ \A t \in Tokens : owner[t] = NoLogin /\ owner'[t] # NoLogin =>
          \E p \in Procs : SaveToken(p, t) /\ given[p] \in seen[p]
    /\ \A l \in Logins : password[l] # NoPassword /\ password'[l] # password[l] =>
          \E p \in Procs : Update(p) /\ login[p] = l /\ given[p] \in seen[p]

\* Every step is proven by a password.
LEMMA StepProven == TypeOK /\ ProofInv /\ [Next]_vars => [Proven]_vars
<1> SUFFICES ASSUME TypeOK, ProofInv, Next PROVE Proven
  OBVIOUS
<1> USE DEF TypeOK, ProofInv, rows, aux, At
<1>1. CASE UNCHANGED <<owner, password>>
  BY <1>1 DEF Proven
<1>2. ASSUME NEW p \in Procs, NEW t \in Tokens, SaveToken(p, t) PROVE Proven
  BY <1>2 DEF SaveToken, Proven
<1>3. ASSUME NEW p \in Procs, InsertUser(p) PROVE Proven
  BY <1>3 DEF InsertUser, SetPassword, Proven
<1>4. ASSUME NEW p \in Procs, Update(p) PROVE Proven
  BY <1>4 DEF Update, SetPassword, Proven
<1>5. ASSUME ~UNCHANGED <<owner, password>>
      PROVE  \E p \in Procs : InsertUser(p) \/ Update(p) \/ \E t \in Tokens : SaveToken(p, t)
  BY <1>5 DEF Next, Request, Step, Register, Login, Logout, ChangePassword, Refresh,
     Begin, FindLogin, Validate, Compare, Refuse, Continue, LoginTaken,
     StatementFails, Fail, FindTokens, RevokeOne, Revoked, Crash
<1> QED
  BY <1>1, <1>2, <1>3, <1>4, <1>5

\* Only a password the account had during the request gets a token or replaces
\* the account's password.
THEOREM PasswordsProve == Spec => PasswordProves
<1> QED
  BY StepProven, ProofInvariant, TypeCorrect, PTL DEF Spec, PasswordProves, Proven

-----------------------------------------------------------------------------
\* No login of the account is between its check of the old password and its token while a
\* password change revokes the tokens it found.
NoLoginBetween ==
    \A p, q \in Procs :
        op[p] = "change" /\ pc[p] = "revoke" /\ pc[q] = "saveToken" /\ login[q] = login[p]
            => given[q] # given[p]

\* A token of the old password is revoked or found.
OldInv ==
    \A p \in Procs : op[p] = "change" /\ pc[p] = "revoke" =>
        \A t \in RowsOf(login[p]) : proof[t] = given[p] => revoked[t] \/ t \in todo[p]

\* While no login is overtaken, every step keeps old tokens revoked or found.
LEMMA OldStep == TypeOK /\ OldInv /\ NoLoginBetween /\ [Next]_vars => OldInv'
<1> SUFFICES ASSUME TypeOK, OldInv, NoLoginBetween, [Next]_vars PROVE OldInv'
  OBVIOUS
<1> USE DEF TypeOK, OldInv, rows, aux, At, Go, RowsOf
<1>1. ASSUME NEW p \in Procs, NEW o, NEW l \in Logins, NEW s, s # "revoke",
             Begin(p, o, l, s), \A q \in Procs \ {p} : given'[q] = given[q]
      PROVE  OldInv'
  BY <1>1 DEF Begin
<1>2. ASSUME NEW p \in Procs, Request(p) PROVE OldInv'
  <2>1. ASSUME Refresh(p) PROVE OldInv'
    BY <2>1 DEF Refresh
  <2> QED
    BY <1>1, <1>2, <2>1 DEF Request, Register, Login, Logout, ChangePassword
<1>3. ASSUME NEW p \in Procs, NEW how,
             End(p, how) /\ UNCHANGED <<rows, aux, login, given, wanted, todo>>
      PROVE  OldInv'
  BY <1>3 DEF End
<1>4. ASSUME NEW p \in Procs, NEW s, s # "revoke", Continue(p, s) PROVE OldInv'
  BY <1>4 DEF Continue
<1>5. ASSUME NEW p \in Procs, FindLogin(p) \/ Validate(p) \/ Compare(p) PROVE OldInv'
  BY <1>3, <1>4, <1>5 DEF FindLogin, Validate, Compare, Refuse
<1>6. ASSUME NEW p \in Procs, InsertUser(p) \/ Update(p) PROVE OldInv'
  BY <1>6 DEF InsertUser, Update, SetPassword
<1>7. ASSUME NEW p \in Procs, LoginTaken(p) \/ StatementFails(p) \/ Revoked(p) PROVE OldInv'
  BY <1>3, <1>7 DEF LoginTaken, StatementFails, Revoked, Fail
<1>8. ASSUME NEW q \in Procs, NEW t \in Tokens, SaveToken(q, t) PROVE OldInv'
  <2>1. /\ pc[q] = "saveToken"
        /\ owner' = [owner EXCEPT ![t] = login[q]]
        /\ proof' = [proof EXCEPT ![t] = given[q]]
        /\ pc' = [pc EXCEPT ![q] = "idle"] /\ op' = [op EXCEPT ![q] = "none"]
        /\ UNCHANGED <<revoked, login, given, todo>>
    BY <1>8 DEF SaveToken, End
  <2>2. ASSUME NEW p \in Procs, op'[p] = "change", pc'[p] = "revoke",
               NEW v \in Tokens, owner'[v] = login[p], proof'[v] = given[p]
        PROVE  revoked[v] \/ v \in todo[p]
    <3>1. p # q /\ op[p] = "change" /\ pc[p] = "revoke"
      BY <2>1, <2>2
    <3>2. v # t
      BY <2>1, <2>2, <3>1 DEF NoLoginBetween
    <3> QED
      BY <2>1, <2>2, <3>1, <3>2
  <2> QED
    BY <2>1, <2>2
<1>9. ASSUME NEW p \in Procs, FindTokens(p) PROVE OldInv'
  BY <1>9 DEF FindTokens
<1>10. ASSUME NEW p \in Procs, NEW t \in Tokens, RevokeOne(p, t) PROVE OldInv'
  BY <1>10 DEF RevokeOne
<1>11. CASE Crash
  BY <1>11 DEF Crash
<1>12. CASE UNCHANGED vars
  BY <1>12 DEF vars
<1> QED
  BY <1>2, <1>5, <1>6, <1>7, <1>8, <1>9, <1>10, <1>11, <1>12 DEF Next, Step

\* OldPasswordTokensRevoked fails in one way only: unless a login is overtaken between its
\* check and its token, a password change leaves no token of the old password
\* (auth.service.ts:178), whatever other requests, failing statements and crashes do.
THEOREM OnlyOvertakenLoginsSurvive == Spec /\ []NoLoginBetween => OldPasswordTokensRevoked
<1>1. Init => OldInv
  BY DEF Init, OldInv
<1>2. TypeOK /\ OldInv /\ [Next]_vars =>
        [\A p \in Procs : op[p] = "change" /\ Revoked(p) =>
           \A t \in RowsOf(login[p]) :
             proof[t] = given[p] /\ given[p] # password[login[p]] => revoked[t]]_vars
  BY DEF OldInv, Revoked, At
<1> QED
  BY <1>1, <1>2, OldStep, TypeCorrect, PTL DEF Spec, OldPasswordTokensRevoked
=============================================================================
