---------------------------- MODULE AccountProofs ----------------------------
(* Proofs about Account, for any accounts, tokens, sessions, requests and faults. *)
EXTENDS Account, TLAPS, FiniteSetTheorems

AP == INSTANCE AuthProofs WITH Faulty <- Faults # {}
SP == INSTANCE SessionProofs WITH
        Users <- Logins, None <- NoLogin, Ops <- {"create", "logout", "list"},
        owner <- sOwner, pc <- spc

USE AccountAssumption

-----------------------------------------------------------------------------
(* The sessions of the model and those of SessionProofs are the same.             *)

LEMMA SameRequest == ASSUME NEW p \in Procs PROVE S!Request(p) <=> SP!Request(p)
BY DEF S!Request, S!Create, S!Logout, S!List, S!ById, S!Begin, S!Call, S!Go, S!Hold,
       SP!Request, SP!Create, SP!Logout, SP!List, SP!ById, SP!Begin, SP!Call, SP!Go, SP!Hold

LEMMA SameStep == ASSUME NEW p \in Procs PROVE S!Step(p) <=> SP!Step(p)
<1>1. S!Advance(p) <=> SP!Advance(p)
  BY DEF S!Advance, S!StoreNew, S!GetList, S!SetList, S!Touched, S!Rewrite, S!DelOne,
         S!Deleted, S!DelList, S!TouchGet, S!TouchSet, S!DelListed, S!SetSession,
         S!DelSessions, S!PutList, S!Proceed, S!Leave, S!Go, S!Hold, S!Surely, S!Alive,
         S!keys, S!Free, S!Lifetime, S!Forever,
         SP!Advance, SP!StoreNew, SP!GetList, SP!SetList, SP!Touched, SP!Rewrite, SP!DelOne,
         SP!Deleted, SP!DelList, SP!TouchGet, SP!TouchSet, SP!DelListed, SP!SetSession,
         SP!DelSessions, SP!PutList, SP!Proceed, SP!Leave, SP!Go, SP!Hold, SP!Surely,
         SP!Alive, SP!keys, SP!Free, SP!Lifetime, SP!Forever
<1>2. S!Throw(p) <=> SP!Throw(p)
  BY DEF S!Throw, S!Writing, S!DelSessions, S!Leave, S!Go, S!Hold, S!keys, S!Free,
         SP!Throw, SP!Writing, SP!DelSessions, SP!Leave, SP!Go, SP!Hold, SP!keys, SP!Free
<1> QED
  BY <1>1, <1>2 DEF S!Step, SP!Step

LEMMA SameNext == [S!Next]_S!vars <=> [SP!Next]_SP!vars
<1>1. S!Crash <=> SP!Crash
  BY DEF S!Crash, S!LoseCalls, S!Free, S!keys, SP!Crash, SP!LoseCalls, SP!Free, SP!keys
<1>2. S!Tick <=> SP!Tick
  BY DEF S!Tick, S!Alive, S!Less, SP!Tick, SP!Alive, SP!Less
<1> QED
  BY <1>1, <1>2, SameRequest, SameStep DEF S!Next, SP!Next, S!vars, SP!vars

-----------------------------------------------------------------------------
(* Every step of a request moves the sessions by a step of Sessions or not at all. *)

SessionInv == SP!Typed /\ SP!NothingOwed

\* A step of a whole request is a step of the sessions or leaves them alone.
LEMMA SessionMove == AP!TypeOK /\ SessionInv /\ [Next]_vars => [S!Next]_S!vars
<1> SUFFICES ASSUME AP!TypeOK, SessionInv, [Next]_vars PROVE [S!Next]_S!vars
  OBVIOUS
<1> USE DEF S!vars, sVars
<1>0. \A p \in Procs : login[p] \in Logins
  BY DEF AP!TypeOK
<1>1. ASSUME NEW p \in Procs, S!Request(p) \/ S!Step(p) PROVE [S!Next]_S!vars
  BY <1>1 DEF S!Next
<1>2. ASSUME NEW p \in Procs, NEW l \in Logins,
             \/ Logout(p, l) \/ List(p, l)
             \/ \E pw \in Passwords : Register(p, l, pw) \/ Login(p, l, pw)
      PROVE  [S!Next]_S!vars
  BY <1>1, <1>2 DEF Logout, List, Register, Login, S!Request
<1>3. ASSUME NEW p \in Procs, NEW t \in Tokens,
             Registered(p, t) \/ \E s \in Sids : Saved(p, t, s)
      PROVE  [S!Next]_S!vars
  BY <1>0, <1>1, <1>3 DEF Registered, Saved, S!Request
<1>4. ASSUME NEW p \in Procs, Revoked(p) PROVE [S!Next]_S!vars
  BY <1>0, <1>1, <1>4 DEF Revoked, S!Request
<1>5. ASSUME NEW p \in Procs, Statement(p) \/ Command(p) \/ Throw(p) PROVE [S!Next]_S!vars
  BY <1>1, <1>5 DEF Statement, Command, Throw, S!Step
<1>6. CASE Crash
  <2>1. CASE \E p \in Procs : spc[p] # "idle"
    BY <1>6, <2>1 DEF Crash, S!Next, S!Crash
  <2>2. CASE \A p \in Procs : spc[p] = "idle"
    <3>1. /\ call \in [Procs -> [op : {"create", "logout", "list", "none"},
                                 user : Logins \cup {NoLogin}, sid : Sids \cup {NoLogin}]]
          /\ DOMAIN spc = Procs /\ spc = [p \in Procs |-> spc[p]]
          /\ held = [p \in Procs |-> held[p]] /\ work = [p \in Procs |-> work[p]]
          /\ owed = [p \in Procs |-> owed[p]]
      BY DEF SessionInv, SP!Typed, SP!TypeOK
    <3>2. \A p \in Procs : /\ call[p] = S!Free /\ held[p] = {} /\ work[p] = {}
                           /\ owed[p] = {}
      BY <2>2 DEF SessionInv, SP!NothingOwed, SP!Typed, SP!CallInv, SP!Free, S!Free
    <3>3. /\ call = [p \in Procs |-> S!Free] /\ spc = [p \in Procs |-> "idle"]
          /\ held = [p \in Procs |-> {}] /\ work = [p \in Procs |-> {}]
          /\ owed = [p \in Procs |-> {}]
      BY <2>2, <3>1, <3>2
    <3> QED
      BY <1>6, <3>3 DEF Crash, S!LoseCalls, S!keys
  <2> QED
    BY <2>1, <2>2
<1>7. CASE Tick \/ UNCHANGED vars
  BY <1>7 DEF Tick, vars, S!Next
<1> QED
  BY <1>2, <1>3, <1>4, <1>5, <1>6, <1>7 DEF Next

-----------------------------------------------------------------------------
(* The statements of the model and those of AuthProofs are the same, and every step  *)
(* is one of them, or changes of Auth no more than how a request ended.           *)

LEMMA SameStatement ==
    ASSUME NEW p \in Procs
    PROVE  (A!Request(p) <=> AP!Request(p)) /\ (A!Step(p) <=> AP!Step(p))
<1>1. A!Request(p) <=> AP!Request(p)
  BY DEF A!Request, A!Register, A!Login, A!Logout, A!ChangePassword, A!Refresh, A!Begin, A!At,
         A!Go, A!RowsOf, A!Authenticated, A!rows, A!aux,
         AP!Request, AP!Register, AP!Login, AP!Logout, AP!ChangePassword, AP!Refresh, AP!Begin,
         AP!At, AP!Go, AP!RowsOf, AP!Authenticated, AP!rows, AP!aux
<1>2. A!Step(p) <=> AP!Step(p)
  BY DEF A!Step, A!FindLogin, A!Validate, A!Compare, A!InsertUser, A!LoginTaken, A!Update,
         A!FindTokens, A!Revoked, A!StatementFails, A!SaveToken, A!RevokeOne, A!Refuse,
         A!Continue, A!SetPassword, A!Fail, A!End, A!At, A!Go, A!RowsOf, A!rows, A!aux,
         AP!Step, AP!FindLogin, AP!Validate, AP!Compare, AP!InsertUser, AP!LoginTaken,
         AP!Update, AP!FindTokens, AP!Revoked, AP!StatementFails, AP!SaveToken, AP!RevokeOne,
         AP!Refuse, AP!Continue, AP!SetPassword, AP!Fail, AP!End, AP!At, AP!Go, AP!RowsOf,
         AP!rows, AP!aux
<1> QED
  BY <1>1, <1>2

\* A step is one of Auth, fails or loses requests in their second half, or is none of Auth's.
LEMMA StatementMove ==
    ASSUME Next
    PROVE  \/ \E p \in Procs : A!Request(p) \/ A!Step(p)
           \/ \E p \in Procs : Throw(p)
           \/ Crash
           \/ UNCHANGED aVars
<1>1. ASSUME NEW p \in Procs, NEW l \in Logins,
             \/ Logout(p, l) \/ List(p, l)
             \/ \E pw \in Passwords : Register(p, l, pw) \/ Login(p, l, pw)
      PROVE  A!Request(p) \/ UNCHANGED aVars
  BY <1>1 DEF Logout, List, Register, Login, A!Request
<1>2. ASSUME NEW p \in Procs, NEW t \in Tokens,
             Registered(p, t) \/ \E s \in Sids : Saved(p, t, s)
      PROVE  A!Step(p)
  BY <1>2 DEF Registered, Saved, A!Step
<1>3. ASSUME NEW p \in Procs, Revoked(p) \/ Statement(p) PROVE A!Step(p)
  BY <1>3 DEF Revoked, Statement, A!Step
<1>4. ASSUME NEW p \in Procs, Command(p) PROVE UNCHANGED aVars
  BY <1>4 DEF Command
<1>5. Tick => UNCHANGED aVars
  BY DEF Tick
<1> QED
  BY <1>1, <1>2, <1>3, <1>4, <1>5 DEF Next

\* Every step keeps the types of the first half.
LEMMA TypesStep == AP!TypeOK /\ [Next]_vars => AP!TypeOK'
<1> SUFFICES ASSUME AP!TypeOK, [Next]_vars PROVE AP!TypeOK'
  OBVIOUS
<1>1. ASSUME NEW p \in Procs, A!Request(p) \/ A!Step(p) PROVE AP!TypeOK'
  BY <1>1, SameStatement, AP!TypeStep DEF AP!Next
<1>2. ASSUME NEW p \in Procs, Throw(p) PROVE AP!TypeOK'
  BY <1>2 DEF Throw, AP!TypeOK, AP!Stages
<1>3. CASE Crash
  BY <1>3 DEF Crash, AP!TypeOK, AP!Stages
<1>4. CASE UNCHANGED aVars
  BY <1>4 DEF aVars, AP!TypeOK, AP!Stages
<1> QED
  BY <1>1, <1>2, <1>3, <1>4, StatementMove DEF vars

Inv == AP!TypeOK /\ SessionInv

LEMMA InvStart == Init => Inv
<1> SUFFICES ASSUME Init PROVE Inv
  OBVIOUS
<1>1. AP!TypeOK
  BY DEF Init, A!Init, AP!TypeOK, AP!Stages
<1>2. SP!Init
  BY DEF Init, S!Init, S!Free, SP!Init, SP!Free
<1> QED
  BY <1>1, <1>2, SP!TypedStart DEF Inv, SessionInv, SP!NothingOwed, SP!Init

LEMMA InvStep == Inv /\ [Next]_vars => Inv'
<1> SUFFICES ASSUME Inv, [Next]_vars PROVE Inv'
  OBVIOUS
<1>1. [SP!Next]_SP!vars
  BY SessionMove, SameNext DEF Inv
<1>2. SP!Typed' /\ SP!NothingOwed'
  BY <1>1, SP!TypedStep, SP!NothingOwedStep DEF Inv, SessionInv
<1> QED
  BY <1>2, TypesStep DEF Inv, SessionInv

\* Whole requests drive the sessions as Sessions says: a failed or lost request
\* anywhere in PostgreSQL is nothing to Redis, and one in Redis is a throw or a crash.
THEOREM AccountImplementsSessions == Spec => S!Spec
<1>1. Init => S!Init
  BY DEF Init
<1>2. Inv /\ [Next]_vars => [S!Next]_S!vars
  BY SessionMove DEF Inv
<1> QED
  BY <1>1, <1>2, InvStart, InvStep, PTL DEF Spec, S!Spec

-----------------------------------------------------------------------------
OneAtATime == \A p, q \in Procs : p # q => Serves[p] \cap Serves[q] = {}
ReadsWork == "get" \notin Faults

\* A request is in one of its halves, and works on an account that its slot serves.
Halves ==
    \A p \in Procs :
        /\ pc[p] = "idle" \/ spc[p] = "idle"
        /\ pc[p] # "idle" => login[p] \in Serves[p]

\* What a logout has not revoked it still has to, and nothing is left when it goes on
\* to the sessions.
Revoking ==
    \A p \in Procs :
        /\ pc[p] = "revoke" => \A t \in A!RowsOf(login[p]) : revoked[t] \/ t \in todo[p]
        /\ call[p].op = "logout" =>
              /\ login[p] = call[p].user
              /\ \A t \in A!RowsOf(login[p]) : revoked[t]

-----------------------------------------------------------------------------
\* What a step of the sessions does to the calls.
LEMMA CallMoves ==
    ASSUME Inv, NEW q \in Procs, S!Advance(q) \/ S!Throw(q)
    PROVE  /\ spc[q] # "idle"
           /\ \A p \in Procs \ {q} : call'[p] = call[p] /\ spc'[p] = spc[p]
           /\ call'[q] = call[q] \/ call'[q].op = "none"
<1>1. call \in [Procs -> [op : {"create", "logout", "list", "none"},
                          user : Logins \cup {NoLogin}, sid : Sids \cup {NoLogin}]]
      /\ DOMAIN spc = Procs
  BY DEF Inv, SessionInv, SP!Typed, SP!TypeOK
<1>2. S!Leave(q) \/ UNCHANGED call
  BY DEF S!Advance, S!StoreNew, S!GetList, S!SetList, S!Touched, S!Rewrite, S!DelOne, S!Deleted,
         S!DelList, S!TouchGet, S!TouchSet, S!DelListed, S!Throw, S!Proceed
<1>3. \A p \in Procs \ {q} : spc'[p] = spc[p]
  BY <1>1
     DEF S!Advance, S!StoreNew, S!GetList, S!SetList, S!Touched, S!Rewrite, S!DelOne, S!Deleted,
         S!DelList, S!TouchGet, S!TouchSet, S!DelListed, S!Throw, S!Proceed, S!Leave, S!Go
<1>4. spc[q] # "idle"
  BY DEF S!Advance, S!StoreNew, S!GetList, S!SetList, S!Touched, S!Rewrite, S!DelOne, S!Deleted,
         S!DelList, S!TouchGet, S!TouchSet, S!DelListed, S!Throw, S!Writing
<1> QED
  BY <1>1, <1>2, <1>3, <1>4 DEF S!Leave, S!Free

\* What a step that starts a call does to them.
LEMMA CallBegins ==
    ASSUME Inv, NEW q \in Procs, NEW l \in Logins,
           S!List(q, l) \/ S!Logout(q, l) \/ \E s \in Sids : S!Create(q, l, s)
    PROVE  /\ \A p \in Procs \ {q} : call'[p] = call[p] /\ spc'[p] = spc[p]
           /\ call'[q].user = l
           /\ S!List(q, l) => call'[q].op = "list"
           /\ (\E s \in Sids : S!Create(q, l, s)) => call'[q].op = "create"
<1>1. call \in [Procs -> [op : {"create", "logout", "list", "none"},
                          user : Logins \cup {NoLogin}, sid : Sids \cup {NoLogin}]]
      /\ DOMAIN spc = Procs
  BY DEF Inv, SessionInv, SP!Typed, SP!TypeOK
<1> QED
  BY <1>1 DEF S!List, S!Logout, S!Create, S!Begin, S!Call, S!Go

\* A slot without a call in Redis has none.
LEMMA NoCall == ASSUME Inv, NEW p \in Procs, spc[p] = "idle" PROVE call[p].op = "none"
BY DEF Inv, SessionInv, SP!Typed, SP!CallInv, SP!Free

\* Every step keeps a request in one half.
LEMMA HalvesStep == Inv /\ Halves /\ [Next]_vars => Halves'
<1> SUFFICES ASSUME Inv, Halves, [Next]_vars PROVE Halves'
  OBVIOUS
<1> USE DEF A!At, A!Go
<1>0. /\ pc \in [Procs -> AP!Stages] /\ login \in [Procs -> Logins]
  BY DEF Inv, AP!TypeOK
<1>1. ASSUME NEW q \in Procs, NEW l \in Logins,
             \/ Logout(q, l)
             \/ \E pw \in Passwords : Register(q, l, pw) \/ Login(q, l, pw)
      PROVE  Halves'
  <2>1. /\ l \in Serves[q] /\ spc[q] = "idle" /\ UNCHANGED spc
        /\ login' = [login EXCEPT ![q] = l] /\ \A p \in Procs \ {q} : pc'[p] = pc[p]
    BY <1>0, <1>1 DEF Logout, Register, Login, Busy, A!Logout, A!Register, A!Login, A!Begin,
                      sVars
  <2> QED
    BY <1>0, <2>1 DEF Halves
<1>2. ASSUME NEW q \in Procs, NEW l \in Logins, List(q, l) PROVE Halves'
  <2>1. pc[q] = "idle" /\ UNCHANGED <<pc, login>>
    BY <1>2 DEF List, Busy, aVars
  <2> QED
    BY <1>2, <2>1, CallBegins DEF List, Halves
<1>3. ASSUME NEW q \in Procs, NEW t \in Tokens,
             Registered(q, t) \/ \E s \in Sids : Saved(q, t, s)
      PROVE  Halves'
  <2>1. pc'[q] = "idle" /\ UNCHANGED login /\ \A p \in Procs \ {q} : pc'[p] = pc[p]
    BY <1>0, <1>3 DEF Registered, Saved, A!SaveToken, A!End
  <2>2. \A p \in Procs \ {q} : spc'[p] = spc[p]
    BY <1>0, <1>3, CallBegins DEF Registered, Saved, sVars
  <2> QED
    BY <2>1, <2>2 DEF Halves
<1>4. ASSUME NEW q \in Procs, Revoked(q) PROVE Halves'
  <2>1. pc'[q] = "idle" /\ UNCHANGED login /\ \A p \in Procs \ {q} : pc'[p] = pc[p]
    BY <1>0, <1>4 DEF Revoked, A!Revoked, A!End
  <2>2. \A p \in Procs \ {q} : spc'[p] = spc[p]
    BY <1>0, <1>4, CallBegins DEF Revoked
  <2> QED
    BY <2>1, <2>2 DEF Halves
<1>5. ASSUME NEW q \in Procs, Statement(q) PROVE Halves'
  <2>1. /\ pc[q] # "idle" /\ UNCHANGED <<login, spc>>
        /\ \A p \in Procs \ {q} : pc'[p] = pc[p]
    BY <1>0, <1>5
       DEF Statement, sVars, A!FindLogin, A!Validate, A!InsertUser, A!LoginTaken, A!FindTokens,
           A!StatementFails, A!RevokeOne, A!Refuse, A!Continue, A!Fail, A!End
  <2> QED
    BY <2>1 DEF Halves
<1>6. ASSUME NEW q \in Procs, Command(q) \/ Throw(q) PROVE Halves'
  <2>1. UNCHANGED <<pc, login>>
    BY <1>6 DEF Command, Throw, aVars
  <2> QED
    BY <1>6, <2>1, CallMoves DEF Command, Throw, Halves
<1>7. CASE Crash
  BY <1>7 DEF Crash, Halves
<1>8. CASE Tick \/ UNCHANGED vars
  BY <1>8 DEF Tick, S!Tick, vars, aVars, sVars, Halves
<1> QED
  BY <1>1, <1>2, <1>3, <1>4, <1>5, <1>6, <1>7, <1>8 DEF Next

\* Requests of other slots are about other accounts, so no row is added behind a logout.
LEMMA RevokingStep ==
    OneAtATime /\ Inv /\ SP!OrderInv /\ Halves /\ Revoking /\ [Next]_vars => Revoking'
<1> SUFFICES ASSUME OneAtATime, Inv, SP!OrderInv, Halves, Revoking, [Next]_vars
             PROVE  Revoking'
  OBVIOUS
<1> USE DEF A!At, A!Go
<1>0. /\ pc \in [Procs -> AP!Stages] /\ login \in [Procs -> Logins]
      /\ todo \in [Procs -> SUBSET Tokens]
      /\ owner \in [Tokens -> Logins \cup {NoLogin}] /\ revoked \in [Tokens -> BOOLEAN]
  BY DEF Inv, AP!TypeOK
\* Other requests are about other accounts.
<1>1. ASSUME NEW p \in Procs, NEW q \in Procs \ {p}, pc[q] # "idle",
             pc[p] # "idle" \/ call[p].op = "logout"
      PROVE  login[q] # login[p]
  <2>1. login[q] \in Serves[q] /\ (pc[p] # "idle" => login[p] \in Serves[p])
    BY <1>1 DEF Halves
  <2>2. call[p].op = "logout" => login[p] = call[p].user /\ login[p] \in Logins
    BY <1>0 DEF Revoking
  <2>3. call[p].op = "logout" => login[p] \in Serves[p]
    BY <2>2 DEF SP!OrderInv, SP!Tracked
  <2> QED
    BY <1>1, <2>1, <2>3 DEF OneAtATime
<1>2. ASSUME NEW q \in Procs, NEW l \in Logins,
             \/ Logout(q, l)
             \/ \E pw \in Passwords : Register(q, l, pw) \/ Login(q, l, pw)
      PROVE  Revoking'
  <2>1. /\ spc[q] = "idle" /\ UNCHANGED <<call, owner, revoked>>
        /\ pc'[q] \in {"findLogin", "validate", "findTokens"}
        /\ \A p \in Procs \ {q} : pc'[p] = pc[p] /\ login'[p] = login[p] /\ todo'[p] = todo[p]
    BY <1>0, <1>2 DEF Logout, Register, Login, Busy, A!Logout, A!Register, A!Login, A!Begin,
                      A!rows, sVars
  <2>2. call[q].op = "none"
    BY <2>1, NoCall
  <2> QED
    BY <2>1, <2>2 DEF Revoking, A!RowsOf
<1>3. ASSUME NEW q \in Procs, NEW l \in Logins, List(q, l) PROVE Revoking'
  <2>1. UNCHANGED <<pc, login, owner, revoked, todo>>
    BY <1>3 DEF List, aVars
  <2>2. call'[q].op = "list" /\ \A p \in Procs \ {q} : call'[p] = call[p]
    BY <1>3, CallBegins DEF List
  <2> QED
    BY <2>1, <2>2 DEF Revoking, A!RowsOf
<1>4. ASSUME NEW q \in Procs, NEW t \in Tokens,
             Registered(q, t) \/ \E s \in Sids : Saved(q, t, s)
      PROVE  Revoking'
  <2>1. /\ pc[q] = "saveToken" /\ owner' = [owner EXCEPT ![t] = login[q]]
        /\ pc' = [pc EXCEPT ![q] = "idle"] /\ UNCHANGED <<login, revoked, todo>>
    BY <1>4 DEF Registered, Saved, A!SaveToken, A!End
  <2>2. call'[q].op # "logout"
    <3>1. spc[q] = "idle"
      BY <2>1 DEF Halves
    <3> QED
      BY <1>0, <1>4, <3>1, NoCall, CallBegins DEF Registered, Saved, sVars
  <2>3. \A p \in Procs \ {q} : call'[p] = call[p]
    BY <1>0, <1>4, CallBegins DEF Registered, Saved, sVars
  <2>4. ASSUME NEW p \in Procs \ {q}, pc[p] # "idle" \/ call[p].op = "logout"
        PROVE  \A x \in Tokens : owner'[x] = login[p] => owner[x] = login[p]
    <3>1. login[q] # login[p]
      BY <1>1, <2>1, <2>4
    <3> QED
      BY <1>0, <2>1, <3>1
  <2> QED
    BY <1>0, <2>1, <2>2, <2>3, <2>4 DEF Revoking, A!RowsOf
<1>5. ASSUME NEW q \in Procs, Revoked(q) PROVE Revoking'
  <2>1. /\ pc[q] = "revoke" /\ todo[q] = {} /\ pc' = [pc EXCEPT ![q] = "idle"]
        /\ UNCHANGED <<login, revoked, todo, owner>> /\ S!Logout(q, login[q])
    BY <1>5 DEF Revoked, A!Revoked, A!End, A!rows
  <2>2. call'[q].user = login[q] /\ \A p \in Procs \ {q} : call'[p] = call[p]
    BY <1>0, <2>1, CallBegins
  <2> QED
    BY <1>0, <2>1, <2>2 DEF Revoking, A!RowsOf
<1>6. ASSUME NEW q \in Procs, Statement(q) PROVE Revoking'
  <2>1. UNCHANGED <<login, owner, call>> /\ pc[q] # "idle"
    BY <1>6
       DEF Statement, sVars, A!FindLogin, A!Validate, A!InsertUser, A!LoginTaken, A!FindTokens,
           A!StatementFails, A!RevokeOne, A!Refuse, A!Continue, A!Fail, A!End, A!rows
  <2>2. CASE A!FindTokens(q)
    BY <1>0, <2>1, <2>2 DEF A!FindTokens, A!rows, A!RowsOf, Revoking
  <2>3. ASSUME NEW t \in Tokens, A!RevokeOne(q, t) PROVE Revoking'
    BY <1>0, <2>1, <2>3 DEF A!RevokeOne, A!RowsOf, Revoking
  <2>4. CASE \/ A!FindLogin(q) \/ A!Validate(q) \/ A!InsertUser(q) \/ A!LoginTaken(q)
             \/ A!StatementFails(q)
    <3>1. /\ pc'[q] # "revoke" /\ \A p \in Procs \ {q} : pc'[p] = pc[p]
          /\ UNCHANGED <<revoked, todo>>
      BY <1>0, <2>4
         DEF A!FindLogin, A!Validate, A!InsertUser, A!LoginTaken, A!StatementFails, A!Refuse,
             A!Continue, A!Fail, A!End, A!rows
    <3> QED
      BY <2>1, <3>1 DEF Revoking, A!RowsOf
  <2> QED
    BY <1>6, <2>2, <2>3, <2>4 DEF Statement
<1>7. ASSUME NEW q \in Procs, Command(q) \/ Throw(q) PROVE Revoking'
  <2>1. UNCHANGED <<pc, login, owner, revoked, todo>>
    BY <1>7 DEF Command, Throw, aVars
  <2>2. \A p \in Procs : call'[p] = call[p] \/ call'[p].op = "none"
    BY <1>7, CallMoves DEF Command, Throw
  <2> QED
    BY <2>1, <2>2 DEF Revoking, A!RowsOf
<1>8. CASE Crash
  BY <1>8 DEF Crash, S!LoseCalls, S!Free, Revoking
<1>9. CASE Tick \/ UNCHANGED vars
  BY <1>9 DEF Tick, S!Tick, vars, aVars, sVars, Revoking, A!RowsOf
<1> QED
  BY <1>2, <1>3, <1>4, <1>5, <1>6, <1>7, <1>8, <1>9 DEF Next

\* The order of the sessions' commands, as SessionProofs has it.
LEMMA OrderStart == Init => SP!OrderInv
<1>1. Init => SP!Init
  BY DEF Init, S!Init, S!Free, SP!Init, SP!Free
<1> QED
  BY <1>1, SP!OrderStart

LEMMA OrderStep ==
    OneAtATime /\ ReadsWork /\ Inv /\ SP!OrderInv /\ [Next]_vars => SP!OrderInv'
<1> SUFFICES ASSUME OneAtATime, ReadsWork, Inv, SP!OrderInv, [Next]_vars PROVE SP!OrderInv'
  OBVIOUS
<1>1. SP!OneAtATime /\ SP!ReadsWork
  BY DEF OneAtATime, ReadsWork, SP!OneAtATime, SP!ReadsWork
<1>2. [SP!Next]_SP!vars
  BY SessionMove, SameNext DEF Inv
<1> QED
  BY <1>1, <1>2, SP!OrderStep DEF Inv, SessionInv

\* If requests of one user do not overlap and reads do not fail, his list names every live
\* session he was told of and nothing has refreshed, although whole requests fail and are
\* lost in either store.
THEOREM LiveSessionsAreListed ==
    OneAtATime /\ ReadsWork => (Spec => []LiveSessionsListed)
<1> SUFFICES ASSUME OneAtATime, ReadsWork PROVE Spec => []LiveSessionsListed
  OBVIOUS
<1>1. Inv /\ SP!OrderInv /\ [Next]_vars => SP!OrderInv'
  BY OrderStep
<1>2. SP!OrderInv => LiveSessionsListed
  BY DEF SP!OrderInv, SP!Listed, SP!Sure, SP!Alive, LiveSessionsListed, S!LiveSessionsListed,
         S!Alive
<1> QED
  BY <1>1, <1>2, InvStart, InvStep, OrderStart, PTL DEF Spec

\* The last command of a logout deletes what its user was told of.
LEMMA LogoutEnds ==
    ASSUME Inv, SP!OrderInv, Revoking, NEW p \in Procs, S!DelList(p)
    PROVE  /\ \A t \in A!RowsOf(login[p]) : revoked[t]
           /\ \A s \in sure' : sOwner[s] = login[p] => left'[s] = 0
<1>1. SP!DelList(p)
  BY DEF S!DelList, S!PutList, S!Leave, S!Go, S!Hold, S!Free,
         SP!DelList, SP!PutList, SP!Leave, SP!Go, SP!Hold, SP!Free
<1>2. call[p].op = "logout" /\ UNCHANGED sure
  BY <1>1 DEF SP!DelList, SP!OrderInv, SP!Tracked
<1>3. login[p] = call[p].user /\ \A t \in A!RowsOf(login[p]) : revoked[t]
  BY <1>2 DEF Revoking
<1>4. \A s \in sure : sOwner[s] = call[p].user => left'[s] = 0
  BY <1>1, SP!NothingLeft DEF Inv, SessionInv
<1> QED
  BY <1>2, <1>3, <1>4

\* On the same conditions a logout that is answered has finished both stores, whatever
\* earlier ones left: every token of the account is revoked, every session deleted.
THEOREM LogoutIsComplete == OneAtATime /\ ReadsWork => (Spec => LoggedOutEverywhere)
<1> SUFFICES ASSUME OneAtATime, ReadsWork PROVE Spec => LoggedOutEverywhere
  OBVIOUS
<1>1. Init => Halves /\ Revoking
  BY DEF Init, A!Init, S!Init, S!Free, Halves, Revoking
<1>2. Inv /\ SP!OrderInv /\ [Next]_vars => SP!OrderInv'
  BY OrderStep
<1>3. Inv /\ Halves /\ [Next]_vars => Halves'
  BY HalvesStep
<1>4. Inv /\ SP!OrderInv /\ Halves /\ Revoking /\ [Next]_vars => Revoking'
  BY RevokingStep
<1>5. Inv /\ SP!OrderInv /\ Revoking =>
        [\A p \in Procs : S!DelList(p) =>
            /\ \A t \in A!RowsOf(login[p]) : revoked[t]
            /\ \A s \in sure' : sOwner[s] = login[p] => left'[s] = 0]_vars
  BY LogoutEnds
<1> QED
  BY <1>1, <1>2, <1>3, <1>4, <1>5, InvStart, InvStep, OrderStart, PTL
     DEF Spec, LoggedOutEverywhere

-----------------------------------------------------------------------------
SessionsOf(l) == {s \in Sids : sOwner[s] = l}

\* Sessions and tokens are counted together.
Counted ==
    \A l \in Logins :
        /\ IsFiniteSet(SessionsOf(l)) /\ IsFiniteSet(A!RowsOf(l))
        /\ Cardinality(SessionsOf(l)) <= Cardinality(A!RowsOf(l))

\* Only a login whose token is saved adds a session.
LEMMA OwnersMove ==
    ASSUME Inv, [Next]_vars
    PROVE  \/ UNCHANGED <<owner, sOwner>>
           \/ \E l \in Logins, t \in Tokens :
                 /\ owner[t] = NoLogin /\ owner' = [owner EXCEPT ![t] = l]
                 /\ \/ UNCHANGED sOwner
                    \/ \E s \in Sids : sOwner' = [sOwner EXCEPT ![s] = l]
                                        /\ sOwner[s] = NoLogin
<1>1. ASSUME NEW p \in Procs, NEW l \in Logins,
             \/ Logout(p, l) \/ List(p, l)
             \/ \E pw \in Passwords : Register(p, l, pw) \/ Login(p, l, pw)
      PROVE  UNCHANGED <<owner, sOwner>>
  BY <1>1 DEF Logout, List, Register, Login, A!Logout, A!Register, A!Login, A!Begin, A!rows,
              S!List, S!Begin, aVars, sVars
<1>2. ASSUME NEW p \in Procs, NEW t \in Tokens,
             Registered(p, t) \/ \E s \in Sids : Saved(p, t, s)
      PROVE  /\ login[p] \in Logins
             /\ owner[t] = NoLogin /\ owner' = [owner EXCEPT ![t] = login[p]]
             /\ \/ UNCHANGED sOwner
                \/ \E s \in Sids : sOwner' = [sOwner EXCEPT ![s] = login[p]]
                                    /\ sOwner[s] = NoLogin
  <2>1. login[p] \in Logins
    BY DEF Inv, AP!TypeOK
  <2> QED
    BY <1>2, <2>1 DEF Registered, Saved, A!SaveToken, S!Create, sVars
<1>3. ASSUME NEW p \in Procs, Revoked(p) \/ Statement(p) PROVE UNCHANGED <<owner, sOwner>>
  BY <1>3
     DEF Revoked, Statement, sVars, S!Logout, A!FindLogin, A!Validate, A!InsertUser,
         A!LoginTaken, A!FindTokens, A!StatementFails, A!RevokeOne, A!Revoked, A!Refuse,
         A!Continue, A!Fail, A!rows
<1>4. ASSUME NEW p \in Procs, Command(p) \/ Throw(p) PROVE UNCHANGED <<owner, sOwner>>
  BY <1>4
     DEF Command, Throw, aVars, S!Advance, S!StoreNew, S!GetList, S!SetList, S!Touched,
         S!Rewrite, S!DelOne, S!Deleted, S!DelList, S!TouchGet, S!TouchSet, S!DelListed,
         S!Throw, S!SetSession, S!DelSessions, S!PutList, S!keys
<1>5. Crash \/ Tick \/ UNCHANGED vars => UNCHANGED <<owner, sOwner>>
  BY DEF Crash, S!LoseCalls, S!keys, Tick, S!Tick, vars, aVars, sVars
<1> QED
  BY <1>1, <1>2, <1>3, <1>4, <1>5 DEF Next

\* Every step keeps the sessions of an account no more than its tokens.
LEMMA CountedStep == Inv /\ Counted /\ [Next]_vars => Counted'
<1> SUFFICES ASSUME Inv, Counted, [Next]_vars PROVE Counted'
  OBVIOUS
<1>0. /\ owner \in [Tokens -> Logins \cup {NoLogin}]
      /\ sOwner \in [Sids -> Logins \cup {NoLogin}]
  BY DEF Inv, AP!TypeOK, SessionInv, SP!Typed, SP!TypeOK
<1>1. CASE UNCHANGED <<owner, sOwner>>
  BY <1>1 DEF Counted, SessionsOf, A!RowsOf
<1>2. ASSUME NEW l \in Logins, NEW t \in Tokens,
             owner[t] = NoLogin, owner' = [owner EXCEPT ![t] = l],
             \/ UNCHANGED sOwner
             \/ \E s \in Sids : sOwner' = [sOwner EXCEPT ![s] = l] /\ sOwner[s] = NoLogin
      PROVE  Counted'
  <2>1. /\ A!RowsOf(l)' = A!RowsOf(l) \cup {t} /\ t \notin A!RowsOf(l)
        /\ \A m \in Logins \ {l} : A!RowsOf(m)' = A!RowsOf(m)
    BY <1>0, <1>2 DEF A!RowsOf
  <2>2. /\ \A m \in Logins \ {l} : SessionsOf(m)' = SessionsOf(m)
        /\ \/ SessionsOf(l)' = SessionsOf(l)
           \/ \E s \in Sids : SessionsOf(l)' = SessionsOf(l) \cup {s}
    BY <1>0, <1>2 DEF SessionsOf
  <2>3. /\ IsFiniteSet(SessionsOf(l)) /\ IsFiniteSet(A!RowsOf(l))
        /\ Cardinality(SessionsOf(l)) <= Cardinality(A!RowsOf(l))
        /\ Cardinality(SessionsOf(l)) \in Nat /\ Cardinality(A!RowsOf(l)) \in Nat
    BY FS_CardinalityType DEF Counted
  <2>4. /\ IsFiniteSet(A!RowsOf(l)')
        /\ Cardinality(A!RowsOf(l)') = Cardinality(A!RowsOf(l)) + 1
    BY <2>1, <2>3, FS_AddElement
  <2>5. /\ IsFiniteSet(SessionsOf(l)')
        /\ Cardinality(SessionsOf(l)') <= Cardinality(SessionsOf(l)) + 1
    <3>1. CASE SessionsOf(l)' = SessionsOf(l)
      BY <2>3, <3>1
    <3>2. ASSUME NEW s \in Sids, SessionsOf(l)' = SessionsOf(l) \cup {s}
          PROVE  /\ IsFiniteSet(SessionsOf(l)')
                 /\ Cardinality(SessionsOf(l)') <= Cardinality(SessionsOf(l)) + 1
      <4>1. /\ IsFiniteSet(SessionsOf(l) \cup {s})
            /\ \/ Cardinality(SessionsOf(l) \cup {s}) = Cardinality(SessionsOf(l))
               \/ Cardinality(SessionsOf(l) \cup {s}) = Cardinality(SessionsOf(l)) + 1
        BY <2>3, FS_AddElement
      <4> QED
        BY <2>3, <3>2, <4>1
    <3> QED
      BY <2>2, <3>1, <3>2
  <2>6. Cardinality(SessionsOf(l)') <= Cardinality(A!RowsOf(l)')
    <3>1. Cardinality(SessionsOf(l)') \in Nat
      BY <2>5, FS_CardinalityType
    <3> QED
      BY <2>3, <2>4, <2>5, <3>1
  <2> QED
    BY <2>1, <2>2, <2>4, <2>5, <2>6 DEF Counted
<1> QED
  BY <1>1, <1>2, OwnersMove

\* Every session was opened by a login that saved a token of its own, whatever fails.
THEOREM SessionsAreBacked == Spec => []SessionsHaveTokens
<1>1. Init => Counted
  <2> SUFFICES ASSUME Init, NEW l \in Logins
               PROVE  /\ IsFiniteSet(SessionsOf(l)) /\ IsFiniteSet(A!RowsOf(l))
                      /\ Cardinality(SessionsOf(l)) <= Cardinality(A!RowsOf(l))
    BY DEF Counted
  <2>1. SessionsOf(l) = {} /\ A!RowsOf(l) = {}
    BY DEF Init, A!Init, S!Init, SessionsOf, A!RowsOf
  <2>2. Cardinality(SessionsOf(l)) = 0 /\ Cardinality(A!RowsOf(l)) = 0
    BY <2>1, FS_EmptySet
  <2> QED
    BY <2>1, <2>2, FS_EmptySet
<1>2. Counted => SessionsHaveTokens
  BY DEF Counted, SessionsHaveTokens, SessionsOf
<1> QED
  BY <1>1, <1>2, CountedStep, InvStart, InvStep, PTL DEF Spec

-----------------------------------------------------------------------------
(* What holds of either half alone holds of whole requests.                       *)

\* Every step keeps the invariants of AuthProofs.
LEMMA HalfInvStep ==
    AP!TypeOK /\ AP!RevokeInv /\ AP!ProofInv /\ [Next]_vars => AP!RevokeInv' /\ AP!ProofInv'
<1> SUFFICES ASSUME AP!TypeOK, AP!RevokeInv, AP!ProofInv, [Next]_vars
             PROVE  AP!RevokeInv' /\ AP!ProofInv'
  OBVIOUS
<1>1. ASSUME NEW p \in Procs, A!Request(p) \/ A!Step(p) PROVE AP!RevokeInv' /\ AP!ProofInv'
  BY <1>1, SameStatement, AP!RevokeStep, AP!ProofStep DEF AP!Next
<1>2. ASSUME NEW p \in Procs, Throw(p) PROVE AP!RevokeInv' /\ AP!ProofInv'
  BY <1>2 DEF Throw, AP!RevokeInv, AP!ProofInv
<1>3. CASE Crash
  BY <1>3 DEF Crash, AP!RevokeInv, AP!ProofInv
<1>4. CASE UNCHANGED aVars
  BY <1>4 DEF aVars, AP!RevokeInv, AP!ProofInv
<1> QED
  BY <1>1, <1>2, <1>3, <1>4, StatementMove DEF vars

LEMMA HalfInvHolds == Spec => [](AP!TypeOK /\ AP!RevokeInv /\ AP!ProofInv)
<1>1. Init => AP!TypeOK /\ AP!RevokeInv /\ AP!ProofInv
  BY InvStart DEF Inv, Init, A!Init, AP!RevokeInv, AP!ProofInv
<1>2. AP!TypeOK /\ AP!RevokeInv /\ AP!ProofInv /\ [Next]_vars
        => (AP!TypeOK /\ AP!RevokeInv /\ AP!ProofInv)'
  BY TypesStep, HalfInvStep
<1> QED
  BY <1>1, <1>2, PTL DEF Spec

\* A logout goes on to the sessions only when every token it knew of is revoked.
THEOREM RevocationComplete == Spec => A!RevokesKnown
<1>1. AP!TypeOK /\ AP!RevokeInv =>
        [\A p \in Procs : A!Revoked(p) =>
           \A t \in known[p] : owner[t] = login[p] /\ revoked[t]]_A!vars
  BY DEF AP!RevokeInv, AP!TypeOK, A!Revoked, A!At
<1> QED
  BY <1>1, HalfInvHolds, PTL DEF A!RevokesKnown

\* Nothing that fails in Redis lets a request in without a password of the account.
THEOREM PasswordsProve == Spec => A!PasswordProves
<1> DEFINE Proven ==
      /\ \A t \in Tokens : owner[t] = NoLogin /\ owner'[t] # NoLogin =>
            \E p \in Procs : A!SaveToken(p, t) /\ given[p] \in seen[p]
      /\ \A l \in Logins : password[l] # NoPassword /\ password'[l] # password[l] =>
            \E p \in Procs : A!Update(p) /\ login[p] = l /\ given[p] \in seen[p]
<1>1. AP!TypeOK /\ AP!RevokeInv /\ AP!ProofInv /\ [Next]_vars => [Proven]_A!vars
  <2> SUFFICES ASSUME AP!TypeOK, AP!ProofInv, [Next]_vars, ~UNCHANGED A!vars PROVE Proven
    OBVIOUS
  <2>1. ASSUME NEW p \in Procs, A!Request(p) \/ A!Step(p) PROVE Proven
    <3>1. AP!Proven
      BY <2>1, SameStatement, AP!StepProven DEF AP!Next, A!vars, AP!vars
    <3> QED
      BY <3>1
         DEF AP!Proven, AP!SaveToken, AP!Update, AP!SetPassword, AP!End, AP!At, AP!Go, AP!aux,
             A!SaveToken, A!Update, A!SetPassword, A!End, A!At, A!Go, A!aux
  <2>2. CASE UNCHANGED <<owner, password>>
    BY <2>2 DEF AP!TypeOK
  <2> HIDE DEF Proven
  <2>3. ASSUME NEW p \in Procs, Throw(p) PROVE Proven
    BY <2>2, <2>3 DEF Throw
  <2>4. CASE Crash
    BY <2>2, <2>4 DEF Crash
  <2>5. CASE UNCHANGED aVars
    BY <2>2, <2>5 DEF aVars
  <2> QED
    BY <2>1, <2>3, <2>4, <2>5, StatementMove DEF vars
<1> HIDE DEF Proven
<1>2. Spec => [][Proven]_A!vars
  BY <1>1, HalfInvHolds, PTL DEF Spec
<1> QED
  BY <1>2 DEF A!PasswordProves, Proven

\* No request touches the sessions of another user.
THEOREM UsersAreIsolated == Spec => S!UsersIsolated
<1>1. S!Init => SP!Init
  BY DEF S!Init, S!Free, SP!Init, SP!Free
<1>2. S!Spec => SP!Spec
  BY <1>1, SameNext, PTL DEF S!Spec, SP!Spec
<1>3. SP!UsersIsolated => S!UsersIsolated
  BY DEF S!UsersIsolated, SP!UsersIsolated, S!Quiet, SP!Quiet, S!Tick, SP!Tick, S!Alive,
         SP!Alive, S!Less, SP!Less, S!vars, SP!vars
<1> QED
  BY <1>2, <1>3, AccountImplementsSessions, SP!UsersAreIsolated
=============================================================================
