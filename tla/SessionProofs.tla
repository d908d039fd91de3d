----------------------------- MODULE SessionProofs -----------------------------
(* Proofs about Sessions, for any users, requests, lifetimes and faults. *)
EXTENDS Sessions, TLAPS

USE SessionAssumption

\* What a key can have left, before and after a tick, whether or not the setting is falsy.
LEMMA Lives == Lifetime \in Lifetimes /\ 0 \in Lifetimes /\ Lifetime # 0
BY DEF Lifetimes, Lifetime, Forever

LEMMA Expiry ==
    ASSUME NEW n \in Lifetimes
    PROVE  /\ n \in Int /\ Less(n) \in Lifetimes
           /\ n # 0 => n <= Lifetime
           /\ Less(n) # 0 => n # 0
<1>1. CASE TTL = 0
  BY <1>1 DEF Lifetimes, Lifetime, Forever, Less
<1>2. CASE TTL # 0
  BY <1>2 DEF Lifetimes, Lifetime, Less
<1> QED
  BY <1>1, <1>2

\* Time passes only for keys with an expiry, and of two of them the one that has at
\* least as much left keeps it so.
LEMMA Ticking == ASSUME TypeOK, Tick PROVE TTL # 0
<1>1. PICK n \in Lifetimes : n > 0
  BY DEF Tick, TypeOK
<1> QED
  BY <1>1 DEF Lifetimes, Forever

LEMMA TicksTogether ==
    ASSUME TTL # 0, NEW m \in Lifetimes, NEW n \in Lifetimes, m <= n, Less(m) # 0
    PROVE  Less(m) <= Less(n) /\ Less(n) # 0
BY DEF Lifetimes, Less

\* What a call has in its hands is its user's: the ids it read from a list, the
\* sessions it writes back, the session it was called for.
CallInv ==
    /\ \A u \in Users : \A s \in list[u] : owner[s] = u
    /\ \A p \in Procs :
          /\ \A s \in held[p] \cup work[p] : owner[s] = call[p].user
          /\ call[p].sid # None => owner[call[p].sid] = call[p].user
          /\ pc[p] = "idle" <=> call[p].user = None
          /\ pc[p] = "idle" => call[p] = Free /\ held[p] = {} /\ work[p] = {}
          /\ call[p].op \in {"create", "get", "update", "destroy"} <=> call[p].sid # None
          /\ pc[p] \in {"setList", "rewrite"} => call[p].sid # None
          /\ pc[p] = "setSession" => call[p].op = "create"
          /\ pc[p] = "delSession" => call[p].op = "destroy"
          /\ pc[p] = "getList" => call[p].op \in {"create", "logout", "list", "destroy"}

Typed == TypeOK /\ CallInv

LEMMA CallTyped ==
    ASSUME TypeOK, NEW p \in Procs
    PROVE  /\ call[p].user \in Users \cup {None} /\ call[p].sid \in Sids \cup {None}
           /\ call[p].op \in Ops \cup {"none"}
           /\ held[p] \in SUBSET Sids /\ work[p] \in SUBSET Sids
BY DEF TypeOK

\* What Redis holds, and what the calls hold.
StoreTyped ==
    /\ owner \in [Sids -> Users \cup {None}]
    /\ left \in [Sids -> Lifetimes]
    /\ list \in [Users -> SUBSET Sids]
    /\ listLeft \in [Users -> Lifetimes]
CallsTyped ==
    /\ call \in [Procs -> [op : Ops \cup {"none"}, user : Users \cup {None},
                           sid : Sids \cup {None}]]
    /\ pc \in [Procs -> {"idle", "setSession", "getList", "setList", "touch",
                         "rewrite", "delSession", "delSessions", "delList"}]
    /\ held \in [Procs -> SUBSET Sids]
    /\ work \in [Procs -> SUBSET Sids]
    /\ owed \in [Procs -> SUBSET Sids]

LEMMA TypesSplit == TypeOK <=> StoreTyped /\ CallsTyped /\ sure \in SUBSET Sids
BY DEF TypeOK, StoreTyped, CallsTyped

LEMMA TypesJoin == StoreTyped' /\ CallsTyped' /\ sure' \in SUBSET Sids => TypeOK'
BY DEF TypeOK, StoreTyped, CallsTyped

\* A command of Redis, and the return of a call, keep the types.
LEMMA StoreType ==
    ASSUME TypeOK,
           \/ UNCHANGED keys
           \/ \E x \in Sids : SetSession(x)
           \/ \E D \in SUBSET Sids : DelSessions(D)
           \/ \E u \in Users, ids \in SUBSET Sids, ttl \in {0, Lifetime} : PutList(u, ids, ttl)
    PROVE  StoreTyped'
<1>1. CASE UNCHANGED keys
  BY <1>1, TypesSplit DEF StoreTyped, keys
<1>2. CASE \E x \in Sids : SetSession(x)
  BY <1>2, TypesSplit, Lives DEF StoreTyped, SetSession
<1>3. CASE \E D \in SUBSET Sids : DelSessions(D)
  BY <1>3, TypesSplit, Lives DEF StoreTyped, DelSessions
<1>4. CASE \E u \in Users, ids \in SUBSET Sids, ttl \in {0, Lifetime} : PutList(u, ids, ttl)
  BY <1>4, TypesSplit, Lives DEF StoreTyped, PutList
<1> QED
  BY <1>1, <1>2, <1>3, <1>4

LEMMA LeaveType == ASSUME TypeOK, NEW p \in Procs, Leave(p) PROVE CallsTyped'
BY TypesSplit DEF CallsTyped, Leave, Go, Hold, Free

\* A call that starts is its user's.
LEMMA BeginStep ==
    ASSUME Typed, NEW p \in Procs, NEW c \in [op : Ops, user : Users, sid : Sids \cup {None}],
           NEW stage \in {"setSession", "getList", "touch"},
           Begin(p, c, stage), owner' \in [Sids -> Users \cup {None}],
           \A s \in Sids : owner[s] # None => owner'[s] = owner[s],
           held' \in [Procs -> SUBSET Sids], owed' \in [Procs -> SUBSET Sids],
           \A q \in Procs \ {p} : held'[q] = held[q],
           \A s \in held'[p] : owner'[s] = c.user,
           c.sid # None => owner'[c.sid] = c.user,
           c.op \in {"create", "get", "update", "destroy"} <=> c.sid # None,
           stage = "setSession" => c.op = "create",
           stage = "getList" => c.op \in {"logout", "list"}
    PROVE  Typed'
<1>1. /\ pc[p] = "idle" /\ pc' = [pc EXCEPT ![p] = stage]
      /\ call' = [call EXCEPT ![p] = c]
      /\ UNCHANGED <<left, list, listLeft, work, sure>>
  BY DEF Begin, Go
<1>2. c \in [op : Ops \cup {"none"}, user : Users \cup {None}, sid : Sids \cup {None}]
  OBVIOUS
<1>3. TypeOK'
  BY <1>1, <1>2 DEF Typed, TypeOK
<1>4. \A u \in Users : \A s \in list[u] : owner'[s] = u
  BY DEF Typed, TypeOK, CallInv
<1>5. ASSUME NEW q \in Procs, q # p
      PROVE  /\ \A s \in held'[q] \cup work[q] : owner'[s] = call[q].user
             /\ call[q].sid # None => owner'[call[q].sid] = call[q].user
  BY <1>5, CallTyped DEF Typed, TypeOK, CallInv, Free
<1>6. c.user # None /\ stage # "idle" /\ pc'[p] = stage /\ call'[p] = c /\ work[p] = {}
  BY <1>1 DEF Typed, TypeOK, CallInv
<1>7. \A q \in Procs \ {p} : pc'[q] = pc[q] /\ call'[q] = call[q]
  BY <1>1 DEF Typed, TypeOK
<1>8. CallInv'
  BY <1>1, <1>4, <1>5, <1>6, <1>7 DEF Typed, CallInv
<1> QED
  BY <1>3, <1>8 DEF Typed

\* A call that goes on, with ids and sessions of its user.
LEMMA GoesOn ==
    ASSUME Typed, TypeOK', NEW p \in Procs, UNCHANGED <<owner, call>>,
           pc[p] # "idle", pc'[p] # "idle",
           \A u \in Users : \A s \in list'[u] : owner[s] = u,
           \A q \in Procs \ {p} : pc'[q] = pc[q] /\ held'[q] = held[q] /\ work'[q] = work[q],
           \A s \in held'[p] \cup work'[p] : owner[s] = call[p].user,
           pc'[p] \in {"setList", "rewrite"} => call[p].sid # None,
           pc'[p] = "setSession" => call[p].op = "create",
           pc'[p] = "delSession" => call[p].op = "destroy",
           pc'[p] = "getList" => call[p].op \in {"create", "logout", "list", "destroy"}
    PROVE  Typed'
BY DEF Typed, CallInv

\* A call that ends.
LEMMA Leaves ==
    ASSUME Typed, TypeOK', NEW p \in Procs, Leave(p), UNCHANGED owner,
           \A u \in Users : \A s \in list'[u] : owner[s] = u
    PROVE  Typed'
<1>1. pc'[p] = "idle" /\ call'[p] = Free /\ held'[p] = {} /\ work'[p] = {}
  BY DEF Leave, Go, Hold, Typed, TypeOK
<1>2. \A q \in Procs \ {p} : pc'[q] = pc[q] /\ call'[q] = call[q] /\ held'[q] = held[q]
                              /\ work'[q] = work[q]
  BY DEF Leave, Go, Hold, Typed, TypeOK
<1> QED
  BY <1>1, <1>2 DEF Typed, CallInv, Free
-----------------------------------------------------------------------------
\* Requests, one kind at a time.
LEMMA RequestStep == ASSUME Typed, NEW p \in Procs, Request(p) PROVE Typed'
<1>1. ASSUME NEW u \in Users, NEW o \in {"logout", "list"}, Begin(p, Call(o, u, None), "getList"),
             UNCHANGED <<owner, held>>, owed' \in [Procs -> SUBSET Sids]
      PROVE  Typed'
  <2>1. held[p] = {} /\ o \in Ops
    BY <1>1 DEF Begin, Call, Typed, CallInv
  <2>2. Call(o, u, None) \in [op : Ops, user : Users, sid : Sids \cup {None}]
    BY <2>1 DEF Call
  <2>3. Call(o, u, None).sid = None /\ Call(o, u, None).op = o
    BY DEF Call
  <2> QED
    BY <1>1, <2>1, <2>2, <2>3, BeginStep DEF Typed, TypeOK
<1>2. ASSUME NEW u \in Users, Logout(p, u) PROVE Typed'
  <2>1. owed' \in [Procs -> SUBSET Sids]
    BY <1>2 DEF Logout, Typed, TypeOK
  <2> QED
    BY <1>1, <1>2, <2>1 DEF Logout
<1>3. ASSUME NEW u \in Users, List(p, u) PROVE Typed'
  BY <1>1, <1>3 DEF List, Typed, TypeOK
<1>4. ASSUME NEW u \in Users, NEW s \in Sids, Create(p, u, s) PROVE Typed'
  <2>1. held[p] = {} /\ "create" \in Ops
    BY <1>4 DEF Create, Begin, Call, Typed, CallInv
  <2>2. Call("create", u, s) \in [op : Ops, user : Users, sid : Sids \cup {None}]
    BY <2>1 DEF Call
  <2>3. /\ Call("create", u, s).sid = s /\ Call("create", u, s).op = "create"
        /\ Call("create", u, s).user = u
    BY DEF Call
  <2>4. /\ owner' \in [Sids -> Users \cup {None}] /\ owner'[s] = u
        /\ \A x \in Sids : owner[x] # None => owner'[x] = owner[x]
    BY <1>4 DEF Create, Typed, TypeOK
  <2> QED
    BY <1>4, <2>1, <2>2, <2>3, <2>4, TypesSplit, BeginStep DEF Create, Typed, CallsTyped
<1>5. ASSUME NEW u \in Users, NEW s \in Sids, NEW o \in Ops, ById(p, u, s, o) PROVE Typed'
  <2>1. Call(o, u, s) \in [op : Ops, user : Users, sid : Sids \cup {None}]
    BY DEF Call
  <2>2. Call(o, u, s).sid = s /\ Call(o, u, s).op = o /\ Call(o, u, s).user = u
    BY DEF Call
  <2>3. /\ held' \in [Procs -> SUBSET Sids] /\ held'[p] = {s}
        /\ \A q \in Procs \ {p} : held'[q] = held[q]
    BY <1>5 DEF ById, Hold, Typed, TypeOK
  <2> QED
    <3>1. /\ o \in {"get", "update", "destroy"} /\ owner[s] = u /\ s # None
          /\ Begin(p, Call(o, u, s), "touch") /\ UNCHANGED <<owner, owed>>
      BY <1>5 DEF ById
    <3>2. owner' \in [Sids -> Users \cup {None}] /\ owed' \in [Procs -> SUBSET Sids]
      BY <3>1, TypesSplit DEF Typed, CallsTyped, StoreTyped
    <3> QED
      BY <2>1, <2>2, <2>3, <3>1, <3>2, BeginStep
<1> QED
  BY <1>2, <1>3, <1>4, <1>5 DEF Request

\* Commands.
LEMMA AdvanceStep == ASSUME Typed, NEW p \in Procs, Advance(p) PROVE Typed'
<1>1. CASE StoreNew(p) \/ DelOne(p)
  <2>1. call[p].sid \in Sids /\ call[p].op \in {"create", "destroy"}
    BY <1>1, CallTyped DEF StoreNew, DelOne, Typed, CallInv
  <2>2. TypeOK'
    <3>1. StoreTyped'
      BY <1>1, <2>1, StoreType DEF StoreNew, DelOne, Typed
    <3>2. CallsTyped' /\ sure' \in SUBSET Sids
      BY <1>1, TypesSplit DEF StoreNew, DelOne, Proceed, Go, Typed, CallsTyped
    <3> QED
      BY <3>1, <3>2, TypesJoin
  <2>3. pc[p] # "idle" /\ pc' = [pc EXCEPT ![p] = "getList"]
        /\ UNCHANGED <<owner, call, list, held, work>>
    BY <1>1 DEF StoreNew, DelOne, SetSession, DelSessions, Proceed, Go
  <2> QED
    BY <2>1, <2>2, <2>3, GoesOn DEF Typed, TypeOK, CallInv
<1>2. CASE GetList(p)
  <2>1. call[p].user \in Users /\ pc[p] = "getList"
    BY <1>2, CallTyped DEF GetList, Typed, CallInv
  <2>2. held'[p] \subseteq list[call[p].user] /\ held' \in [Procs -> SUBSET Sids]
    BY <1>2, <2>1 DEF GetList, Hold, Typed, TypeOK
  <2>3. /\ pc'[p] \in {"touch", "delSessions", "setList"}
        /\ pc'[p] = "setList" => call[p].op \in {"create", "destroy"}
        /\ pc' \in [Procs -> {"idle", "setSession", "getList", "setList", "touch",
                             "rewrite", "delSession", "delSessions", "delList"}]
        /\ UNCHANGED <<owner, left, list, listLeft, call, work, sure, owed>>
    BY <1>2, <2>1 DEF GetList, Go, Typed, TypeOK, CallInv, keys
  <2>4. \A q \in Procs \ {p} : pc'[q] = pc[q] /\ held'[q] = held[q] /\ work'[q] = work[q]
    BY <1>2 DEF GetList, Go, Hold, Typed, TypeOK
  <2>5. TypeOK'
    BY <2>2, <2>3 DEF Typed, TypeOK
  <2>6. \A s \in held'[p] \cup work'[p] : owner[s] = call[p].user
    BY <2>1, <2>2, <2>3 DEF Typed, CallInv
  <2> QED
    BY <2>1, <2>3, <2>4, <2>5, <2>6, GoesOn DEF Typed, CallInv
<1>3. CASE SetList(p)
  <2> DEFINE ids == IF call[p].op = "create" THEN held[p] \cup {call[p].sid}
                                             ELSE held[p] \ {call[p].sid}
  <2>1. call[p].user \in Users /\ call[p].sid \in Sids
    BY <1>3, CallTyped DEF SetList, Typed, CallInv
  <2>2. ids \in SUBSET Sids /\ \A s \in ids : owner[s] = call[p].user
    BY <2>1, CallTyped DEF Typed, CallInv
  <2>3. PutList(call[p].user, ids, IF ids = {} THEN 0 ELSE Lifetime) /\ Leave(p) /\ Surely(p)
    BY <1>3 DEF SetList
  <2> HIDE DEF ids
  <2>4. TypeOK'
    <3>1. StoreTyped'
      BY <2>1, <2>2, <2>3, StoreType DEF Typed
    <3>2. sure' \in SUBSET Sids
      BY <2>1, <2>3, TypesSplit DEF Surely, Typed
    <3> QED
      BY <2>3, <3>1, <3>2, LeaveType, TypesJoin DEF Typed
  <2>5. \A u \in Users : \A s \in list'[u] : owner[s] = u
    BY <2>1, <2>2, <2>3 DEF PutList, Typed, TypeOK, CallInv
  <2> QED
    BY <2>3, <2>4, <2>5, Leaves DEF PutList
<1>4. CASE Touched(p) \/ Rewrite(p) \/ DelList(p)
  <2>1. call[p].user \in Users /\ (pc[p] = "rewrite" => call[p].sid \in Sids)
    BY <1>4, CallTyped DEF Touched, Rewrite, DelList, Typed, CallInv
  <2>2. TypeOK'
    <3>1. StoreTyped'
      BY <1>4, <2>1, StoreType DEF Touched, Rewrite, DelList, Typed
    <3>2. CallsTyped' /\ sure' \in SUBSET Sids
      BY <1>4, LeaveType, TypesSplit DEF Touched, Rewrite, DelList, Typed
    <3> QED
      BY <3>1, <3>2, TypesJoin
  <2>3. \A u \in Users : \A s \in list'[u] : owner[s] = u
    BY <1>4, <2>1
       DEF Touched, Rewrite, DelList, SetSession, PutList, Typed, TypeOK, CallInv, keys
  <2> QED
    BY <1>4, <2>2, <2>3, Leaves DEF Touched, Rewrite, DelList, SetSession, PutList, keys
<1>5. CASE Deleted(p)
  <2>1. TypeOK'
    BY <1>5 DEF Deleted, Proceed, Go, Typed, TypeOK, keys
  <2> QED
    BY <1>5, <2>1, GoesOn DEF Deleted, Proceed, Go, Typed, TypeOK, CallInv, keys
<1>6. ASSUME NEW s \in Sids, TouchGet(p, s) \/ DelListed(p, s) PROVE Typed'
  <2>1. TypeOK'
    <3>1. StoreTyped'
      BY <1>6, StoreType DEF TouchGet, DelListed, Typed
    <3>2. CallsTyped' /\ sure' \in SUBSET Sids
      BY <1>6, TypesSplit DEF TouchGet, DelListed, Hold, Typed, CallsTyped
    <3> QED
      BY <3>1, <3>2, TypesJoin
  <2>2. /\ held'[p] \cup work'[p] \subseteq held[p] \cup work[p]
        /\ \A q \in Procs \ {p} : held'[q] = held[q] /\ work'[q] = work[q]
        /\ UNCHANGED <<owner, call, pc, list>> /\ pc[p] \in {"touch", "delSessions"}
    BY <1>6 DEF TouchGet, DelListed, DelSessions, Hold, Typed, TypeOK, keys
  <2> QED
    BY <2>1, <2>2, GoesOn DEF Typed, CallInv
<1>7. ASSUME NEW s \in Sids, TouchSet(p, s) PROVE Typed'
  <2>1. TypeOK'
    <3>1. StoreTyped'
      BY <1>7, StoreType DEF TouchSet, Typed
    <3>2. CallsTyped' /\ sure' \in SUBSET Sids
      BY <1>7, TypesSplit DEF TouchSet, Go, Typed, CallsTyped
    <3> QED
      BY <3>1, <3>2, TypesJoin
  <2>2. /\ held' = held /\ work'[p] \subseteq work[p] /\ pc[p] = "touch"
        /\ \A q \in Procs \ {p} : pc'[q] = pc[q] /\ work'[q] = work[q]
        /\ UNCHANGED <<owner, call, list>>
    BY <1>7 DEF TouchSet, SetSession, Go, Typed, TypeOK, keys
  <2>3. \/ pc'[p] = "rewrite" /\ call[p].op = "update"
        \/ pc'[p] = "delSession" /\ call[p].op = "destroy"
        \/ pc'[p] = "touch"
    BY <1>7 DEF TouchSet, Go, Typed, TypeOK
  <2> QED
    BY <2>1, <2>2, <2>3, GoesOn DEF Typed, CallInv
<1> QED
  BY <1>1, <1>2, <1>3, <1>4, <1>5, <1>6, <1>7 DEF Advance
-----------------------------------------------------------------------------
\* A call that fails keeps the types.
LEMMA ThrowStep == ASSUME Typed, NEW p \in Procs, Throw(p) PROVE Typed'
<1>1. Leave(p) /\ UNCHANGED <<owner, list, sure>>
  BY DEF Throw, DelSessions, keys
<1>2. StoreTyped'
  <2>1. UNCHANGED keys \/ \E D \in SUBSET held[p] : DelSessions(D)
    BY DEF Throw
  <2>2. UNCHANGED keys \/ \E D \in SUBSET Sids : DelSessions(D)
    BY <2>1, CallTyped DEF Typed
  <2> QED
    BY <2>2, StoreType DEF Typed
<1>3. TypeOK'
  BY <1>1, <1>2, LeaveType, TypesSplit, TypesJoin DEF Typed
<1> QED
  BY <1>1, <1>3, Leaves DEF Typed, CallInv

\* Every step keeps the types.
LEMMA TypedStep == Typed /\ [Next]_vars => Typed'
<1> SUFFICES ASSUME Typed, [Next]_vars PROVE Typed'
  OBVIOUS
<1>1. ASSUME NEW p \in Procs, Request(p) \/ Step(p) PROVE Typed'
  BY <1>1, RequestStep, AdvanceStep, ThrowStep DEF Step
<1>2. CASE Crash
  <2>1. /\ UNCHANGED <<owner, left, list, listLeft, sure>>
        /\ \A p \in Procs : /\ pc'[p] = "idle" /\ call'[p] = Free
                             /\ held'[p] = {} /\ work'[p] = {}
    BY <1>2 DEF Crash, LoseCalls, keys
  <2>2. TypeOK'
    BY <1>2 DEF Crash, LoseCalls, Typed, TypeOK, Free, keys
  <2> QED
    BY <2>1, <2>2 DEF Typed, CallInv, Free
<1>3. CASE Tick
  <2>1. /\ \A s \in Sids : left'[s] \in Lifetimes
        /\ \A u \in Users : list'[u] \subseteq list[u] /\ listLeft'[u] \in Lifetimes
    <3>1. left \in [Sids -> Lifetimes] /\ listLeft \in [Users -> Lifetimes]
      BY DEF Typed, TypeOK
    <3>2. /\ \A s \in Sids : left'[s] = Less(left[s])
          /\ \A u \in Users : list'[u] \subseteq list[u] /\ listLeft'[u] = Less(listLeft[u])
      BY <1>3 DEF Tick
    <3> QED
      BY <3>1, <3>2, Expiry
  <2>2. TypeOK'
    BY <1>3, <2>1 DEF Tick, Typed, TypeOK
  <2> QED
    BY <1>3, <2>1, <2>2 DEF Tick, Typed, CallInv
<1>4. CASE UNCHANGED vars
  BY <1>4 DEF vars, Typed, TypeOK, CallInv
<1> QED
  BY <1>1, <1>2, <1>3, <1>4 DEF Next

LEMMA TypedStart == Init => Typed
BY Lives DEF Init, Typed, TypeOK, CallInv, Free

\* Types of the keys and of the calls: in particular no key outlives the setting, and
\* under a falsy setting every key is stored without an expiry.
THEOREM TypeCorrect == Spec => []TypeOK
<1>1. Typed => TypeOK
  BY DEF Typed
<1> QED
  BY <1>1, TypedStart, TypedStep, PTL DEF Spec

\* A call touches only the list of its user and sessions of its user.
LEMMA AdvanceIsolated ==
    ASSUME Typed, NEW p \in Procs, Step(p)
    PROVE  /\ \A u \in Users \ {call[p].user} : list'[u] = list[u] /\ listLeft'[u] = listLeft[u]
           /\ \A s \in Sids : owner[s] # call[p].user => left'[s] = left[s]
<1>1. CASE StoreNew(p) \/ Rewrite(p) \/ DelOne(p)
  <2>1. call[p].sid \in Sids /\ owner[call[p].sid] = call[p].user
    BY <1>1, CallTyped DEF StoreNew, Rewrite, DelOne, Typed, CallInv
  <2> QED
    BY <1>1, <2>1
       DEF StoreNew, Rewrite, DelOne, SetSession, DelSessions, Typed, TypeOK
<1>2. CASE GetList(p) \/ Touched(p) \/ Deleted(p)
  BY <1>2 DEF GetList, Touched, Deleted, keys
<1>3. CASE SetList(p) \/ DelList(p)
  BY <1>3 DEF SetList, DelList, PutList, Typed, TypeOK
<1>4. ASSUME NEW s \in Sids, TouchGet(p, s) \/ TouchSet(p, s) \/ DelListed(p, s)
      PROVE  /\ UNCHANGED <<list, listLeft>>
             /\ \A x \in Sids : owner[x] # call[p].user => left'[x] = left[x]
  <2>1. s \in held[p] \cup work[p] \/ UNCHANGED keys
    BY <1>4 DEF TouchGet, TouchSet, DelListed
  <2>2. owner[s] = call[p].user \/ UNCHANGED keys
    BY <2>1 DEF Typed, CallInv
  <2> QED
    BY <1>4, <2>2
       DEF TouchGet, TouchSet, DelListed, SetSession, DelSessions, keys, Typed, TypeOK
<1>5. CASE Throw(p)
  <2>1. UNCHANGED keys \/ \E D \in SUBSET held[p] : DelSessions(D)
    BY <1>5 DEF Throw
  <2>2. \A s \in held[p] : owner[s] = call[p].user
    BY DEF Typed, CallInv
  <2> QED
    BY <2>1, <2>2 DEF keys, DelSessions, Typed, TypeOK
<1> QED
  BY <1>1, <1>2, <1>3, <1>4, <1>5 DEF Step, Advance

\* Users never touch each other's sessions, although every request works on ids it
\* read earlier from a store that all share.
THEOREM UsersAreIsolated == Spec => UsersIsolated
<1>1. Typed /\ [Next]_vars =>
        [~Tick => \A u \in Users : Quiet(u) =>
            /\ list'[u] = list[u]
            /\ \A s \in Sids : owner[s] = u => left'[s] = left[s]]_vars
  <2> SUFFICES ASSUME Typed, Next, ~Tick, NEW u \in Users, Quiet(u)
               PROVE  /\ list'[u] = list[u]
                      /\ \A s \in Sids : owner[s] = u => left'[s] = left[s]
    OBVIOUS
  <2>1. ASSUME NEW p \in Procs, Request(p) PROVE UNCHANGED <<left, list>>
    BY <2>1 DEF Request, Logout, List, Create, ById, Begin
  <2>2. CASE Crash
    BY <2>2 DEF Crash, LoseCalls, keys
  <2>3. ASSUME NEW p \in Procs, Step(p)
        PROVE  list'[u] = list[u] /\ \A s \in Sids : owner[s] = u => left'[s] = left[s]
    BY <2>3, AdvanceIsolated DEF Quiet
  <2> QED
    BY <2>1, <2>2, <2>3 DEF Next
<1> QED
  BY <1>1, TypedStart, TypedStep, PTL DEF Spec, UsersIsolated
-----------------------------------------------------------------------------
(* Requests of one user that do not overlap, and reads of Redis that do not fail: *)
(* what getUserSessions and destroyUserSessions need to find every session.       *)

OneAtATime == \A p, q \in Procs : p # q => Serves[p] \cap Serves[q] = {}
ReadsWork == "get" \notin Faults

Sure(u) == {s \in sure : owner[s] = u /\ Alive(s)}

\* The list names what the user was told of, and outlives it.
Listed(u) == \A s \in Sure(u) : s \in list[u] /\ left[s] <= listLeft[u]

\* So does what a call has read, until the call writes or deletes it; a logout keeps
\* what it owes.
Tracked(p) ==
    /\ call[p].user # None => call[p].user \in Serves[p]
    /\ pc[p] \in {"setSession", "getList", "setList", "rewrite", "delSession"}
           => call[p].sid \notin sure
    /\ pc[p] \in {"setList", "delSessions"} => Sure(call[p].user) \subseteq held[p]
    /\ pc[p] = "delList" => Sure(call[p].user) = {}
    /\ pc[p] \in {"delSessions", "delList"} => call[p].op = "logout"
    /\ pc[p] = "touch" => call[p].op # "logout"
    /\ pc[p] = "touch" /\ call[p].op # "list" => held[p] \cup work[p] \subseteq {call[p].sid}
    /\ call[p].op = "logout" => \A s \in owed[p] : s \in sure /\ owner[s] = call[p].user

OrderInv ==
    /\ \A s \in sure : owner[s] # None
    /\ \A u \in Users : Listed(u)
    /\ \A p \in Procs : Tracked(p)

\* A step of one slot touches one user, the one it serves.
LEMMA OneUser ==
    ASSUME Typed, TypeOK', OrderInv, OneAtATime, NEW p \in Procs, NEW u \in Serves[p],
           \A s \in sure' : owner'[s] # None,
           \A s \in Sids : owner'[s] # u =>
               owner'[s] = owner[s] /\ left'[s] = left[s] /\ (s \in sure' <=> s \in sure),
           \A s \in Sids : owner[s] # None => owner'[s] = owner[s],
           \A v \in Users \ {u} : list'[v] = list[v] /\ listLeft'[v] = listLeft[v],
           \A q \in Procs \ {p} : /\ pc'[q] = pc[q] /\ call'[q] = call[q]
                                  /\ held'[q] = held[q] /\ owed'[q] = owed[q]
                                  /\ work'[q] = work[q],
           Listed(u)', Tracked(p)'
    PROVE  OrderInv'
<1>1. \A v \in Users \ {u} : Sure(v)' = Sure(v)
  <2> SUFFICES ASSUME NEW v \in Users \ {u}, NEW s PROVE s \in Sure(v)' <=> s \in Sure(v)
    OBVIOUS
  <2>1. sure \subseteq Sids /\ sure' \subseteq Sids /\ v # None
    BY DEF Typed, TypeOK
  <2>2. s \in Sids => (owner'[s] = v <=> owner[s] = v)
    <3>1. owner'[s] = v /\ s \in Sids => owner[s] = v
      OBVIOUS
    <3> QED
      BY <2>1, <3>1
  <2> QED
    BY <2>1, <2>2 DEF Sure, Alive
<1>2. \A v \in Users : Listed(v)'
  <2> SUFFICES ASSUME NEW v \in Users \ {u} PROVE Listed(v)'
    OBVIOUS
  <2>1. Listed(v) /\ Sure(v)' = Sure(v)
    BY <1>1 DEF OrderInv
  <2>2. \A s \in Sure(v)' : left'[s] = left[s]
    BY DEF Sure, Typed, TypeOK
  <2> QED
    BY <2>1, <2>2 DEF Listed
<1>3. \A q \in Procs : Tracked(q)'
  <2> SUFFICES ASSUME NEW q \in Procs \ {p} PROVE Tracked(q)'
    OBVIOUS
  <2>1. Tracked(q) /\ call[q].user # u
    <3>1. Tracked(q) /\ Serves[p] \cap Serves[q] = {} /\ Serves[p] \subseteq Users
      BY DEF OrderInv, OneAtATime
    <3> QED
      BY <3>1 DEF Tracked
  <2>2. call[q].user \in Users \cup {None} /\ call[q].sid \in Sids \cup {None}
    BY CallTyped DEF Typed
  <2>3. call[q].user # None => Sure(call[q].user)' = Sure(call[q].user)
    BY <1>1, <2>1, <2>2
  <2>4. pc[q] # "idle" <=> call[q].user # None
    BY DEF Typed, CallInv
  <2>5. call[q].sid \in sure' => call[q].sid \in sure
    <3>1. call[q].sid # None => owner[call[q].sid] = call[q].user
      BY DEF Typed, CallInv
    <3>2. sure' \subseteq Sids
      BY DEF TypeOK
    <3>3. CASE call[q].sid # None /\ call[q].user # None
      <4>1. owner'[call[q].sid] # u
        BY <2>1, <2>2, <3>1, <3>3
      <4> QED
        BY <2>2, <3>3, <4>1
    <3>4. CASE call[q].user = None
      BY <2>4, <3>2, <3>4 DEF Typed, CallInv, Free
    <3> QED
      BY <3>2, <3>3, <3>4
  <2>6. \A s \in owed[q] : call[q].op = "logout" => s \in sure' /\ owner'[s] = call[q].user
    <3> SUFFICES ASSUME NEW s \in owed[q], call[q].op = "logout"
                 PROVE  s \in sure' /\ owner'[s] = call[q].user
      OBVIOUS
    <3>1. s \in sure /\ owner[s] = call[q].user /\ owner[s] # None /\ s \in Sids
      BY <2>1 DEF Tracked, OrderInv, Typed, TypeOK
    <3>2. owner'[s] = owner[s] /\ owner'[s] # u
      BY <2>1, <3>1
    <3> QED
      BY <3>1, <3>2
  <2>7. /\ pc'[q] = pc[q] /\ call'[q] = call[q] /\ held'[q] = held[q] /\ owed'[q] = owed[q]
        /\ work'[q] = work[q]
    OBVIOUS
  <2>8. pc[q] \in {"setList", "delSessions", "delList"}
           => Sure(call[q].user)' = Sure(call[q].user)
    BY <2>3, <2>4
  <2>9. pc[q] \in {"setList", "delSessions"} => Sure(call[q].user)' \subseteq held'[q]
    BY <2>1, <2>7, <2>8 DEF Tracked
  <2>10. pc[q] = "delList" => Sure(call[q].user)' = {}
    BY <2>1, <2>7, <2>8 DEF Tracked
  <2> QED
    BY <2>1, <2>5, <2>6, <2>7, <2>9, <2>10 DEF Tracked
<1> QED
  BY <1>2, <1>3 DEF OrderInv

\* A call that begins keeps the order.
LEMMA RequestOrder ==
    ASSUME Typed, TypeOK', OrderInv, OneAtATime, NEW p \in Procs, Request(p)
    PROVE  OrderInv'
<1>1. PICK u \in Users : \/ Logout(p, u) \/ List(p, u)
                         \/ \E s \in Sids : Create(p, u, s) \/ \E o \in Ops : ById(p, u, s, o)
  BY DEF Request
<1>2. ASSUME NEW c, NEW stage, c.user = u, Begin(p, c, stage)
      PROVE  /\ u \in Serves[p] /\ UNCHANGED <<left, list, listLeft, work, sure>>
             /\ call'[p].user = u
             /\ \A q \in Procs \ {p} : pc'[q] = pc[q] /\ call'[q] = call[q]
  BY <1>2 DEF Begin, Go, Typed, TypeOK
<1>3. /\ u \in Serves[p] /\ UNCHANGED <<left, list, listLeft, work, sure>>
      /\ call'[p].user = u
      /\ \A q \in Procs \ {p} : pc'[q] = pc[q] /\ call'[q] = call[q]
  <2>1. \A o, s : Call(o, u, s).user = u
    BY DEF Call
  <2> QED
    BY <1>1, <1>2, <2>1 DEF Logout, List, Create, ById
<1>4. \A q \in Procs \ {p} : held'[q] = held[q] /\ owed'[q] = owed[q] /\ work'[q] = work[q]
  BY <1>1, <1>3 DEF Logout, List, Create, ById, Hold, Typed, TypeOK
<1>5. /\ \A s \in Sids : owner[s] # None => owner'[s] = owner[s]
      /\ \A s \in Sids : owner'[s] # u => owner'[s] = owner[s]
  BY <1>1 DEF Logout, List, Create, ById, Typed, TypeOK
<1>6. \A s \in sure' : s \in Sids /\ owner'[s] # None /\ owner'[s] = owner[s]
  BY <1>3, <1>5 DEF OrderInv, Typed, TypeOK
<1>7. Listed(u)'
  BY <1>3, <1>6 DEF OrderInv, Listed, Sure, Alive
<1>8. Tracked(p)'
  <2>1. CASE Logout(p, u)
    <3>1. call'[p].op = "logout" /\ call'[p].sid = None /\ pc'[p] = "getList"
      BY <2>1 DEF Logout, Begin, Call, Go, Typed, TypeOK
    <3>2. owed'[p] = {s \in sure : owner[s] = u} /\ UNCHANGED owner
      BY <2>1 DEF Logout, Typed, TypeOK
    <3> QED
      BY <1>3, <3>1, <3>2 DEF Tracked, Typed, TypeOK
  <2>2. CASE List(p, u)
    <3>1. call'[p].op = "list" /\ call'[p].sid = None /\ pc'[p] = "getList"
      BY <2>2 DEF List, Begin, Call, Go, Typed, TypeOK
    <3> QED
      BY <1>3, <3>1 DEF Tracked, Typed, TypeOK
  <2>3. ASSUME NEW s \in Sids, Create(p, u, s) PROVE Tracked(p)'
    <3>1. /\ call'[p].op = "create" /\ call'[p].sid = s /\ pc'[p] = "setSession"
          /\ owner[s] = None
      BY <2>3 DEF Create, Begin, Call, Go, Typed, TypeOK
    <3>2. s \notin sure
      BY <3>1 DEF OrderInv
    <3> QED
      BY <1>3, <3>1, <3>2 DEF Tracked
  <2>4. ASSUME NEW s \in Sids, NEW o \in Ops, ById(p, u, s, o) PROVE Tracked(p)'
    <3>1. /\ call'[p].op # "logout" /\ call'[p].sid = s /\ pc'[p] = "touch"
      BY <2>4 DEF ById, Begin, Call, Go, Typed, TypeOK
    <3>2. held'[p] = {s} /\ work[p] = {}
      BY <2>4 DEF ById, Begin, Hold, Typed, TypeOK, CallInv
    <3> QED
      BY <1>3, <3>1, <3>2 DEF Tracked
  <2> QED
    BY <1>1, <2>1, <2>2, <2>3, <2>4
<1> QED
  BY <1>3, <1>4, <1>5, <1>6, <1>7, <1>8, OneUser

\* A call that ends leaves nothing to track.
LEMMA LeavesUntracked == ASSUME Typed, NEW p \in Procs, Leave(p) PROVE Tracked(p)'
<1>1. pc'[p] = "idle" /\ call'[p] = Free
  BY DEF Leave, Go, Typed, TypeOK
<1> QED
  BY <1>1 DEF Tracked, Free

\* What a command of p leaves alone.
LEMMA StepFrame ==
    ASSUME Typed, OrderInv, NEW p \in Procs, Step(p)
    PROVE  /\ call[p].user \in Serves[p] /\ call[p].user \in Users /\ UNCHANGED owner
           /\ \A q \in Procs \ {p} : /\ pc'[q] = pc[q] /\ call'[q] = call[q]
                                     /\ held'[q] = held[q] /\ owed'[q] = owed[q]
                                     /\ work'[q] = work[q]
           /\ \A s \in Sids : owner[s] # call[p].user =>
                 left'[s] = left[s] /\ (s \in sure' <=> s \in sure)
           /\ \A v \in Users \ {call[p].user} : list'[v] = list[v] /\ listLeft'[v] = listLeft[v]
           /\ sure' \subseteq sure \cup {call[p].sid}
<1>1. call[p].user \in Users /\ call[p].user \in Serves[p]
  <2>1. pc[p] # "idle"
    BY DEF Step, Advance, StoreNew, GetList, SetList, Touched, Rewrite, DelOne, Deleted,
           DelList, TouchGet, TouchSet, DelListed, Throw, Writing
  <2> QED
    BY <2>1, CallTyped DEF Typed, CallInv, OrderInv, Tracked
<1>2. UNCHANGED owner
  BY DEF Step, Advance, StoreNew, GetList, SetList, Touched, Rewrite, DelOne, Deleted,
         DelList, TouchGet, TouchSet, DelListed, Throw, SetSession, DelSessions, PutList, keys
<1>3. \A q \in Procs \ {p} : /\ pc'[q] = pc[q] /\ call'[q] = call[q]
                             /\ held'[q] = held[q] /\ owed'[q] = owed[q]
                             /\ work'[q] = work[q]
  BY DEF Step, Advance, StoreNew, GetList, SetList, Touched, Rewrite, DelOne, Deleted,
         DelList, TouchGet, TouchSet, DelListed, Throw, Leave, Proceed, Go, Hold, Typed, TypeOK
<1>4. \A s \in Sids : owner[s] # call[p].user =>
         left'[s] = left[s] /\ (s \in sure' <=> s \in sure)
  <2> SUFFICES ASSUME NEW s \in Sids, owner[s] # call[p].user
               PROVE  left'[s] = left[s] /\ (s \in sure' <=> s \in sure)
    OBVIOUS
  <2>1. left'[s] = left[s]
    BY AdvanceIsolated
  <2>2. s # call[p].sid /\ s \notin work[p]
    BY DEF Typed, CallInv
  <2>3. UNCHANGED sure \/ Surely(p) \/ \E x \in work[p] : sure' = sure \ {x}
    BY DEF Step, Advance, StoreNew, GetList, SetList, Touched, Rewrite, DelOne, Deleted,
           DelList, TouchGet, TouchSet, DelListed, Throw, Proceed
  <2> QED
    BY <2>1, <2>2, <2>3 DEF Surely
<1>5. \A v \in Users \ {call[p].user} : list'[v] = list[v] /\ listLeft'[v] = listLeft[v]
  BY AdvanceIsolated
<1>6. sure' \subseteq sure \cup {call[p].sid}
  BY DEF Step, Advance, StoreNew, GetList, SetList, Touched, Rewrite, DelOne, Deleted,
         DelList, TouchGet, TouchSet, DelListed, Throw, Proceed, Surely
<1> QED
  BY <1>1, <1>2, <1>3, <1>4, <1>5, <1>6

\* A command keeps the order of its own call and of the other users'.
LEMMA StepOrder ==
    ASSUME Typed, TypeOK', OrderInv, OneAtATime, ReadsWork, NEW p \in Procs, Step(p)
    PROVE  OrderInv'
<1>0. PICK u \in Users : u = call[p].user
  BY StepFrame
<1>1. /\ u \in Serves[p] /\ u = call[p].user /\ u \in Users /\ UNCHANGED owner /\ sure \subseteq Sids
      /\ Listed(u) /\ Tracked(p) /\ call[p].op \in Ops \cup {"none"}
  BY <1>0, StepFrame, CallTyped DEF OrderInv, Typed, TypeOK
<1>2. ASSUME Sure(u)' \subseteq Sure(u),
             \A s \in Sure(u)' : left'[s] <= left[s] /\ s \in list'[u] /\ listLeft'[u] = listLeft[u]
      PROVE  Listed(u)'
  <2> SUFFICES ASSUME NEW s \in Sure(u)' PROVE left'[s] <= listLeft'[u]
    BY <1>2 DEF Listed
  <2>1. left[s] <= listLeft[u] /\ left'[s] <= left[s] /\ listLeft'[u] = listLeft[u] /\ s \in Sids
    BY <1>1, <1>2 DEF Listed, Sure
  <2>2. left[s] \in Int /\ left'[s] \in Int /\ listLeft[u] \in Int
    BY <1>1, <2>1, Expiry DEF Typed, TypeOK
  <2> QED
    BY <2>1, <2>2
<1>3. ASSUME UNCHANGED <<list, listLeft>>, sure' \subseteq sure,
             \A s \in sure' : left'[s] \in {left[s], 0}
      PROVE  Listed(u)'
  <2>1. \A s \in Sure(u)' : s \in Sure(u) /\ left'[s] = left[s] /\ s \in Sids
    BY <1>1, <1>3 DEF Sure, Alive
  <2> QED
    BY <1>1, <1>2, <1>3, <2>1 DEF Listed, Typed, TypeOK
<1>4. ASSUME Listed(u)', Tracked(p)' PROVE OrderInv'
  <2>1. \A s \in sure' : owner'[s] # None
    <3>1. \A s \in sure : owner[s] # None
      BY DEF OrderInv
    <3>2. call[p].sid # None => owner[call[p].sid] = u
      BY <1>1 DEF Typed, CallInv
    <3>3. sure' \subseteq sure \cup {call[p].sid} /\ sure' \subseteq Sids
      BY StepFrame DEF TypeOK
    <3> QED
      BY <1>1, <3>1, <3>2, <3>3
  <2>2. \A s \in Sids : owner'[s] # u =>
           owner'[s] = owner[s] /\ left'[s] = left[s] /\ (s \in sure' <=> s \in sure)
    BY <1>1, StepFrame
  <2>3. \A v \in Users \ {u} : list'[v] = list[v] /\ listLeft'[v] = listLeft[v]
    BY <1>1, StepFrame
  <2>4. \A q \in Procs \ {p} : /\ pc'[q] = pc[q] /\ call'[q] = call[q]
                               /\ held'[q] = held[q] /\ owed'[q] = owed[q]
                               /\ work'[q] = work[q]
    BY StepFrame
  <2> QED
    BY <1>1, <1>4, <2>1, <2>2, <2>3, <2>4, OneUser
<1>5. CASE StoreNew(p) \/ DelOne(p)
  <2>1. /\ pc'[p] = "getList" /\ UNCHANGED <<list, listLeft, call, held, work, sure, owed>>
        /\ call[p].sid \notin sure /\ call[p].op # "logout"
    BY <1>1, <1>5 DEF StoreNew, DelOne, SetSession, DelSessions, Proceed, Go, Typed, TypeOK,
                      CallInv, Tracked
  <2>2. \A s \in sure : left'[s] \in {left[s], 0}
    BY <1>1, <1>5, <2>1 DEF StoreNew, DelOne, SetSession, DelSessions, Typed, TypeOK
  <2>3. Tracked(p)'
    BY <1>1, <2>1 DEF Tracked
  <2> QED
    BY <1>3, <1>4, <2>1, <2>2, <2>3
<1>6. CASE GetList(p)
  <2>1. held'[p] = list[u] /\ UNCHANGED <<list, listLeft, left, call, work, sure, owed>>
    BY <1>1, <1>6 DEF GetList, Hold, keys, ReadsWork, Typed, TypeOK
  <2>2. /\ call[p].sid \notin sure
        /\ \/ pc'[p] = "touch" /\ call[p].op = "list"
           \/ pc'[p] = "delSessions" /\ call[p].op = "logout"
           \/ pc'[p] = "setList"
    BY <1>1, <1>6 DEF GetList, Go, Tracked, Typed, TypeOK
  <2>3. Sure(u)' = Sure(u) /\ Sure(u) \subseteq list[u]
    BY <1>1, <2>1 DEF Sure, Alive, Listed
  <2>4. Tracked(p)'
    BY <1>1, <2>1, <2>2, <2>3 DEF Tracked, Typed, CallInv
  <2> QED
    BY <1>3, <1>4, <2>1, <2>4
<1>7. CASE SetList(p)
  <2>1. /\ Leave(p) /\ Surely(p) /\ UNCHANGED left /\ call[p].sid \in Sids
        /\ Sure(u) \subseteq held[p] /\ Tracked(p)'
    BY <1>1, <1>7, LeavesUntracked, CallTyped
       DEF SetList, PutList, Tracked, Typed, CallInv
  <2> DEFINE ids == IF call[p].op = "create" THEN held[p] \cup {call[p].sid}
                                             ELSE held[p] \ {call[p].sid}
  <2>2. Sure(u)' \subseteq ids
    BY <1>1, <2>1 DEF Sure, Alive, Surely
  <2>3. PutList(u, ids, IF ids = {} THEN 0 ELSE Lifetime)
    BY <1>1, <1>7 DEF SetList
  <2> HIDE DEF ids
  <2>4. Listed(u)'
    <3> SUFFICES ASSUME NEW s \in Sure(u)' PROVE s \in list'[u] /\ left'[s] <= listLeft'[u]
      BY DEF Listed
    <3>1. s \in Sids /\ left'[s] \in Lifetimes /\ left'[s] # 0
      BY DEF Sure, Alive, TypeOK
    <3>2. list'[u] = ids /\ listLeft'[u] = Lifetime
      BY <1>1, <2>2, <2>3 DEF PutList, Typed, TypeOK
    <3> QED
      BY <2>2, <3>1, <3>2, Expiry
  <2> QED
    BY <1>4, <2>1, <2>4
<1>8. CASE Touched(p) \/ Rewrite(p) \/ DelList(p)
  <2>1. Tracked(p)' /\ UNCHANGED sure
    BY <1>8, LeavesUntracked DEF Touched, Rewrite, DelList
  <2>2. CASE DelList(p)
    <3>1. Sure(u)' = {}
      BY <1>1, <2>1, <2>2 DEF DelList, PutList, Tracked, Sure, Alive
    <3> QED
      BY <1>4, <2>1, <3>1 DEF Listed
  <2>3. CASE Touched(p) \/ Rewrite(p)
    <3>1. UNCHANGED <<list, listLeft>>
      BY <2>3 DEF Touched, Rewrite, SetSession, keys
    <3>2. \A s \in sure : left'[s] = left[s]
      BY <1>1, <2>3 DEF Touched, Rewrite, SetSession, Tracked, keys, Typed, TypeOK
    <3> QED
      BY <1>3, <1>4, <2>1, <3>1, <3>2
  <2> QED
    BY <1>8, <2>2, <2>3
<1>9. CASE Deleted(p)
  <2>1. Sure(u) = {} /\ UNCHANGED <<list, listLeft, left, call, held, work, sure, owed>>
        /\ pc'[p] = "delList" /\ call[p].op = "logout"
    BY <1>1, <1>9 DEF Deleted, Proceed, Go, Tracked, keys, Typed, TypeOK
  <2>2. Sure(u)' = {}
    BY <1>1, <2>1 DEF Sure, Alive
  <2>3. Tracked(p)'
    BY <1>1, <2>1, <2>2 DEF Tracked
  <2> QED
    BY <1>3, <1>4, <2>1, <2>3
<1>10. ASSUME NEW s \in Sids, TouchGet(p, s) PROVE OrderInv'
  <2>1. /\ UNCHANGED <<list, listLeft, left, call, pc, sure, owed>> /\ pc[p] = "touch"
        /\ held'[p] \cup work'[p] \subseteq held[p] \cup work[p]
    BY <1>10 DEF TouchGet, Hold, keys, Typed, TypeOK
  <2>2. Tracked(p)'
    BY <1>1, <2>1 DEF Tracked
  <2> QED
    BY <1>3, <1>4, <2>1, <2>2
<1>11. ASSUME NEW s \in Sids, TouchSet(p, s) PROVE OrderInv'
  <2>1. /\ UNCHANGED <<list, listLeft, call, held, owed>> /\ pc[p] = "touch" /\ s \in work[p]
        /\ work'[p] \subseteq work[p] /\ sure' = sure \ {s}
        /\ \A x \in sure' : left'[x] = left[x]
    BY <1>1, <1>11 DEF TouchSet, SetSession, keys, Typed, TypeOK
  <2>2. \/ pc'[p] = "rewrite" /\ call[p].op = "update"
        \/ pc'[p] = "delSession" /\ call[p].op = "destroy"
        \/ pc'[p] = "touch"
    BY <1>11 DEF TouchSet, Go, Typed, TypeOK
  <2>3. Tracked(p)'
    BY <1>1, <2>1, <2>2 DEF Tracked
  <2> QED
    BY <1>3, <1>4, <2>1, <2>3
<1>12. ASSUME NEW s \in Sids, DelListed(p, s) PROVE OrderInv'
  <2>1. /\ UNCHANGED <<list, listLeft, call, pc, work, sure, owed>> /\ pc[p] = "delSessions"
        /\ held'[p] = held[p] \ {s} /\ left'[s] = 0
        /\ \A x \in Sids : left'[x] \in {left[x], 0}
    BY <1>12 DEF DelListed, DelSessions, Hold, Typed, TypeOK
  <2>2. Sure(u)' \subseteq Sure(u) \ {s}
    BY <1>1, <2>1 DEF Sure, Alive
  <2>3. Tracked(p)'
    BY <1>1, <2>1, <2>2 DEF Tracked
  <2> QED
    BY <1>1, <1>3, <1>4, <2>1, <2>3
<1>13. CASE Throw(p)
  <2>1. /\ Tracked(p)' /\ UNCHANGED <<list, listLeft, sure>>
        /\ \A x \in Sids : left'[x] \in {left[x], 0}
    BY <1>13, LeavesUntracked DEF Throw, DelSessions, keys
  <2> QED
    BY <1>1, <1>3, <1>4, <2>1
<1> QED
  BY <1>5, <1>6, <1>7, <1>8, <1>9, <1>10, <1>11, <1>12, <1>13 DEF Step, Advance

\* Every step keeps the order.
LEMMA OrderStep == OneAtATime /\ ReadsWork /\ Typed /\ OrderInv /\ [Next]_vars => OrderInv'
<1> SUFFICES ASSUME OneAtATime, ReadsWork, Typed, OrderInv, [Next]_vars PROVE OrderInv'
  OBVIOUS
<1>1. TypeOK'
  BY TypedStep DEF Typed
<1>2. ASSUME NEW p \in Procs, Request(p) \/ Step(p) PROVE OrderInv'
  BY <1>1, <1>2, RequestOrder, StepOrder
<1>3. CASE Crash
  <2>1. /\ UNCHANGED <<owner, left, list, listLeft, sure>>
        /\ \A p \in Procs : pc'[p] = "idle" /\ call'[p] = Free
    BY <1>3 DEF Crash, LoseCalls, keys
  <2> QED
    BY <2>1 DEF OrderInv, Listed, Tracked, Sure, Alive, Free
<1>4. CASE Tick
  <2>1. \A u \in Users : Sure(u)' \subseteq Sure(u)
    BY <1>4, Expiry DEF Tick, Sure, Alive, Typed, TypeOK
  <2>2. \A p \in Procs : Tracked(p)'
    BY <1>4, <2>1, CallTyped DEF Tick, OrderInv, Tracked, Typed, CallInv
  <2>3. ASSUME NEW u \in Users, NEW s \in Sure(u)'
        PROVE  s \in list'[u] /\ left'[s] <= listLeft'[u]
    <3>1. s \in list[u] /\ left[s] <= listLeft[u] /\ s \in Sids
      BY <2>1, <2>3 DEF OrderInv, Listed, Sure, Typed, TypeOK
    <3>2. left'[s] = Less(left[s]) /\ Less(left[s]) # 0
      BY <1>4, <2>3, <3>1 DEF Tick, Sure, Alive
    <3>3. Less(left[s]) <= Less(listLeft[u]) /\ Less(listLeft[u]) # 0
      BY <1>4, <3>1, <3>2, Ticking, TicksTogether DEF Typed, TypeOK
    <3>4. listLeft'[u] = Less(listLeft[u]) /\ list'[u] = list[u]
      BY <1>4, <3>3 DEF Tick
    <3> QED
      BY <3>1, <3>2, <3>3, <3>4
  <2> QED
    BY <1>4, <2>2, <2>3 DEF Tick, OrderInv, Listed
<1>5. CASE UNCHANGED vars
  BY <1>5 DEF vars, OrderInv, Listed, Tracked, Sure, Alive
<1> QED
  BY <1>2, <1>3, <1>4, <1>5 DEF Next

LEMMA OrderStart == Init => OrderInv
BY DEF Init, OrderInv, Listed, Tracked, Sure, Alive, Free

\* If requests of one user do not overlap and reads do not fail, the list names every
\* live session the user was told of and nothing has refreshed, whatever writes fail,
\* whatever crashes and expires, and whatever other users do.
THEOREM LiveSessionsAreListed ==
    OneAtATime /\ ReadsWork => (Spec => []LiveSessionsListed)
<1> SUFFICES ASSUME OneAtATime, ReadsWork PROVE Spec => []LiveSessionsListed
  OBVIOUS
<1>1. Typed /\ OrderInv /\ [Next]_vars => OrderInv'
  BY OrderStep
<1>2. OrderInv => LiveSessionsListed
  BY DEF OrderInv, Listed, Sure, LiveSessionsListed
<1> QED
  BY <1>1, <1>2, TypedStart, TypedStep, OrderStart, PTL DEF Spec

\* A slot without a call owes nothing.
NothingOwed == \A p \in Procs : pc[p] = "idle" => owed[p] = {}

LEMMA NothingOwedStep == Typed /\ NothingOwed /\ [Next]_vars => NothingOwed'
<1> SUFFICES ASSUME Typed, NothingOwed, [Next]_vars PROVE NothingOwed'
  OBVIOUS
<1>1. ASSUME NEW p \in Procs, Request(p) PROVE NothingOwed'
  <2>1. /\ pc'[p] # "idle"
        /\ \A q \in Procs \ {p} : pc'[q] = pc[q] /\ owed'[q] = owed[q]
    BY <1>1 DEF Request, Logout, List, Create, ById, Begin, Go, Typed, TypeOK
  <2> QED
    BY <2>1 DEF NothingOwed
<1>2. ASSUME NEW p \in Procs, Step(p) PROVE NothingOwed'
  <2>1. Leave(p) \/ (UNCHANGED owed /\ pc'[p] # "idle")
    BY <1>2 DEF Step, Advance, StoreNew, GetList, SetList, Touched, Rewrite, DelOne, Deleted,
                DelList, TouchGet, TouchSet, DelListed, Throw, Proceed, Go, Typed, TypeOK
  <2>2. \A q \in Procs \ {p} : pc'[q] = pc[q]
    BY <1>2 DEF Step, Advance, StoreNew, GetList, SetList, Touched, Rewrite, DelOne, Deleted,
                DelList, TouchGet, TouchSet, DelListed, Throw, Leave, Proceed, Go, Typed, TypeOK
  <2> QED
    BY <2>1, <2>2 DEF Leave, NothingOwed, Typed, TypeOK
<1>3. CASE Crash
  BY <1>3 DEF Crash, LoseCalls, NothingOwed
<1>4. CASE Tick \/ UNCHANGED vars
  BY <1>4 DEF Tick, vars, NothingOwed
<1> QED
  BY <1>1, <1>2, <1>3, <1>4 DEF Next

\* When a logout reaches the list, what its user was told of is gone.
LEMMA NothingLeft ==
    ASSUME Typed, OrderInv, NEW p \in Procs, DelList(p),
           NEW s \in sure, owner[s] = call[p].user
    PROVE  left'[s] = 0
<1>1. Sure(call[p].user) = {} /\ UNCHANGED left
  BY DEF DelList, PutList, OrderInv, Tracked
<1> QED
  BY <1>1 DEF Sure, Alive, Typed, TypeOK

\* On the same conditions a logout deletes every session it has to: overlapping
\* requests of the user and failing reads are all that can keep one alive.
THEOREM LogoutsDelete == OneAtATime /\ ReadsWork => (Spec => LogoutDeletesAll)
<1> SUFFICES ASSUME OneAtATime, ReadsWork PROVE Spec => LogoutDeletesAll
  OBVIOUS
<1>1. Typed /\ OrderInv /\ [Next]_vars => OrderInv'
  BY OrderStep
<1>2. Typed /\ OrderInv =>
        [\A p \in Procs : DelList(p) => \A s \in owed[p] : left'[s] = 0]_vars
  <2> SUFFICES ASSUME Typed, OrderInv, NEW p \in Procs, DelList(p), NEW s \in owed[p]
               PROVE  left'[s] = 0
    OBVIOUS
  <2>1. s \in sure /\ owner[s] = call[p].user
    BY DEF DelList, OrderInv, Tracked
  <2> QED
    BY <2>1, NothingLeft
<1> QED
  BY <1>1, <1>2, TypedStart, TypedStep, OrderStart, PTL DEF Spec, LogoutDeletesAll
=============================================================================
