------------------------------ MODULE Sessions ------------------------------
(***************************************************************************)
(* SessionService of link-svc over Redis: one key per session and, for     *)
(* each user, one key with the list of his session ids, read and written   *)
(* back as a whole.  Every await of a Redis command is a step; requests of *)
(* the same Node process interleave at the awaits.                         *)
(*                                                                         *)
(* Session ids are fresh UUIDs, so the stored array is modelled as a set.  *)
(* sure and owed are auxiliary.                                            *)
(***************************************************************************)
EXTENDS Integers

CONSTANTS
    Users,     \* user ids
    Sids,      \* session ids (uuid v4)
    None,      \* no user, no session id
    Procs,     \* requests that link-svc handles at a time
    Serves,    \* Serves[p]: the users whose requests slot p handles
    Ops,       \* the operations in use
    TTL,       \* AUTH_SESSION_EXPIRATION in ticks; 0 if it is falsy: unset, NaN or 0
    Faults     \* what may go wrong: a "get", a "write" (SET, DEL), a "crash"

ASSUME SessionAssumption ==
    /\ None \notin Users \cup Sids
    /\ Serves \in [Procs -> SUBSET Users]
    /\ Ops \subseteq {"create", "logout", "list", "get", "update", "destroy"}
    /\ TTL \in Nat
    /\ Faults \subseteq {"get", "write", "crash"}

VARIABLES
    owner,     \* owner[s]: the userId in the session's data, set when s is drawn
    left,      \* left[s]: ticks before the key of s expires, 0 if there is no key,
               \* Forever if it does not expire
    list,      \* list[u]: the ids stored in the list key of u, {} if there is none
    listLeft,  \* listLeft[u]: the same of that key
    call,      \* call[p]: the operation of slot p, its user and its session
    pc,        \* pc[p]: the command it awaits next
    held,      \* held[p]: ids it has read from a list and not yet dealt with
    work,      \* work[p]: sessions it has read and is about to write back
    sure,      \* sessions whose creation returned and that nothing has refreshed since
    owed       \* owed[p]: those of its user when its logout began

keys == <<owner, left, list, listLeft>>
vars == <<owner, left, list, listLeft, call, pc, held, work, sure, owed>>

Free == [op |-> "none", user |-> None, sid |-> None]
Call(o, u, s) == [op |-> o, user |-> u, sid |-> s]

\* What TTL reports of a key without an expiry.
Forever == -1

\* RedisService.set: SETEX with the setting, or SET without an expiry if it is falsy.
Lifetime == IF TTL = 0 THEN Forever ELSE TTL

Alive(s) == left[s] # 0

Init ==
    /\ owner = [s \in Sids |-> None]
    /\ left = [s \in Sids |-> 0]
    /\ list = [u \in Users |-> {}]
    /\ listLeft = [u \in Users |-> 0]
    /\ call = [p \in Procs |-> Free]
    /\ pc = [p \in Procs |-> "idle"]
    /\ held = [p \in Procs |-> {}]
    /\ work = [p \in Procs |-> {}]
    /\ sure = {}
    /\ owed = [p \in Procs |-> {}]

-----------------------------------------------------------------------------
Go(p, stage) == pc' = [pc EXCEPT ![p] = stage]
Hold(p, ids) == held' = [held EXCEPT ![p] = ids]

\* The call goes on with its next command; it returns or throws.
Proceed(p, stage) == Go(p, stage) /\ UNCHANGED <<call, held, work, sure, owed>>
Leave(p) ==
    /\ Go(p, "idle") /\ Hold(p, {})
    /\ call' = [call EXCEPT ![p] = Free]
    /\ work' = [work EXCEPT ![p] = {}]
    /\ owed' = [owed EXCEPT ![p] = {}]

\* Mutant: session keys are stored without an expiry.
SetForever(s) ==
    left' = [left EXCEPT ![s] = Forever] /\ UNCHANGED <<owner, list, listLeft>>

\* The write and the DEL of a session key and of a list key.
SetSession(s) ==
    left' = [left EXCEPT ![s] = Lifetime] /\ UNCHANGED <<owner, list, listLeft>>
DelSessions(D) ==
    /\ left' = [s \in Sids |-> IF s \in D THEN 0 ELSE left[s]]
    /\ UNCHANGED <<owner, list, listLeft>>

\* Mutant: the list key without the user id in its name.
PutOneList(u, ids, ttl) ==
    /\ list' = [v \in Users |-> ids]
    /\ listLeft' = [v \in Users |-> ttl]
    /\ UNCHANGED <<owner, left>>
PutList(u, ids, ttl) ==
    /\ list' = [list EXCEPT ![u] = ids]
    /\ listLeft' = [listLeft EXCEPT ![u] = ttl]
    /\ UNCHANGED <<owner, left>>

-----------------------------------------------------------------------------
Begin(p, c, stage) ==
    /\ pc[p] = "idle" /\ c.op \in Ops /\ c.user \in Serves[p]
    /\ call' = [call EXCEPT ![p] = c]
    /\ Go(p, stage)
    /\ UNCHANGED <<left, list, listLeft, work, sure>>

\* createSession: login calls it without a session id.
Create(p, u, s) ==
    /\ owner[s] = None
    /\ owner' = [owner EXCEPT ![s] = u]
    /\ Begin(p, Call("create", u, s), "setSession")
    /\ UNCHANGED <<held, owed>>

StoreNew(p) == pc[p] = "setSession" /\ SetSession(call[p].sid) /\ Proceed(p, "getList")

\* destroyUserSessions: logout calls it.
Logout(p, u) ==
    /\ Begin(p, Call("logout", u, None), "getList")
    /\ owed' = [owed EXCEPT ![p] = {s \in sure : owner[s] = u}]
    /\ UNCHANGED <<owner, held>>

\* getUserSessions: GET /auth/sessions calls it.
List(p, u) ==
    /\ Begin(p, Call("list", u, None), "getList")
    /\ UNCHANGED <<owner, held, owed>>

\* getSession; updateSession and destroySession start with it.
ById(p, u, s, o) ==
    /\ o \in {"get", "update", "destroy"} /\ owner[s] = u
    /\ Begin(p, Call(o, u, s), "touch")
    /\ Hold(p, {s})
    /\ UNCHANGED <<owner, owed>>

\* get swallows errors: a failed read is an absent key.
GetList(p) ==
    /\ pc[p] = "getList"
    /\ \E ids \in {list[call[p].user]} \cup IF "get" \in Faults THEN {{}} ELSE {} :
          Hold(p, ids)
    /\ Go(p, CASE call[p].op = "list" -> "touch"
               [] call[p].op = "logout" -> "delSessions"
               [] OTHER -> "setList")
    /\ UNCHANGED <<keys, call, work, sure, owed>>

Surely(p) ==
    sure' = IF call[p].op = "create" THEN sure \cup {call[p].sid} ELSE sure \ {call[p].sid}

\* Mutant: createSession writes a list of its own session only.
SetListAlone(p) ==
    /\ pc[p] = "setList"
    /\ LET ids == IF call[p].op = "create" THEN {call[p].sid} ELSE held[p] \ {call[p].sid}
       IN PutList(call[p].user, ids, IF ids = {} THEN 0 ELSE Lifetime)
    /\ Leave(p) /\ Surely(p)

\* The list is written back as it was read, with or without the session; an
\* empty one is deleted.
SetList(p) ==
    /\ pc[p] = "setList"
    /\ LET ids == IF call[p].op = "create" THEN held[p] \cup {call[p].sid}
                                           ELSE held[p] \ {call[p].sid}
       IN PutList(call[p].user, ids, IF ids = {} THEN 0 ELSE Lifetime)
    /\ Leave(p) /\ Surely(p)

\* Mutant: getSession refreshes a session with twice the lifetime.
TouchSetLonger(p, s) ==
    /\ pc[p] = "touch" /\ s \in work[p]
    /\ work' = [work EXCEPT ![p] = @ \ {s}]
    /\ left' = [left EXCEPT ![s] = 2 * Lifetime]
    /\ Go(p, "touch")
    /\ UNCHANGED <<owner, list, listLeft, call, held, sure, owed>>

\* getSession of one id: GET, then write back what was read, with a fresh lifetime.
TouchGet(p, s) ==
    /\ pc[p] = "touch" /\ s \in held[p]
    /\ Hold(p, held[p] \ {s})
    /\ \/ Alive(s) /\ work' = [work EXCEPT ![p] = @ \cup {s}]
       \/ ("get" \in Faults \/ ~Alive(s)) /\ UNCHANGED work
    /\ UNCHANGED <<keys, call, pc, sure, owed>>

\* The other reads of a list go on when one write of it fails.
TouchSet(p, s) ==
    /\ pc[p] = "touch" /\ s \in work[p]
    /\ work' = [work EXCEPT ![p] = @ \ {s}]
    /\ \/ SetSession(s)
       \/ "write" \in Faults /\ call[p].op = "list" /\ UNCHANGED keys
    /\ sure' = sure \ {s}
    /\ Go(p, CASE call[p].op = "update" -> "rewrite"
               [] call[p].op = "destroy" -> "delSession"
               [] OTHER -> "touch")
    /\ UNCHANGED <<call, held, owed>>

Touched(p) ==
    pc[p] = "touch" /\ held[p] = {} /\ work[p] = {} /\ Leave(p) /\ UNCHANGED <<keys, sure>>

Rewrite(p) ==
    pc[p] = "rewrite" /\ SetSession(call[p].sid) /\ Leave(p) /\ UNCHANGED sure

DelOne(p) == pc[p] = "delSession" /\ DelSessions({call[p].sid}) /\ Proceed(p, "getList")

\* destroyUserSessions deletes the ids it read in parallel, then the list.
DelListed(p, s) ==
    /\ pc[p] = "delSessions" /\ s \in held[p]
    /\ DelSessions({s}) /\ Hold(p, held[p] \ {s})
    /\ UNCHANGED <<call, pc, work, sure, owed>>

Deleted(p) ==
    pc[p] = "delSessions" /\ held[p] = {} /\ Proceed(p, "delList") /\ UNCHANGED keys

DelList(p) ==
    pc[p] = "delList" /\ PutList(call[p].user, {}, 0) /\ Leave(p) /\ UNCHANGED sure

Writing(p) == pc[p] \in {"setSession", "setList", "rewrite", "delSession", "delList"}

\* Mutant: the promise of a failed command is never settled.
ThrowUnsettled(p) ==
    "write" \in Faults /\ Writing(p) /\ Proceed(p, "unsettled") /\ UNCHANGED keys

\* A SET or DEL that fails is rethrown and ends the call; of parallel DELs the
\* others may still be carried out.
Throw(p) ==
    /\ "write" \in Faults
    /\ \/ Writing(p) /\ UNCHANGED keys
       \/ pc[p] = "touch" /\ work[p] # {} /\ call[p].op # "list" /\ UNCHANGED keys
       \/ /\ pc[p] = "delSessions" /\ held[p] # {}
          /\ \E D \in SUBSET held[p] : DelSessions(D)
    /\ Leave(p) /\ UNCHANGED sure

LoseCalls ==
    /\ call' = [p \in Procs |-> Free]
    /\ pc' = [p \in Procs |-> "idle"]
    /\ held' = [p \in Procs |-> {}]
    /\ work' = [p \in Procs |-> {}]
    /\ owed' = [p \in Procs |-> {}]
    /\ UNCHANGED <<keys, sure>>

\* link-svc dies: every call is lost, Redis keeps its keys.
Crash == "crash" \in Faults /\ (\E p \in Procs : pc[p] # "idle") /\ LoseCalls

Less(n) == IF n > 0 THEN n - 1 ELSE n

\* A tick of every expiry; a key whose time has run out is gone.
Tick ==
    /\ (\E s \in Sids : left[s] > 0) \/ (\E u \in Users : listLeft[u] > 0)
    /\ left' = [s \in Sids |-> Less(left[s])]
    /\ listLeft' = [u \in Users |-> Less(listLeft[u])]
    /\ list' = [u \in Users |-> IF Less(listLeft[u]) = 0 THEN {} ELSE list[u]]
    /\ UNCHANGED <<owner, call, pc, held, work, sure, owed>>

Request(p) ==
    \E u \in Users :
        \/ Logout(p, u) \/ List(p, u)
        \/ \E s \in Sids : Create(p, u, s) \/ \E o \in Ops : ById(p, u, s, o)

Advance(p) ==
    \/ StoreNew(p) \/ GetList(p) \/ SetList(p) \/ Touched(p) \/ Rewrite(p)
    \/ DelOne(p) \/ Deleted(p) \/ DelList(p)
    \/ \E s \in Sids : TouchGet(p, s) \/ TouchSet(p, s) \/ DelListed(p, s)

Step(p) == Advance(p) \/ Throw(p)

Next == (\E p \in Procs : Request(p) \/ Step(p)) \/ Crash \/ Tick

Spec == Init /\ [][Next]_vars

\* The event loop resumes every call, a Redis command returns or fails, and
\* time passes.
Fairness == WF_vars(Tick) /\ \A p \in Procs : WF_vars(Step(p))

FairSpec == Spec /\ Fairness

-----------------------------------------------------------------------------
(* Properties.                                                             *)

\* What a key can have left.
Lifetimes == IF TTL = 0 THEN {0, Forever} ELSE 0..TTL

\* Type invariant: no key outlives the setting, and keys without an expiry are
\* stored under a falsy setting and under no other.
TypeOK ==
    /\ owner \in [Sids -> Users \cup {None}]
    /\ left \in [Sids -> Lifetimes]
    /\ list \in [Users -> SUBSET Sids]
    /\ listLeft \in [Users -> Lifetimes]
    /\ call \in [Procs -> [op : Ops \cup {"none"}, user : Users \cup {None},
                           sid : Sids \cup {None}]]
    /\ pc \in [Procs -> {"idle", "setSession", "getList", "setList", "touch",
                         "rewrite", "delSession", "delSessions", "delList"}]
    /\ sure \in SUBSET Sids
    /\ \A v \in {held, work, owed} : v \in [Procs -> SUBSET Sids]

Quiet(u) == \A p \in Procs : call[p].user # u

\* When a user's requests do not overlap, the sessions he was told of are in his list
\* whenever he has no request in progress, until they expire or are refreshed,
\* whatever the requests of other users, failed writes, crashes and the expiry of
\* keys do in between: the list outlives the sessions in it.
LiveSessionsListed ==
    \A u \in Users : Quiet(u) =>
        \A s \in sure : owner[s] = u /\ Alive(s) => s \in list[u] /\ left[s] <= listLeft[u]

\* A logout that returns has deleted every session its user was told of when it
\* began and that nothing had refreshed (auth.service.ts:149, "delete the sessions").
LogoutDeletesAll ==
    [][\A p \in Procs : DelList(p) => \A s \in owed[p] : left'[s] = 0]_vars

\* Users never touch each other: while no request of a user is in progress, no
\* step but the passage of time changes his list or his sessions, although every
\* request works on ids it read earlier from a shared store.
UsersIsolated ==
    [][~Tick => \A u \in Users : Quiet(u) =>
          /\ list'[u] = list[u]
          /\ \A s \in Sids : owner[s] = u => left'[s] = left[s]]_vars

\* A session that no list names and no call works on any more, left behind by a racing
\* login, a list that expired first or a failed call, goes away by itself: listing a
\* user's sessions refreshes some for ever, but never such a one.  A falsy setting
\* keeps it for good, for it has no expiry and no request finds it.
OrphansExpire ==
    TTL # 0 => \A s \in Sids :
        <>[]((\A u \in Users : s \notin list[u]) /\ \A p \in Procs : call[p].sid # s)
            => <>[](~Alive(s))

\* Every call ends: no call waits for another, and a parallel command that fails
\* ends it too.
CallsEnd == \A p \in Procs : pc[p] # "idle" ~> pc[p] = "idle"
=============================================================================
