---------------------------- MODULE Registration ----------------------------
(***************************************************************************)
(* POST /auth/register statement by statement: UserRepository.             *)
(* createWithTransaction over the connection pool and the transactions of  *)
(* PostgreSQL.  Auth takes the same transaction for one step.              *)
(*                                                                         *)
(* From pg and TypeORM: waiters get connections in the order they came and *)
(* wait without a time limit; a connection that breaks leaves the pool.    *)
(* From PostgreSQL: an INSERT takes its keys in the order of the unique    *)
(* indexes, login first, and waits for each that an uncommitted one has;   *)
(* an error ends the transaction and gives back its keys.                  *)
(***************************************************************************)
EXTENDS Integers, Sequences, FiniteSets

CONSTANTS
    Logins,
    NoLogin,
    Usernames, \* values of users.username
    Reqs,      \* registrations that link-svc handles at a time
    Serves,    \* Serves[r]: the logins that slot r registers
    NoReq,     \* nobody
    PoolSize   \* connections of the pool

ASSUME RegistrationAssumption ==
    /\ IsFiniteSet(Reqs)
    /\ NoLogin \notin Logins /\ Logins \cap Usernames = {}
    /\ Serves \in [Reqs -> SUBSET Logins]
    /\ NoReq \notin Reqs \cup Logins /\ Reqs \cap Logins = {}
    /\ PoolSize \in Nat \ {0}

VARIABLES
    row,       \* row[k]: the request that committed the row with key k, or NoReq
    pending,   \* pending[k]: the request whose uncommitted insert holds the key k, or
               \* the login of such an insert whose process has died, or NoReq
    queue,     \* requests that wait for a connection, first come first served
    out,       \* requests that have one
    pc,        \* pc[r]: the statement it awaits
    next,      \* next[r]: where it goes on with the connection, or without
    login,     \* login[r]
    username,  \* username[r]: the one given, or else the login
    answer     \* answer[r]: how its last registration ended

db == <<row, pending>>
pool == <<queue, out>>
body == <<login, username>>
vars == <<row, pending, queue, out, pc, next, login, username, answer>>

\* Keys of the two unique indexes.
Entries == Logins \cup Usernames

Init ==
    /\ row = [k \in Entries |-> NoReq]
    /\ pending = [k \in Entries |-> NoReq]
    /\ queue = <<>> /\ out = {}
    /\ pc = [r \in Reqs |-> "idle"]
    /\ next = [r \in Reqs |-> "none"]
    /\ login \in [Reqs -> Logins] /\ \A r \in Reqs : login[r] \in Serves[r]
    /\ username \in [Reqs -> Usernames]
    /\ answer = [r \in Reqs |-> "none"]

-----------------------------------------------------------------------------
Go(r, stage) == pc' = [pc EXCEPT ![r] = stage]
Then(r, stage) == next' = [next EXCEPT ![r] = stage]

\* r is about to send a statement, over a connection that is not broken.
At(r, stage) == pc[r] = stage /\ r \in out

\* Ask the pool for a connection to run stage with.
Await(r, stage) ==
    /\ Go(r, "wait") /\ Then(r, stage)
    /\ queue' = Append(queue, r)

GiveBack(r) == out' = out \ {r}

End(r, how) ==
    /\ Go(r, "idle") /\ Then(r, "none")
    /\ answer' = [answer EXCEPT ![r] = how]

\* The keys that the transaction of r holds are free.
Undo(r) == pending' = [k \in Entries |-> IF pending[k] = r THEN NoReq ELSE pending[k]]

Register(r, l, n) ==
    /\ pc[r] = "idle" /\ l \in Serves[r]
    /\ login' = [login EXCEPT ![r] = l]
    /\ username' = [username EXCEPT ![r] = n]
    /\ answer' = [answer EXCEPT ![r] = "none"]
    /\ Await(r, "find")
    /\ UNCHANGED <<db, out>>

Acquire(r) ==
    /\ queue # <<>> /\ Head(queue) = r
    /\ Cardinality(out) < PoolSize
    /\ queue' = Tail(queue)
    /\ out' = out \cup {r}
    /\ Go(r, next[r]) /\ Then(r, "none")
    /\ UNCHANGED <<db, body, answer>>

\* No connection can be made.
ConnectFails(r) ==
    /\ queue # <<>> /\ Head(queue) = r
    /\ queue' = Tail(queue)
    /\ End(r, "failed")
    /\ UNCHANGED <<db, out, body>>

\* findByLogin, one statement with a connection of its own.
Find(r) ==
    /\ At(r, "find")
    /\ GiveBack(r)
    /\ IF row[login[r]] # NoReq
       THEN End(r, "taken") /\ UNCHANGED queue
       ELSE Await(r, "begin") /\ UNCHANGED answer
    /\ UNCHANGED <<db, body>>

\* queryRunner.startTransaction
Begin(r) ==
    /\ At(r, "begin")
    /\ Go(r, "insert")
    /\ UNCHANGED <<db, pool, next, body, answer>>

\* r's INSERT takes the key k and goes on.
Take(r, k, stage) ==
    /\ row[k] = NoReq /\ pending[k] = NoReq
    /\ pending' = [pending EXCEPT ![k] = r]
    /\ Go(r, stage)
    /\ UNCHANGED <<row, pool, next, body, answer>>

\* Mutant: the insert takes another connection of the pool for a moment.
InsertThroughPool(r) ==
    At(r, "insert") /\ Cardinality(out) < PoolSize /\ Take(r, login[r], "username")

\* queryRunner.manager.save: one INSERT, which waits twice.
Insert(r) == At(r, "insert") /\ Take(r, login[r], "username")
InsertUsername(r) == At(r, "username") /\ Take(r, username[r], "commit")

\* A key is taken for good: the statement fails, the catch block rolls back.
InsertRefused(r) ==
    /\ \/ At(r, "insert") /\ row[login[r]] # NoReq
       \/ At(r, "username") /\ row[username[r]] # NoReq
    /\ Undo(r)
    /\ Go(r, "rollback")
    /\ UNCHANGED <<row, pool, next, body, answer>>

\* The row is there, under both its keys.
Store(r) == row' = [row EXCEPT ![login[r]] = r, ![username[r]] = r]

Commit(r) ==
    /\ At(r, "commit")
    /\ Store(r) /\ Undo(r)
    /\ Go(r, "release") /\ Then(r, "token")
    /\ UNCHANGED <<pool, body, answer>>

\* Whether ROLLBACK succeeds or fails, the finally block is next.
Rollback(r) ==
    /\ pc[r] = "rollback"
    /\ Go(r, "release") /\ Then(r, "idle")
    /\ UNCHANGED <<db, pool, body, answer>>

\* Mutant: the connection is released only after a commit.
ReleaseCommitted(r) ==
    /\ pc[r] = "release"
    /\ \/ next[r] = "token" /\ GiveBack(r) /\ Await(r, "token") /\ UNCHANGED answer
       \/ next[r] = "idle" /\ End(r, "failed") /\ UNCHANGED pool
    /\ UNCHANGED <<db, body>>

\* finally: release.  Then the token is saved, or the error goes on.
Release(r) ==
    /\ pc[r] = "release"
    /\ GiveBack(r)
    /\ \/ next[r] = "token" /\ Await(r, "token") /\ UNCHANGED answer
       \/ next[r] = "idle" /\ End(r, "failed") /\ UNCHANGED queue
    /\ UNCHANGED <<db, body>>

\* createRefreshToken, with a connection of its own.
SaveToken(r) ==
    /\ At(r, "token")
    /\ GiveBack(r) /\ End(r, "ok")
    /\ UNCHANGED <<db, queue, body>>

-----------------------------------------------------------------------------
(* Failures.                                                               *)

\* A statement of its own fails.  The BEGIN, outside the try block, fails only with its
\* connection, which the driver then takes back.
QueryFails(r) ==
    /\ pc[r] \in {"find", "token"} \/ (pc[r] = "begin" /\ r \notin out)
    /\ GiveBack(r) /\ End(r, "failed")
    /\ UNCHANGED <<db, queue, body>>

\* Mutant: the catch block does not throw the error again.
InsertFailsSilently(r) ==
    /\ pc[r] \in {"insert", "username"}
    /\ Undo(r)
    /\ Go(r, "release") /\ Then(r, "token")
    /\ UNCHANGED <<row, pool, body, answer>>

InsertFails(r) ==
    /\ pc[r] \in {"insert", "username"}
    /\ Undo(r)
    /\ Go(r, "rollback")
    /\ UNCHANGED <<row, pool, next, body, answer>>

\* COMMIT fails; if only its answer is lost the row is there.
CommitFails(r) ==
    /\ pc[r] = "commit"
    /\ \/ row' = row
       \/ r \in out /\ Store(r)
    /\ Undo(r)
    /\ Go(r, "rollback")
    /\ UNCHANGED <<pool, next, body, answer>>

\* A connection breaks under a request: the driver takes it out of the pool and
\* PostgreSQL ends its transaction.
ConnectionBreaks(r) ==
    /\ r \in out
    /\ GiveBack(r) /\ Undo(r)
    /\ UNCHANGED <<row, queue, pc, next, body, answer>>

\* link-svc dies.  PostgreSQL may still carry out the COMMITs it has received;
\* the other transactions hold their keys until it notices.
Die ==
    /\ \E R \in SUBSET {r \in out : pc[r] = "commit"} :
          /\ row' = [k \in Entries |-> IF pending[k] \in R THEN pending[k] ELSE row[k]]
          /\ pending' = [k \in Entries |-> IF pending[k] \in R THEN NoReq
                                          ELSE IF pending[k] \in Reqs THEN login[pending[k]]
                                          ELSE pending[k]]
    /\ queue' = <<>> /\ out' = {}
    /\ pc' = [r \in Reqs |-> "idle"]
    /\ next' = [r \in Reqs |-> "none"]
    /\ answer' = [r \in Reqs |-> IF pc[r] = "idle" THEN answer[r] ELSE "lost"]
    /\ UNCHANGED body

\* PostgreSQL aborts a transaction whose client has gone.
AbortOrphan(l) ==
    /\ pending[l] = l
    /\ Undo(l)
    /\ UNCHANGED <<row, pool, pc, next, body, answer>>

-----------------------------------------------------------------------------
\* What happens by itself: the pool hands out connections, PostgreSQL answers over
\* those that are not broken, and a broken one fails its statement.
Advance(r) ==
    \/ Acquire(r) \/ Find(r) \/ Begin(r) \/ Insert(r) \/ InsertUsername(r)
    \/ InsertRefused(r) \/ Commit(r) \/ Rollback(r) \/ Release(r) \/ SaveToken(r)
    \/ r \notin out /\ (QueryFails(r) \/ InsertFails(r) \/ CommitFails(r))

\* What may go wrong.
Fault(r) ==
    \/ ConnectFails(r) \/ ConnectionBreaks(r)
    \/ QueryFails(r) \/ InsertFails(r) \/ CommitFails(r)

Next ==
    \/ \E r \in Reqs : \/ Advance(r) \/ Fault(r)
                      \/ \E l \in Logins, n \in Usernames : Register(r, l, n)
    \/ \E l \in Logins : AbortOrphan(l)
    \/ Die

Spec == Init /\ [][Next]_vars

-----------------------------------------------------------------------------
(* Properties.                                                             *)

Stages == {"idle", "wait", "find", "begin", "insert", "username", "commit",
           "rollback", "release", "token"}
Using == Stages \ {"idle", "wait"}

\* Type invariant.
TypeOK ==
    /\ row \in [Entries -> Reqs \cup {NoReq}]
    /\ pending \in [Entries -> Reqs \cup Logins \cup {NoReq}]
    /\ queue \in Seq(Reqs) /\ out \in SUBSET Reqs
    /\ pc \in [Reqs -> Stages]
    /\ next \in [Reqs -> {"none", "idle", "find", "begin", "token"}]
    /\ login \in [Reqs -> Logins] /\ username \in [Reqs -> Usernames]
    /\ answer \in [Reqs -> {"none", "ok", "taken", "failed", "lost"}]

\* The keys that the INSERT of r has taken.
Taken(r) ==
    (IF pc[r] \in {"username", "commit"} THEN {login[r]} ELSE {})
        \cup (IF pc[r] = "commit" THEN {username[r]} ELSE {})

\* On every path through createWithTransaction and its failures a connection is out
\* only for a request that is using it, none goes back to the pool with a transaction
\* that holds a key, and the pool is never overdrawn.
ConnectionsReturned ==
    /\ \A r \in out : pc[r] \in Using
    /\ \A k \in Entries, r \in Reqs : pending[k] = r => r \in out /\ k \in Taken(r)
    /\ Cardinality(out) <= PoolSize

\* Who is in the queue waits, once, and goes on with a statement of his own.
QueueInv ==
    /\ \A i \in 1..Len(queue) :
          pc[queue[i]] = "wait" /\ \A j \in 1..Len(queue) : queue[i] = queue[j] => i = j
    /\ \A r \in Reqs : IF pc[r] = "wait" THEN next[r] \in {"find", "begin", "token"}
                                        ELSE next[r] \in {"none", "idle", "token"}

\* From its INSERT to the answer to its COMMIT a request holds the keys it has taken,
\* unless its connection broke; then the row is its own.
KeyInv ==
    /\ \A r \in out : \A k \in Taken(r) : pending[k] = r /\ row[k] = NoReq
    /\ \A k \in Entries : row[k] # NoReq => pending[k] = NoReq
    /\ \A r \in Reqs : "token" \in {pc[r], next[r]} => row[login[r]] = r

\* The inductive form.
PoolInv == ConnectionsReturned /\ QueueInv /\ KeyInv

\* Statement by statement, with its two transactions racing for a login, lost
\* commits and crashes, registration is the one-step creation of Accounts: one
\* account per login, "ok" only to the request that created it.
Past(r) == pc[r] \notin {"idle", "find"} /\ next[r] # "find"
Owned == {l \in Logins : row[l] # NoReq}
Asking == [r \in Reqs |-> IF pc[r] = "idle" THEN NoLogin ELSE login[r]]
Made == [r \in Reqs |-> Past(r) /\ row[login[r]] = r]
AC == INSTANCE Accounts WITH accounts <- Owned, asking <- Asking, made <- Made

ImplementsAccounts == AC!Spec

\* Every registration ends: requests that hold a connection, or a key that others
\* wait for, never wait for another connection.
RegistrationsEnd == \A r \in Reqs : pc[r] # "idle" ~> pc[r] = "idle"
=============================================================================
