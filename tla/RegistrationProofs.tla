-------------------------- MODULE RegistrationProofs --------------------------
(* Proofs about Registration inside the life of its process, for any logins, *)
(* requests, size of the pool, environments and attempts.                    *)
EXTENDS LinkProcess, TLAPS, FiniteSetTheorems

USE RegistrationAssumption

\* A step of the process as registrations see it.
Seen ==
    \/ \E r \in Reqs : \/ Advance(r) \/ Fault(r)
                      \/ \E l \in Logins, n \in Usernames : Register(r, l, n)
    \/ \E l \in Logins : AbortOrphan(l)
    \/ Die \/ DbStops \/ UNCHANGED vars

LEMMA StepIsSeen == [Next2]_allVars => Seen
<1> SUFFICES ASSUME [Next2]_allVars PROVE Seen
  OBVIOUS
<1>1. CASE UNCHANGED allVars
  BY <1>1 DEF allVars, Seen
<1>2. CASE Boot \/ Restart \/ Deploy \/ DbStarts
  BY <1>2 DEF Boot, LoadSettings, ConnectDb, StartGrpc, ConnectRedis, ListenHttp, Pass,
              Restart, Deploy, DbStarts, Seen
<1>3. CASE Crash \/ Stop \/ DbStops
  BY <1>3 DEF Crash, Stop, Seen
<1>4. ASSUME NEW r \in Reqs, Accept(r) \/ Work(r) \/ Trouble(r) PROVE Seen
  BY <1>4 DEF Accept, Work, Trouble, Seen, Fault
<1>5. ASSUME NEW l \in Logins, Abort(l) PROVE Seen
  BY <1>5 DEF Abort, Seen
<1> QED
  BY <1>1, <1>2, <1>3, <1>4, <1>5 DEF Next2

-----------------------------------------------------------------------------
(* Types.                                                                  *)

LEMMA AwaitType ==
    ASSUME TypeOK, NEW r \in Reqs, NEW s \in {"find", "begin", "token"}, Await(r, s)
    PROVE  /\ queue' \in Seq(Reqs)
           /\ pc' \in [Reqs -> Stages]
           /\ next' \in [Reqs -> {"none", "idle", "find", "begin", "token"}]
BY DEF TypeOK, Await, Go, Then, Stages

LEMMA EndType ==
    ASSUME TypeOK, NEW r \in Reqs, NEW how \in {"ok", "taken", "failed"}, End(r, how)
    PROVE  /\ pc' \in [Reqs -> Stages]
           /\ next' \in [Reqs -> {"none", "idle", "find", "begin", "token"}]
           /\ answer' \in [Reqs -> {"none", "ok", "taken", "failed", "lost"}]
BY DEF TypeOK, End, Go, Then, Stages

LEMMA UndoType ==
    ASSUME TypeOK, NEW r, Undo(r)
    PROVE  pending' \in [Entries -> Reqs \cup Logins \cup {NoReq}]
BY DEF TypeOK, Undo

LEMMA StoreType ==
    ASSUME TypeOK, NEW r \in Reqs, Store(r)
    PROVE  row' \in [Entries -> Reqs \cup {NoReq}]
BY DEF TypeOK, Store

LEMMA TypeStep == TypeOK /\ QueueInv /\ Seen => TypeOK'
<1> SUFFICES ASSUME TypeOK, QueueInv, Seen PROVE TypeOK'
  OBVIOUS
<1>1. ASSUME NEW r \in Reqs,
             \/ Advance(r) \/ Fault(r)
             \/ \E l \in Logins, n \in Usernames : Register(r, l, n)
      PROVE  TypeOK'
  <2>1. ASSUME NEW l \in Logins, NEW n \in Usernames, Register(r, l, n) PROVE TypeOK'
    <3>1. answer' \in [Reqs -> {"none", "ok", "taken", "failed", "lost"}]
      BY <2>1 DEF Register, TypeOK
    <3> QED
      BY <2>1, <3>1, AwaitType DEF Register, TypeOK, db
  <2>2. CASE Acquire(r)
    <3>1. pc[r] = "wait"
      BY <2>2 DEF Acquire, QueueInv, TypeOK
    <3>2. next[r] \in Stages
      BY <3>1 DEF QueueInv, Stages
    <3> QED
      BY <2>2, <3>2 DEF Acquire, TypeOK, db, body, Go, Then
  <2>3. CASE ConnectFails(r)
    BY <2>3, EndType DEF ConnectFails, TypeOK, db, body
  <2>4. CASE Find(r)
    <3>1. CASE row[login[r]] # NoReq
      BY <2>4, <3>1, EndType DEF Find, TypeOK, GiveBack, db, body
    <3>2. CASE row[login[r]] = NoReq
      BY <2>4, <3>2, AwaitType DEF Find, TypeOK, GiveBack, db, body
    <3> QED
      BY <3>1, <3>2
  <2>5. CASE Begin(r)
    BY <2>5 DEF Begin, TypeOK, Stages, Go, db, pool, body
  <2>6. CASE Insert(r) \/ InsertUsername(r)
    <3>1. PICK k \in Entries : pending' = [pending EXCEPT ![k] = r]
      BY <2>6 DEF Insert, InsertUsername, Take, TypeOK, Entries
    <3>2. /\ pc' \in [Reqs -> Stages]
          /\ UNCHANGED <<row, queue, out, next, login, username, answer>>
      BY <2>6 DEF Insert, InsertUsername, Take, TypeOK, Stages, Go, pool, body
    <3> QED
      BY <3>1, <3>2 DEF TypeOK
  <2>7. CASE Commit(r)
    BY <2>7, UndoType, StoreType DEF Commit, TypeOK, Stages, Go, Then, pool, body
  <2>13. CASE InsertRefused(r) \/ InsertFails(r)
    BY <2>13, UndoType DEF InsertRefused, InsertFails, TypeOK, Stages, Go, pool, body
  <2>8. CASE Rollback(r)
    BY <2>8 DEF Rollback, TypeOK, Stages, Go, Then, db, pool, body
  <2>9. CASE Release(r)
    <3>1. CASE next[r] = "token"
      BY <2>9, <3>1, AwaitType DEF Release, TypeOK, GiveBack, db, body
    <3>2. CASE next[r] = "idle"
      BY <2>9, <3>2, EndType DEF Release, TypeOK, GiveBack, db, body
    <3> QED
      BY <2>9, <3>1, <3>2 DEF Release
  <2>10. CASE SaveToken(r) \/ QueryFails(r)
    BY <2>10, EndType DEF SaveToken, QueryFails, TypeOK, GiveBack, db, body
  <2>11. CASE CommitFails(r)
    <3>1. row' \in [Entries -> Reqs \cup {NoReq}]
      BY <2>11, StoreType DEF CommitFails, TypeOK
    <3> QED
      BY <2>11, <3>1, UndoType DEF CommitFails, TypeOK, Stages, Go, pool, body
  <2>12. CASE ConnectionBreaks(r)
    BY <2>12, UndoType DEF ConnectionBreaks, TypeOK, GiveBack, body
  <2> QED
    BY <1>1, <2>1, <2>2, <2>3, <2>4, <2>5, <2>6, <2>7, <2>8, <2>9, <2>10, <2>11, <2>12,
       <2>13 DEF Advance, Fault
<1>2. ASSUME NEW l \in Logins, AbortOrphan(l) PROVE TypeOK'
  BY <1>2, UndoType DEF AbortOrphan, TypeOK, pool, body
<1>3. CASE Die
  <2>1. PICK R \in SUBSET {r \in out : pc[r] = "commit"} :
          /\ row' = [k \in Entries |-> IF pending[k] \in R THEN pending[k] ELSE row[k]]
          /\ pending' = [k \in Entries |-> IF pending[k] \in R THEN NoReq
                                          ELSE IF pending[k] \in Reqs THEN login[pending[k]]
                                          ELSE pending[k]]
    BY <1>3 DEF Die
  <2>2. row' \in [Entries -> Reqs \cup {NoReq}]
    BY <2>1 DEF TypeOK
  <2>3. pending' \in [Entries -> Reqs \cup Logins \cup {NoReq}]
    BY <2>1 DEF TypeOK
  <2> QED
    BY <1>3, <2>2, <2>3 DEF Die, TypeOK, Stages, body
<1>4. CASE DbStops
  BY <1>4 DEF DbStops, TypeOK, body
<1>5. CASE UNCHANGED vars
  BY <1>5 DEF vars, TypeOK
<1> QED
  BY <1>1, <1>2, <1>3, <1>4, <1>5 DEF Seen
-----------------------------------------------------------------------------
(* The pool and its transactions.  A request other than r keeps what it    *)
(* has in a step of r, and the queue gains or loses one request.           *)

LEMMA AwaitQueue ==
    ASSUME TypeOK, QueueInv, NEW r \in Reqs, NEW s \in {"find", "begin", "token"},
           pc[r] # "wait", Await(r, s)
    PROVE  QueueInv'
<1>1. \A i \in 1..Len(queue) : queue[i] # r /\ queue[i] \in Reqs
  BY DEF QueueInv, TypeOK
<1>2. /\ Len(queue') = Len(queue) + 1 /\ queue'[Len(queue) + 1] = r
      /\ \A i \in 1..Len(queue) : queue'[i] = queue[i]
  BY DEF Await, TypeOK
<1>3. \A i \in 1..Len(queue') :
        pc'[queue'[i]] = "wait" /\ \A j \in 1..Len(queue') : queue'[i] = queue'[j] => i = j
  <2> SUFFICES ASSUME NEW i \in 1..Len(queue')
               PROVE  /\ pc'[queue'[i]] = "wait"
                      /\ \A j \in 1..Len(queue') : queue'[i] = queue'[j] => i = j
    OBVIOUS
  <2>1. Len(queue) \in Nat
    BY DEF TypeOK
  <2>2. i \in 1..Len(queue) \/ i = Len(queue) + 1
    BY <1>2, <2>1
  <2>3. pc'[queue'[i]] = "wait"
    BY <1>1, <1>2, <2>2 DEF Await, Go, TypeOK, QueueInv
  <2>4. \A j \in 1..Len(queue') : queue'[i] = queue'[j] => i = j
    BY <1>1, <1>2, <2>1, <2>2 DEF QueueInv
  <2> QED
    BY <2>3, <2>4
<1>4. \A q \in Reqs : IF pc'[q] = "wait" THEN next'[q] \in {"find", "begin", "token"}
                                        ELSE next'[q] \in {"none", "idle", "token"}
  BY DEF Await, Go, Then, TypeOK, QueueInv
<1> QED
  BY <1>3, <1>4 DEF QueueInv

LEMMA SameQueue ==
    ASSUME TypeOK, QueueInv, NEW r \in Reqs, pc[r] # "wait", pc'[r] # "wait",
           next'[r] \in {"none", "idle", "token"}, UNCHANGED queue,
           \A q \in Reqs \ {r} : pc'[q] = pc[q] /\ next'[q] = next[q]
    PROVE  QueueInv'
<1>1. \A i \in 1..Len(queue) : queue[i] # r /\ queue[i] \in Reqs
  BY DEF QueueInv, TypeOK
<1> QED
  BY <1>1 DEF QueueInv

LEMMA HeadLeaves ==
    ASSUME TypeOK, QueueInv, NEW r \in Reqs, queue # <<>>, Head(queue) = r,
           queue' = Tail(queue), pc'[r] # "wait", next'[r] \in {"none", "idle", "token"},
           \A q \in Reqs \ {r} : pc'[q] = pc[q] /\ next'[q] = next[q]
    PROVE  QueueInv'
<1>1. /\ Len(queue') = Len(queue) - 1 /\ Len(queue) \in Nat
      /\ \A i \in 1..Len(queue') : queue'[i] = queue[i + 1] /\ queue[i + 1] \in Reqs
  BY DEF TypeOK
<1>2. queue[1] = r
  BY DEF TypeOK
<1>3. \A i \in 1..Len(queue') : i + 1 \in 1..Len(queue) /\ queue'[i] # r
  BY <1>1, <1>2 DEF QueueInv
<1>4. \A i \in 1..Len(queue') :
        pc'[queue'[i]] = "wait" /\ \A j \in 1..Len(queue') : queue'[i] = queue'[j] => i = j
  BY <1>1, <1>3 DEF QueueInv
<1>5. \A q \in Reqs : IF pc'[q] = "wait" THEN next'[q] \in {"find", "begin", "token"}
                                        ELSE next'[q] \in {"none", "idle", "token"}
  BY DEF QueueInv
<1> QED
  BY <1>4, <1>5 DEF QueueInv

LEMMA HeadWaits ==
    ASSUME TypeOK, QueueInv, NEW r \in Reqs, queue # <<>>, Head(queue) = r
    PROVE  pc[r] = "wait" /\ next[r] \in {"find", "begin", "token"}
BY DEF TypeOK, QueueInv

LEMMA QueueStep == TypeOK /\ QueueInv /\ Seen => QueueInv'
<1> SUFFICES ASSUME TypeOK, QueueInv, Seen PROVE QueueInv'
  OBVIOUS
<1>1. ASSUME NEW r \in Reqs,
             \/ Advance(r) \/ Fault(r)
             \/ \E l \in Logins, n \in Usernames : Register(r, l, n)
      PROVE  QueueInv'
  <2>1. ASSUME NEW l \in Logins, NEW n \in Usernames, Register(r, l, n) PROVE QueueInv'
    BY <2>1, AwaitQueue DEF Register
  <2>2. CASE Acquire(r)
    BY <2>2, HeadWaits, HeadLeaves DEF Acquire, Go, Then, TypeOK
  <2>3. CASE ConnectFails(r)
    BY <2>3, HeadWaits, HeadLeaves DEF ConnectFails, End, Go, Then, TypeOK
  <2>4. CASE Find(r)
    <3>1. CASE row[login[r]] # NoReq
      BY <2>4, <3>1, SameQueue DEF Find, At, End, Go, Then, TypeOK
    <3>2. CASE row[login[r]] = NoReq
      BY <2>4, <3>2, AwaitQueue DEF Find, At
    <3> QED
      BY <3>1, <3>2
  <2>5. CASE \/ Begin(r) \/ Insert(r) \/ InsertUsername(r)
             \/ InsertRefused(r) \/ InsertFails(r) \/ CommitFails(r)
    <3>1. /\ pc[r] \in {"begin", "insert", "username", "commit"}
          /\ next' = next /\ queue' = queue
      BY <2>5 DEF Begin, Insert, InsertUsername, Take, InsertRefused, InsertFails,
                  CommitFails, At, pool
    <3>2. \E stage \in {"insert", "username", "commit", "rollback"} :
            pc' = [pc EXCEPT ![r] = stage]
      BY <2>5 DEF Begin, Insert, InsertUsername, Take, InsertRefused, InsertFails,
                  CommitFails, Go
    <3> QED
      BY <3>1, <3>2, SameQueue DEF QueueInv, TypeOK
  <2>6. CASE Commit(r) \/ Rollback(r)
    BY <2>6, SameQueue DEF Commit, Rollback, At, Go, Then, pool, TypeOK
  <2>7. CASE Release(r)
    <3>1. CASE next[r] = "token"
      BY <2>7, <3>1, AwaitQueue DEF Release
    <3>2. CASE next[r] = "idle"
      BY <2>7, <3>2, SameQueue DEF Release, End, Go, Then, TypeOK
    <3> QED
      BY <2>7, <3>1, <3>2 DEF Release
  <2>8. CASE SaveToken(r) \/ QueryFails(r)
    BY <2>8, SameQueue DEF SaveToken, QueryFails, At, End, Go, Then, TypeOK
  <2>9. CASE ConnectionBreaks(r)
    BY <2>9 DEF ConnectionBreaks, QueueInv
  <2> QED
    BY <1>1, <2>1, <2>2, <2>3, <2>4, <2>5, <2>6, <2>7, <2>8, <2>9 DEF Advance, Fault
<1>2. CASE Die
  BY <1>2 DEF Die, QueueInv
<1>3. CASE DbStops \/ UNCHANGED vars \/ \E l \in Logins : AbortOrphan(l)
  BY <1>3 DEF DbStops, vars, AbortOrphan, pool, QueueInv
<1> QED
  BY <1>1, <1>2, <1>3 DEF Seen
-----------------------------------------------------------------------------
LEMMA FiniteOut == TypeOK => IsFiniteSet(out) /\ Cardinality(out) \in Nat
BY FS_Subset, FS_CardinalityType DEF TypeOK

\* Connections that are given back leave no more out than before.
LEMMA FewerOut ==
    ASSUME TypeOK, Cardinality(out) <= PoolSize, out' \subseteq out
    PROVE  Cardinality(out') <= PoolSize
<1>1. Cardinality(out') <= Cardinality(out) /\ IsFiniteSet(out')
  BY FiniteOut, FS_Subset
<1> QED
  BY <1>1, FiniteOut, FS_CardinalityType

\* Who goes on with the same statement has taken the same keys.
LEMMA TakenKept ==
    ASSUME NEW q \in Reqs, pc'[q] = pc[q], login'[q] = login[q], username'[q] = username[q]
    PROVE  Taken(q)' = Taken(q)
BY DEF Taken

LEMMA TakenType ==
    ASSUME TypeOK, NEW q \in Reqs
    PROVE  /\ Taken(q) \subseteq Entries
           /\ pc[q] \notin {"username", "commit"} => Taken(q) = {}
BY DEF Taken, TypeOK, Entries

\* A step of r that creates no row, takes no key and no connection, and gives its
\* connection back unless it goes on using it.
LEMMA Harmless ==
    ASSUME TypeOK, PoolInv, NEW r \in Reqs, UNCHANGED body, UNCHANGED db,
           pc[r] \notin {"username", "commit"}, pc'[r] \notin {"username", "commit"},
           out \ {r} \subseteq out', out' \subseteq out, r \in out' => pc'[r] \in Using,
           "token" \in {pc'[r], next'[r]} => "token" \in {pc[r], next[r]},
           \A q \in Reqs \ {r} : pc'[q] = pc[q] /\ next'[q] = next[q]
    PROVE  ConnectionsReturned' /\ KeyInv'
<1>1. Cardinality(out') <= PoolSize
  BY FewerOut DEF PoolInv, ConnectionsReturned
<1>2. \A q \in out' : q \in out /\ pc'[q] \in Using /\ q \in Reqs
  BY DEF PoolInv, ConnectionsReturned, TypeOK
<1>3. \A q \in Reqs : Taken(q)' = Taken(q)
  <2>1. Taken(r) = {} /\ Taken(r)' = {}
    BY DEF Taken
  <2> QED
    BY <2>1, TakenKept DEF body
<1>4. \A k \in Entries, q \in Reqs : pending'[k] = q => q \in out' /\ k \in Taken(q)'
  <2> SUFFICES ASSUME NEW k \in Entries, NEW q \in Reqs, pending'[k] = q
               PROVE  q \in out' /\ k \in Taken(q)'
    OBVIOUS
  <2>1. q \in out /\ k \in Taken(q)
    BY DEF PoolInv, ConnectionsReturned, db
  <2>2. q # r
    BY <2>1, TakenType
  <2> QED
    BY <1>3, <2>1, <2>2
<1>5. \A q \in out' : \A k \in Taken(q)' : pending'[k] = q /\ row'[k] = NoReq
  BY <1>2, <1>3 DEF PoolInv, KeyInv, db
<1>6. \A q \in Reqs : "token" \in {pc'[q], next'[q]} => "token" \in {pc[q], next[q]}
  OBVIOUS
<1> QED
  BY <1>1, <1>2, <1>4, <1>5, <1>6 DEF PoolInv, ConnectionsReturned, KeyInv, db, body

\* The end of a transaction of r, with its row committed or not.
LEMMA TransactionEnds ==
    ASSUME TypeOK, PoolInv, NEW r \in Reqs, Undo(r), UNCHANGED pool, UNCHANGED body,
           pc[r] \in {"insert", "username", "commit"},
           pc'[r] \in Using \ {"username", "commit", "token"},
           \/ row' = row /\ (next'[r] = "token" => next[r] = "token")
           \/ r \in out /\ pc[r] = "commit" /\ Store(r),
           \A q \in Reqs \ {r} : pc'[q] = pc[q] /\ next'[q] = next[q]
    PROVE  ConnectionsReturned' /\ KeyInv'
<1>1. /\ Taken(r)' = {}
      /\ \A q \in Reqs \ {r} : Taken(q)' = Taken(q)
  BY TakenKept DEF Taken, body
<1>2. pc[r] = "commit" /\ r \in out =>
        \A k \in {login[r], username[r]} : pending[k] = r /\ row[k] = NoReq
  BY DEF PoolInv, KeyInv, Taken
<1>3. ConnectionsReturned'
  <2>1. \A k \in Entries, q \in Reqs : pending'[k] = q => q # r /\ pending[k] = q
    BY DEF Undo
  <2>2. \A q \in out : pc'[q] \in Using
    BY DEF PoolInv, ConnectionsReturned, TypeOK
  <2>3. \A k \in Entries, q \in Reqs : pending'[k] = q => q \in out /\ k \in Taken(q)'
    BY <1>1, <2>1 DEF PoolInv, ConnectionsReturned
  <2> QED
    BY <2>2, <2>3 DEF PoolInv, ConnectionsReturned, pool
<1>4. \A k \in Entries : row'[k] = row[k] \/ pending[k] = r
  BY <1>2 DEF Store, TypeOK
<1>5. \A q \in out : \A k \in Taken(q)' : pending'[k] = q /\ row'[k] = NoReq
  <2> SUFFICES ASSUME NEW q \in out, NEW k \in Taken(q)'
               PROVE  pending'[k] = q /\ row'[k] = NoReq
    OBVIOUS
  <2>1. q \in Reqs /\ q # r /\ k \in Taken(q)
    BY <1>1 DEF TypeOK
  <2>2. k \in Entries /\ pending[k] = q /\ row[k] = NoReq
    BY <2>1, TakenType DEF PoolInv, KeyInv
  <2> QED
    BY <1>4, <2>1, <2>2 DEF Undo
<1>6. \A k \in Entries : row'[k] # NoReq => pending'[k] = NoReq
  BY <1>4 DEF PoolInv, KeyInv, Undo
<1>7. \A q \in Reqs : "token" \in {pc'[q], next'[q]} => row'[login[q]] = q
  <2> SUFFICES ASSUME NEW q \in Reqs, "token" \in {pc'[q], next'[q]} PROVE row'[login[q]] = q
    OBVIOUS
  <2>1. login[q] \in Entries
    BY DEF TypeOK, Entries
  <2>2. CASE row[login[q]] = q
    <3>1. pending[login[q]] = NoReq
      BY <2>1, <2>2 DEF PoolInv, KeyInv
    <3> QED
      BY <1>4, <2>1, <2>2, <3>1
  <2>3. CASE row[login[q]] # q
    <3>1. q = r /\ Store(r)
      BY <2>3 DEF PoolInv, KeyInv
    <3> QED
      BY <2>1, <3>1 DEF Store, TypeOK
  <2> QED
    BY <2>2, <2>3
<1> QED
  BY <1>3, <1>5, <1>6, <1>7 DEF KeyInv, pool, body

LEMMA AcquireStep ==
    ASSUME TypeOK, PoolInv, NEW r \in Reqs, Acquire(r)
    PROVE  ConnectionsReturned' /\ KeyInv'
<1>1. pc[r] = "wait" /\ next[r] \in {"find", "begin", "token"}
  BY HeadWaits DEF PoolInv, Acquire
<1>2. r \notin out
  BY <1>1 DEF PoolInv, ConnectionsReturned, Using
<1>3. pc' = [pc EXCEPT ![r] = next[r]] /\ next' = [next EXCEPT ![r] = "none"]
  BY DEF Acquire, Go, Then
<1>4. Cardinality(out') <= PoolSize
  <2>1. IsFiniteSet(out) /\ Cardinality(out) \in Nat
    BY FiniteOut
  <2>2. Cardinality(out \cup {r}) = Cardinality(out) + 1
    BY <1>2, <2>1, FS_AddElement
  <2> QED
    BY <2>1, <2>2 DEF Acquire
<1>5. \A q \in out' : pc'[q] \in Using
  BY <1>1, <1>3 DEF PoolInv, ConnectionsReturned, Acquire, TypeOK, Using, Stages
<1>6. \A q \in Reqs : Taken(q)' = Taken(q)
  <2>1. Taken(r) = {} /\ Taken(r)' = {}
    BY <1>1, <1>3 DEF Taken, TypeOK
  <2> QED
    BY <1>3, <2>1, TakenKept DEF Acquire, body, TypeOK
<1>7. \A q \in Reqs : "token" \in {pc'[q], next'[q]} => "token" \in {pc[q], next[q]}
  BY <1>1, <1>3 DEF TypeOK
<1>8. /\ \A k \in Entries, q \in Reqs : pending[k] = q => q \in out' /\ k \in Taken(q)'
      /\ \A q \in out' : \A k \in Taken(q)' : pending[k] = q /\ row[k] = NoReq
  <2>1. Taken(r) = {}
    BY <1>1 DEF Taken
  <2> QED
    BY <1>6, <2>1 DEF Acquire, PoolInv, ConnectionsReturned, KeyInv, TypeOK
<1> QED
  BY <1>4, <1>5, <1>7, <1>8
     DEF PoolInv, ConnectionsReturned, KeyInv, Acquire, db, body

LEMMA InsertStep ==
    ASSUME TypeOK, PoolInv, NEW r \in Reqs, Insert(r) \/ InsertUsername(r)
    PROVE  ConnectionsReturned' /\ KeyInv'
<1>1. PICK k \in Entries :
        /\ row[k] = NoReq /\ pending[k] = NoReq
        /\ pending' = [pending EXCEPT ![k] = r]
        /\ Taken(r)' = Taken(r) \cup {k}
  BY DEF Insert, InsertUsername, Take, At, Go, Taken, TypeOK, Entries, body
<1>2. /\ r \in out /\ pc'[r] \in {"username", "commit"}
      /\ UNCHANGED <<row, queue, out, next, login, username>>
      /\ \A q \in Reqs \ {r} : pc'[q] = pc[q]
  BY DEF Insert, InsertUsername, Take, At, Go, TypeOK, pool, body
<1>3. \A q \in Reqs \ {r} : Taken(q)' = Taken(q)
  BY <1>2, TakenKept
<1>4. ConnectionsReturned'
  <2>1. \A q \in out : pc'[q] \in Using
    BY <1>2 DEF PoolInv, ConnectionsReturned, TypeOK, Using, Stages
  <2>2. \A e \in Entries, q \in Reqs : pending'[e] = q => q \in out /\ e \in Taken(q)'
    BY <1>1, <1>2, <1>3 DEF PoolInv, ConnectionsReturned, TypeOK
  <2> QED
    BY <1>2, <2>1, <2>2 DEF PoolInv, ConnectionsReturned
<1>5. \A q \in out : \A e \in Taken(q)' : pending'[e] = q /\ row[e] = NoReq
  <2> SUFFICES ASSUME NEW q \in out, NEW e \in Taken(q)'
               PROVE  pending'[e] = q /\ row[e] = NoReq
    OBVIOUS
  <2>1. q \in Reqs /\ (e \in Taken(q) \/ (q = r /\ e = k))
    BY <1>1, <1>3 DEF TypeOK
  <2>2. CASE e \in Taken(q)
    <3>1. pending[e] = q /\ row[e] = NoReq /\ e \in Entries
      BY <2>1, <2>2, TakenType DEF PoolInv, KeyInv
    <3> QED
      BY <1>1, <2>1, <3>1 DEF TypeOK
  <2>3. CASE q = r /\ e = k
    BY <1>1, <2>3 DEF TypeOK
  <2> QED
    BY <2>1, <2>2, <2>3
<1>6. \A e \in Entries : row[e] # NoReq => pending'[e] = NoReq
  BY <1>1 DEF PoolInv, KeyInv, TypeOK
<1>7. \A q \in Reqs : "token" \in {pc'[q], next[q]} => row[login[q]] = q
  BY <1>2 DEF PoolInv, KeyInv, TypeOK
<1> QED
  BY <1>2, <1>4, <1>5, <1>6, <1>7 DEF KeyInv

LEMMA DieStep ==
    ASSUME TypeOK, PoolInv, Die PROVE ConnectionsReturned' /\ KeyInv'
<1>1. PICK R \in SUBSET {r \in out : pc[r] = "commit"} :
        /\ row' = [k \in Entries |-> IF pending[k] \in R THEN pending[k] ELSE row[k]]
        /\ pending' = [k \in Entries |-> IF pending[k] \in R THEN NoReq
                                        ELSE IF pending[k] \in Reqs THEN login[pending[k]]
                                        ELSE pending[k]]
  BY DEF Die
<1>2. /\ out' = {} /\ \A q \in Reqs : pc'[q] = "idle" /\ next'[q] = "none"
      /\ \A k \in Entries : pending'[k] \notin Reqs
  BY <1>1 DEF Die, TypeOK
<1>3. \A k \in Entries : row'[k] # NoReq => pending'[k] = NoReq
  BY <1>1 DEF PoolInv, KeyInv, TypeOK
<1>4. ConnectionsReturned'
  BY <1>2, FS_EmptySet DEF ConnectionsReturned
<1> QED
  BY <1>2, <1>3, <1>4 DEF KeyInv

LEMMA ReturnedStep ==
    ASSUME TypeOK, PoolInv, Seen PROVE ConnectionsReturned' /\ KeyInv'
<1>1. ASSUME NEW r \in Reqs,
             \/ Advance(r) \/ Fault(r)
             \/ \E l \in Logins, n \in Usernames : Register(r, l, n)
      PROVE  ConnectionsReturned' /\ KeyInv'
  <2>1. ASSUME NEW l \in Logins, NEW n \in Usernames, Register(r, l, n)
        PROVE  ConnectionsReturned' /\ KeyInv'
    <3>1. pc[r] = "idle" /\ r \notin out /\ UNCHANGED <<db, out>>
      BY <2>1 DEF Register, PoolInv, ConnectionsReturned, Using
    <3>2. /\ pc' = [pc EXCEPT ![r] = "wait"] /\ next' = [next EXCEPT ![r] = "find"]
          /\ \A q \in Reqs \ {r} : login'[q] = login[q] /\ username'[q] = username[q]
      BY <2>1 DEF Register, Await, Go, Then, TypeOK
    <3>3. \A q \in Reqs : Taken(q)' = Taken(q)
      <4>1. Taken(r) = {} /\ Taken(r)' = {}
        BY <3>1, <3>2 DEF Taken, TypeOK
      <4> QED
        BY <3>2, <4>1, TakenKept DEF TypeOK
    <3>4. \A q \in out : pc'[q] \in Using
      BY <3>1, <3>2 DEF PoolInv, ConnectionsReturned, TypeOK
    <3>5. ConnectionsReturned'
      BY <3>1, <3>3, <3>4 DEF PoolInv, ConnectionsReturned, db
    <3>6. \A q \in Reqs : "token" \in {pc'[q], next'[q]} =>
            "token" \in {pc[q], next[q]} /\ login'[q] = login[q]
      BY <3>2 DEF TypeOK
    <3>7. \A q \in out : \A k \in Taken(q)' : pending[k] = q /\ row[k] = NoReq
      BY <3>3 DEF PoolInv, KeyInv, TypeOK
    <3> QED
      BY <3>1, <3>5, <3>6, <3>7 DEF PoolInv, KeyInv, db
  <2>2. CASE Acquire(r)
    BY <2>2, AcquireStep
  <2>3. CASE Insert(r) \/ InsertUsername(r)
    BY <2>3, InsertStep
  <2>4. CASE Commit(r) \/ CommitFails(r) \/ InsertRefused(r) \/ InsertFails(r)
    <3>1. /\ pc[r] \in {"insert", "username", "commit"}
          /\ Undo(r) /\ UNCHANGED pool /\ UNCHANGED body
      BY <2>4 DEF Commit, CommitFails, InsertRefused, InsertFails, At, pool
    <3>2. \/ row' = row /\ next' = next
          \/ r \in out /\ pc[r] = "commit" /\ Store(r)
      BY <2>4 DEF Commit, CommitFails, InsertRefused, InsertFails, At
    <3>3. /\ pc'[r] \in {"release", "rollback"}
          /\ \A q \in Reqs \ {r} : pc'[q] = pc[q] /\ next'[q] = next[q]
      BY <2>4 DEF Commit, CommitFails, InsertRefused, InsertFails, Go, Then, TypeOK
    <3> QED
      BY <3>1, <3>2, <3>3, TransactionEnds DEF Using, Stages
  <2>5. CASE ConnectFails(r)
    <3>1. pc[r] = "wait" /\ r \notin out
      BY <2>5, HeadWaits DEF ConnectFails, PoolInv, ConnectionsReturned, Using
    <3> QED
      BY <2>5, <3>1, Harmless DEF ConnectFails, End, Go, Then, TypeOK
  <2>6. CASE Find(r)
    <3>1. out' = out \ {r} /\ pc[r] = "find" /\ UNCHANGED db /\ UNCHANGED body
      BY <2>6 DEF Find, At, GiveBack
    <3>2. /\ pc'[r] \in {"idle", "wait"} /\ next'[r] \in {"none", "begin"}
          /\ \A q \in Reqs \ {r} : pc'[q] = pc[q] /\ next'[q] = next[q]
      BY <2>6 DEF Find, End, Await, Go, Then, TypeOK
    <3> QED
      BY <3>1, <3>2, Harmless
  <2>7. CASE Begin(r) \/ Rollback(r)
    BY <2>7, Harmless DEF Begin, Rollback, At, Go, Then, pool, TypeOK, Using, Stages
  <2>8. CASE Release(r)
    <3>1. out' = out \ {r} /\ pc[r] = "release" /\ UNCHANGED db /\ UNCHANGED body
      BY <2>8 DEF Release, GiveBack
    <3>2. /\ pc'[r] \in {"idle", "wait"} /\ next'[r] \in {"none", "token"}
          /\ next'[r] = "token" => next[r] = "token"
          /\ \A q \in Reqs \ {r} : pc'[q] = pc[q] /\ next'[q] = next[q]
      BY <2>8 DEF Release, End, Await, Go, Then, TypeOK
    <3> QED
      BY <3>1, <3>2, Harmless
  <2>9. CASE SaveToken(r) \/ QueryFails(r)
    <3>1. /\ out' = out \ {r} /\ pc[r] \notin {"username", "commit"}
          /\ UNCHANGED db /\ UNCHANGED body
      BY <2>9 DEF SaveToken, QueryFails, At, GiveBack
    <3>2. /\ pc'[r] = "idle" /\ next'[r] = "none"
          /\ \A q \in Reqs \ {r} : pc'[q] = pc[q] /\ next'[q] = next[q]
      BY <2>9 DEF SaveToken, QueryFails, End, Go, Then, TypeOK
    <3> QED
      BY <3>1, <3>2, Harmless
  <2>10. CASE ConnectionBreaks(r)
    <3>1. Cardinality(out') <= PoolSize
      BY <2>10, FewerOut DEF ConnectionBreaks, GiveBack, PoolInv, ConnectionsReturned
    <3>2. \A q \in Reqs : Taken(q)' = Taken(q)
      BY <2>10, TakenKept DEF ConnectionBreaks, body
    <3>3. \A k \in Entries, q \in Reqs : pending'[k] = q => q # r /\ pending[k] = q
      BY <2>10 DEF ConnectionBreaks, Undo
    <3>4. ConnectionsReturned'
      BY <2>10, <3>1, <3>2, <3>3
         DEF ConnectionBreaks, GiveBack, PoolInv, ConnectionsReturned, TypeOK
    <3>5. \A q \in out' : \A k \in Taken(q)' : pending'[k] = q /\ row[k] = NoReq
      <4> SUFFICES ASSUME NEW q \in out', NEW k \in Taken(q)'
                   PROVE  pending'[k] = q /\ row[k] = NoReq
        OBVIOUS
      <4>1. q \in out /\ q # r /\ q \in Reqs
        BY <2>10 DEF ConnectionBreaks, GiveBack, TypeOK
      <4>2. k \in Entries /\ pending[k] = q /\ row[k] = NoReq
        BY <3>2, <4>1, TakenType DEF PoolInv, KeyInv
      <4> QED
        BY <2>10, <4>1, <4>2 DEF ConnectionBreaks, Undo
    <3>6. \A k \in Entries : row[k] # NoReq => pending'[k] = NoReq
      BY <2>10 DEF ConnectionBreaks, Undo, PoolInv, KeyInv
    <3> QED
      BY <2>10, <3>4, <3>5, <3>6 DEF ConnectionBreaks, PoolInv, KeyInv, body
  <2> QED
    BY <1>1, <2>1, <2>2, <2>3, <2>4, <2>5, <2>6, <2>7, <2>8, <2>9, <2>10 DEF Advance, Fault
<1>2. CASE Die
  BY <1>2, DieStep
<1>3. ASSUME NEW l \in Logins, AbortOrphan(l) PROVE ConnectionsReturned' /\ KeyInv'
  <2>1. \A q \in Reqs : Taken(q)' = Taken(q)
    BY <1>3, TakenKept DEF AbortOrphan, body
  <2>2. \A k \in Entries, q \in Reqs : pending'[k] = q <=> pending[k] = q
    BY <1>3 DEF AbortOrphan, Undo
  <2>3. ConnectionsReturned'
    BY <1>3, <2>1, <2>2 DEF AbortOrphan, PoolInv, ConnectionsReturned, TypeOK, pool
  <2>4. \A q \in out : \A k \in Taken(q)' : pending'[k] = q /\ row[k] = NoReq
    BY <2>1, <2>2, TakenType DEF PoolInv, KeyInv, TypeOK
  <2>5. \A k \in Entries : row[k] # NoReq => pending'[k] = NoReq
    BY <1>3 DEF AbortOrphan, Undo, PoolInv, KeyInv, TypeOK
  <2> QED
    BY <1>3, <2>3, <2>4, <2>5 DEF AbortOrphan, PoolInv, KeyInv, pool, body
<1>4. CASE DbStops
  BY <1>4, FS_EmptySet DEF DbStops, PoolInv, ConnectionsReturned, KeyInv, body
<1>5. CASE UNCHANGED vars
  BY <1>5 DEF vars, PoolInv, ConnectionsReturned, KeyInv, Taken
<1> QED
  BY <1>1, <1>2, <1>3, <1>4, <1>5 DEF Seen

LEMMA Start == Init2 => TypeOK /\ PoolInv
<1> SUFFICES ASSUME Init2 PROVE TypeOK /\ PoolInv
  OBVIOUS
<1>1. TypeOK
  BY DEF Init2, Init, TypeOK, Stages
<1>2. ConnectionsReturned
  BY FS_EmptySet DEF Init2, Init, ConnectionsReturned
<1>3. QueueInv
  BY DEF Init2, Init, QueueInv
<1>4. KeyInv
  BY DEF Init2, Init, KeyInv, Taken
<1> QED
  BY <1>1, <1>2, <1>3, <1>4 DEF PoolInv

\* Whatever fails, in link-svc or in PostgreSQL, every connection comes back without
\* a transaction, no request waits with a connection in its hand, and a key is held
\* only by the insert that took it.
THEOREM PoolIsSafe == FairSpec => [](TypeOK /\ PoolInv)
<1>1. TypeOK /\ PoolInv /\ [Next2]_allVars => (TypeOK /\ PoolInv)'
  BY StepIsSeen, TypeStep, QueueStep, ReturnedStep DEF PoolInv
<1> QED
  BY <1>1, Start, PTL DEF FairSpec

\* The life cycle keeps its types: in particular it never tries PostgreSQL more often
\* than Attempts allow.
THEOREM ProcessTypes == FairSpec => []ProcessTypeOK
<1> DEFINE ProcessType ==
      /\ env \in Envs
      /\ run \in {"settings", "database", "grpc", "redis", "http", "serving", "exited",
                 "stopped"}
      /\ tries \in 0..(Attempts - 1)
      /\ dbUp \in BOOLEAN
<1>1. Init2 => ProcessType
  BY LinkProcessAssumption DEF Init2
<1>2. ProcessType /\ [Next2]_allVars => ProcessType'
  <2> SUFFICES ASSUME ProcessType, [Next2]_allVars PROVE ProcessType'
    OBVIOUS
  <2>1. CASE Boot \/ Restart
    BY <2>1, LinkProcessAssumption
       DEF Boot, LoadSettings, ConnectDb, StartGrpc, ConnectRedis, ListenHttp, Pass, Restart
  <2>2. CASE Crash \/ Stop
    BY <2>2, LinkProcessAssumption DEF Crash, Stop
  <2>3. CASE Deploy
    BY <2>3 DEF Deploy
  <2>4. CASE DbStops \/ DbStarts
    BY <2>4 DEF DbStops, DbStarts
  <2>5. CASE \/ UNCHANGED allVars \/ \E l \in Logins : Abort(l)
             \/ \E r \in Reqs : Accept(r) \/ Work(r) \/ Trouble(r)
    BY <2>5 DEF allVars, process, Abort, Accept, Work, Trouble
  <2> QED
    BY <2>1, <2>2, <2>3, <2>4, <2>5 DEF Next2
<1>3. TypeOK /\ ProcessType <=> ProcessTypeOK
  BY DEF ProcessTypeOK
<1> QED
  BY <1>1, <1>2, <1>3, PoolIsSafe, PTL DEF FairSpec

-----------------------------------------------------------------------------
(* The refinement.                                                         *)

\* A registration asks from its beginning to its end, and has made its account if
\* the row is its own and it is past the question whether there is one.
LEMMA MapKept ==
    ASSUME TypeOK, NEW r \in Reqs, UNCHANGED <<row, login, answer>>,
           pc[r] # "idle", pc'[r] # "idle", Past(r)' <=> Past(r),
           \A q \in Reqs \ {r} : pc'[q] = pc[q] /\ next'[q] = next[q]
    PROVE  UNCHANGED <<Owned, Asking, Made, answer>>
BY DEF Owned, Asking, Made, Past

\* A reply ends the request's claim.
LEMMA RepliesMap ==
    ASSUME TypeOK, NEW r \in Reqs, NEW how \in {"ok", "taken", "failed"},
           pc[r] # "idle", End(r, how), UNCHANGED <<row, login>>,
           how = "ok" => Made[r],
           how = "taken" => ~Made[r] /\ row[login[r]] # NoReq
    PROVE  AC!Reply(r, how)
<1>1. Asking[r] = login[r] /\ login[r] \in Logins /\ login[r] # NoLogin
  BY DEF Asking, TypeOK
<1>2. pc' = [pc EXCEPT ![r] = "idle"] /\ next' = [next EXCEPT ![r] = "none"]
  BY DEF End, Go, Then
<1>3. Asking' = [Asking EXCEPT ![r] = NoLogin]
  BY <1>2 DEF Asking, TypeOK
<1>4. Made' = [Made EXCEPT ![r] = FALSE]
  BY <1>2, Zenon DEF Made, Past, TypeOK
<1>5. answer' = [answer EXCEPT ![r] = how] /\ Owned' = Owned
  BY DEF End, Owned
<1>6. how = "taken" => Asking[r] \in Owned
  BY <1>1 DEF Owned
<1> QED
  BY <1>1, <1>3, <1>4, <1>5, <1>6 DEF AC!Reply

\* A row stored for r gives its login, and no other, a row.
LEMMA StoreLogins ==
    ASSUME TypeOK, NEW r \in Reqs, Store(r), NEW l \in Logins
    PROVE  row'[l] = IF l = login[r] THEN r ELSE row[l]
BY DEF Store, TypeOK, Entries

\* A commit that is carried out creates the account.
LEMMA CreatesMap ==
    ASSUME TypeOK, PoolInv, NEW r \in Reqs, pc[r] = "commit", r \in out,
           Store(r), UNCHANGED body, UNCHANGED answer,
           pc'[r] \in {"release", "rollback"}, next'[r] # "find",
           \A q \in Reqs \ {r} : pc'[q] = pc[q] /\ next'[q] = next[q]
    PROVE  AC!Create(r)
<1>1. /\ row[login[r]] = NoReq /\ login[r] \in Logins /\ login[r] # NoLogin
      /\ login' = login
  BY DEF PoolInv, KeyInv, Taken, TypeOK, body
<1>2. Asking[r] = login[r] /\ Asking[r] \notin Owned
  BY <1>1 DEF Asking, Owned
<1>3. Owned' = Owned \cup {Asking[r]}
  BY <1>1, <1>2, StoreLogins DEF Owned
<1>4. Asking' = Asking
  BY <1>1 DEF Asking
<1>5. Made' = [Made EXCEPT ![r] = TRUE]
  <2>1. Past(r)' /\ row'[login'[r]] = r
    BY <1>1, StoreLogins DEF Past
  <2>2. ASSUME NEW q \in Reqs, q # r
        PROVE  Past(q)' <=> Past(q)
    BY <2>2 DEF Past
  <2>3. ASSUME NEW q \in Reqs, q # r
        PROVE  row'[login'[q]] = q <=> row[login[q]] = q
    BY <1>1, <2>3, StoreLogins DEF TypeOK
  <2>4. ASSUME NEW q \in Reqs
        PROVE  (Past(q)' /\ row'[login'[q]] = q)
                 = IF q = r THEN TRUE ELSE Past(q) /\ row[login[q]] = q
    BY <2>1, <2>2, <2>3, Zenon
  <2> QED
    BY <2>4, Zenon DEF Made
<1> QED
  BY <1>1, <1>2, <1>3, <1>4, <1>5 DEF AC!Create

LEMMA DieMaps == TypeOK /\ PoolInv /\ Die => \E L \in SUBSET Logins : AC!Lose(L)
<1> SUFFICES ASSUME TypeOK, PoolInv, Die PROVE \E L \in SUBSET Logins : AC!Lose(L)
  OBVIOUS
<1>1. PICK R \in SUBSET {r \in out : pc[r] = "commit"} :
        row' = [k \in Entries |-> IF pending[k] \in R THEN pending[k] ELSE row[k]]
  BY DEF Die
<1> DEFINE L == {l \in Logins : pending[l] \in R}
<1>2. L \subseteq {Asking[r] : r \in Reqs} \ {NoLogin}
  <2> SUFFICES ASSUME NEW l \in L PROVE l \in {Asking[r] : r \in Reqs} \ {NoLogin}
    OBVIOUS
  <2>1. PICK r \in Reqs : pending[l] = r /\ pc[r] = "commit"
    BY DEF TypeOK
  <2>2. login[r] = l
    BY <2>1 DEF PoolInv, ConnectionsReturned, Taken, Entries, TypeOK
  <2> QED
    BY <2>1, <2>2 DEF Asking
<1>3. Owned' = Owned \cup L
  <2>1. \A l \in L : row'[l] \in Reqs
    BY <1>1 DEF TypeOK, Entries
  <2> QED
    BY <1>1, <2>1 DEF Owned, Entries
<1>4. Asking' = [r \in Reqs |-> NoLogin]
  BY DEF Die, Asking
<1>5. Made' = [r \in Reqs |-> FALSE]
  BY DEF Die, Made, Past
<1>6. \A r \in Reqs : Asking[r] = NoLogin <=> pc[r] = "idle"
  BY DEF Asking, TypeOK
<1>7. answer' = [r \in Reqs |-> IF Asking[r] = NoLogin THEN answer[r] ELSE "lost"]
  BY <1>6 DEF Die
<1> QED
  BY <1>2, <1>3, <1>4, <1>5, <1>7 DEF AC!Lose

LEMMA StepMaps == TypeOK /\ PoolInv /\ Seen => [AC!Next]_(AC!vars)
<1> SUFFICES ASSUME TypeOK, PoolInv, Seen PROVE [AC!Next]_(AC!vars)
  OBVIOUS
<1>1. ASSUME NEW r \in Reqs,
             \/ Advance(r) \/ Fault(r)
             \/ \E l \in Logins, n \in Usernames : Register(r, l, n)
      PROVE  \/ UNCHANGED <<Owned, Asking, Made, answer>>
             \/ AC!Create(r) \/ \E l \in Logins : AC!Ask(r, l)
             \/ \E a \in {"ok", "taken", "failed"} : AC!Reply(r, a)
  <2>1. ASSUME NEW l \in Logins, NEW n \in Usernames, Register(r, l, n) PROVE AC!Ask(r, l)
    <3>1. /\ pc' = [pc EXCEPT ![r] = "wait"] /\ next' = [next EXCEPT ![r] = "find"]
          /\ login' = [login EXCEPT ![r] = l] /\ pc[r] = "idle"
      BY <2>1 DEF Register, Await, Go, Then
    <3>2. Asking[r] = NoLogin /\ Asking' = [Asking EXCEPT ![r] = l]
      BY <3>1 DEF Asking, TypeOK
    <3>3. Made' = Made
      <4>1. ~Past(r) /\ ~Past(r)'
        BY <3>1 DEF Past, TypeOK
      <4>2. ASSUME NEW q \in Reqs \ {r} PROVE Past(q)' = Past(q) /\ login'[q] = login[q]
        BY <3>1 DEF Past, TypeOK
      <4>3. row' = row
        BY <2>1 DEF Register, db
      <4> QED
        BY <4>1, <4>2, <4>3 DEF Made
    <3> QED
      BY <2>1, <3>2, <3>3 DEF Register, db, Owned, AC!Ask
  <2>2. CASE Acquire(r)
    <3>1. pc[r] = "wait" /\ next[r] \in {"find", "begin", "token"}
      BY <2>2, HeadWaits DEF Acquire, PoolInv
    <3> QED
      BY <2>2, <3>1, MapKept DEF Acquire, Go, Then, Past, TypeOK, db, body
  <2>3. CASE ConnectFails(r)
    <3>1. pc[r] = "wait"
      BY <2>3, HeadWaits DEF ConnectFails, PoolInv
    <3> QED
      BY <2>3, <3>1, RepliesMap DEF ConnectFails, db, body
  <2>4. CASE Find(r) /\ row[login[r]] # NoReq
    <3>1. ~Made[r]
      BY <2>4 DEF Find, At, Made, Past
    <3> QED
      BY <2>4, <3>1, RepliesMap DEF Find, At, db, body
  <2>5. CASE Find(r) /\ row[login[r]] = NoReq
    <3>1. ~Made[r] /\ ~Made'[r]
      BY <2>5 DEF Find, At, Made, Past, db, body
    <3>2. \A q \in Reqs \ {r} : pc'[q] = pc[q] /\ next'[q] = next[q]
      BY <2>5 DEF Find, Await, Go, Then, TypeOK
    <3>3. Made' = Made
      BY <2>5, <3>1, <3>2 DEF Find, Made, Past, db, body
    <3>4. Asking' = Asking
      BY <2>5, <3>2 DEF Find, At, Await, Go, TypeOK, Asking, body
    <3> QED
      BY <2>5, <3>3, <3>4 DEF Find, db, Owned
  <2>6. CASE \/ Begin(r) \/ Insert(r) \/ InsertUsername(r)
             \/ InsertRefused(r) \/ InsertFails(r)
    <3>1. /\ pc[r] \in {"begin", "insert", "username"}
          /\ UNCHANGED <<row, next, login, answer>>
      BY <2>6 DEF Begin, Insert, InsertUsername, Take, InsertRefused, InsertFails, At, db,
                  body
    <3>2. \E stage \in {"insert", "username", "commit", "rollback"} :
            pc' = [pc EXCEPT ![r] = stage]
      BY <2>6 DEF Begin, Insert, InsertUsername, Take, InsertRefused, InsertFails, Go
    <3>3. next[r] # "find"
      BY <3>1 DEF PoolInv, QueueInv
    <3> QED
      BY <3>1, <3>2, <3>3, MapKept DEF Past, TypeOK
  <2>7. CASE Commit(r)
    BY <2>7, CreatesMap DEF Commit, At, Go, Then, TypeOK
  <2>8. CASE Rollback(r)
    <3>1. next[r] # "find"
      BY <2>8 DEF Rollback, PoolInv, QueueInv
    <3> QED
      BY <2>8, <3>1, MapKept DEF Rollback, Go, Then, Past, TypeOK, db, body
  <2>9. CASE Release(r) /\ next[r] = "token"
    BY <2>9, MapKept DEF Release, Await, Go, Then, Past, TypeOK, db, body
  <2>10. CASE Release(r) /\ next[r] = "idle"
    BY <2>10, RepliesMap DEF Release, db, body
  <2>11. CASE SaveToken(r)
    <3>1. Made[r]
      BY <2>11 DEF SaveToken, At, Made, Past, PoolInv, KeyInv, QueueInv
    <3> QED
      BY <2>11, <3>1, RepliesMap DEF SaveToken, At, db, body
  <2>12. CASE QueryFails(r)
    BY <2>12, RepliesMap DEF QueryFails, db, body
  <2>13. CASE CommitFails(r)
    <3>1. next[r] # "find"
      BY <2>13 DEF CommitFails, PoolInv, QueueInv
    <3>2. CASE row' = row
      BY <2>13, <3>1, <3>2, MapKept DEF CommitFails, Go, Past, TypeOK, pool, body
    <3>3. CASE r \in out /\ Store(r)
      BY <2>13, <3>1, <3>3, CreatesMap DEF CommitFails, Go, TypeOK, pool
    <3> QED
      BY <2>13, <3>2, <3>3 DEF CommitFails
  <2>14. CASE ConnectionBreaks(r)
    BY <2>14 DEF ConnectionBreaks, Owned, Asking, Made, Past, body
  <2> QED
    BY <1>1, <2>1, <2>2, <2>3, <2>4, <2>5, <2>6, <2>7, <2>8, <2>9, <2>10, <2>11, <2>12,
       <2>13, <2>14 DEF Advance, Fault, Release
<1>2. CASE Die
  BY <1>2, DieMaps DEF AC!Next
<1>3. CASE DbStops \/ UNCHANGED vars \/ \E l \in Logins : AbortOrphan(l)
  <2>1. UNCHANGED <<row, pc, next, login, answer>>
    BY <1>3 DEF DbStops, vars, AbortOrphan, body
  <2> QED
    BY <2>1 DEF Owned, Asking, Made, Past, AC!vars
<1> QED
  BY <1>1, <1>2, <1>3 DEF Seen, AC!Next, AC!vars

\* Registration, with its transactions, its pool, its failures and its crashes, is the
\* one-step creation of accounts: one account per login, and "ok" only to the request
\* that created it.
THEOREM RegistrationImplementsAccounts == FairSpec => ImplementsAccounts
<1>1. ASSUME Init2 PROVE AC!Init
  <2>1. \A r \in Reqs : pc[r] = "idle"
    BY <1>1 DEF Init2, Init
  <2>2. Owned = {}
    BY <1>1 DEF Init2, Init, Owned, Entries
  <2>3. Asking = [r \in Reqs |-> NoLogin]
    BY <2>1 DEF Asking
  <2>4. Made = [r \in Reqs |-> FALSE]
    BY <2>1 DEF Made, Past
  <2> QED
    BY <1>1, <2>2, <2>3, <2>4 DEF Init2, Init, AC!Init
<1>2. TypeOK /\ PoolInv /\ [Next2]_allVars => [AC!Next]_(AC!vars)
  BY StepIsSeen, StepMaps
<1> QED
  BY <1>1, <1>2, PoolIsSafe, PTL DEF FairSpec, ImplementsAccounts, AC!Spec
=============================================================================
