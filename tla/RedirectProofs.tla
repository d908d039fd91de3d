--------------------------- MODULE RedirectProofs ---------------------------
(* Proofs about Redirect, for any codes, URLs, requests and time limits. *)
EXTENDS Redirect, TLAPS

\* The bounds are natural numbers.
LEMMA BoundsTyped ==
    /\ FillAge \in Nat /\ KeyAge \in Nat /\ MaxAge \in Nat /\ Old \in Nat
    /\ TTL <= KeyAge
    /\ MaxAge = GrpcTimeout + RedisTimeout + TTL - 1 + RedisTimeout
    /\ KeyAge = GrpcTimeout + RedisTimeout + TTL - 1
    /\ FillAge = GrpcTimeout + RedisTimeout
    /\ Old = MaxAge + 1
BY TimeAssumption DEF FillAge, KeyAge, MaxAge, Old

\* What a stage's limit can be.
LEMMA LimitTyped ==
    ASSUME NEW p \in Stages
    PROVE  /\ Limit(p) \in Nat \ {0}
           /\ Limit(p) <= GrpcTimeout + RedisTimeout
BY TimeAssumption DEF Limit

-----------------------------------------------------------------------------
LEMMA TypeInit == Init => TypeOK
BY BoundsTyped, TimeAssumption
   DEF Init, TypeOK, MaybeUrl, Stages, Statuses, Holding

\* Every step keeps the type invariant.
LEMMA TypeStep == TypeOK /\ [Next]_vars => TypeOK'
<1> SUFFICES ASSUME TypeOK, [Next]_vars PROVE TypeOK'
  OBVIOUS
<1> USE DEF TypeOK, MaybeUrl, Stages, Statuses, Holding, db, redis, handler
<1>1. ASSUME NEW c \in Codes, NEW u \in Urls, CreateLink(c, u) \/ UpdateLink(c, u)
      PROVE  TypeOK'
  <2>1. /\ link' = [link EXCEPT ![c] = u]
        /\ age' = [age EXCEPT ![c] = [age[c] EXCEPT ![u] = 0]]
        /\ UNCHANGED <<cache, ttl, saved, savedTtl, pc, code, url, timer, status,
                       excuse>>
    BY <1>1 DEF CreateLink, UpdateLink
  <2>2. age' \in [Codes -> [Urls -> 0..Old]]
    BY <2>1, BoundsTyped
  <2>3. link' \in [Codes -> Urls \cup {Unborn, Gone}]
    BY <2>1
  <2> QED
    BY <2>1, <2>2, <2>3
<1>2. ASSUME NEW c \in Codes, DeleteLink(c) PROVE TypeOK'
  BY <1>2 DEF DeleteLink
<1>3. ASSUME NEW r \in Reqs, ServeGetLink(r) PROVE TypeOK'
  BY <1>3 DEF ServeGetLink, Limit, InGrpc
<1>4. ASSUME NEW r \in Reqs, Favicon(r) PROVE TypeOK'
  BY <1>4 DEF Favicon
<1>5. ASSUME NEW r \in Reqs, NEW c \in Codes, Receive(r, c) PROVE TypeOK'
  BY <1>5, TimeAssumption DEF Receive, Limit, InGrpc
<1>6. ASSUME NEW r \in Reqs, CacheHit(r) PROVE TypeOK'
  BY <1>6, TimeAssumption DEF CacheHit, IsHit, Limit, InGrpc
<1>7. ASSUME NEW r \in Reqs, StartCall(r) PROVE TypeOK'
  BY <1>7, TimeAssumption DEF StartCall, Limit, InGrpc
<1>8. ASSUME NEW r \in Reqs, LinkFound(r) PROVE TypeOK'
  BY <1>8, TimeAssumption DEF LinkFound, Limit, InGrpc
<1>9. ASSUME NEW r \in Reqs, LinkRefused(r) \/ CallLost(r) PROVE TypeOK'
  <2>1. Fail(r) /\ excuse' \in [Reqs -> BOOLEAN]
    BY <1>9 DEF LinkRefused, CallLost
  <2> QED
    BY <2>1, TimeAssumption DEF Fail
<1>10. ASSUME NEW r \in Reqs, CacheSet(r) \/ CacheSetError(r) PROVE TypeOK'
  <2>1. cache' \in [Codes -> MaybeUrl] /\ ttl' \in [Codes -> 0..TTL]
    BY <1>10, TimeAssumption DEF CacheSet, CacheSetError
  <2>2. /\ pc' = [pc EXCEPT ![r] = "answer"] /\ pc[r] = "set"
        /\ UNCHANGED <<link, age, saved, savedTtl, code, url, timer, status, excuse>>
    BY <1>10 DEF CacheSet, CacheSetError
  <2> QED
    BY <2>1, <2>2 DEF Limit, InGrpc
<1>11. ASSUME NEW r \in Reqs, Answer(r) PROVE TypeOK'
  BY <1>11, TimeAssumption DEF Answer
<1>12. CASE CrashRedirectSvc
  BY <1>12, TimeAssumption DEF CrashRedirectSvc
<1>13. CASE RedisSaves \/ RedisRestarts
  BY <1>13 DEF RedisSaves, RedisRestarts
<1>14. CASE Tick
  <2>0. ASSUME NEW r \in Reqs
        PROVE  /\ Limit(pc[r]) \in Nat /\ Limit(pc[r]) <= GrpcTimeout + RedisTimeout
               /\ pc[r] # "idle" => timer[r] < Limit(pc[r])
               /\ timer'[r] = IF pc[r] = "idle" THEN 0 ELSE timer[r] + 1
    BY <1>14, LimitTyped DEF Tick, InTime
  <2>1. timer' \in [Reqs -> 0..(GrpcTimeout + RedisTimeout)]
    <3>1. timer' = [r \in Reqs |-> IF pc[r] = "idle" THEN 0 ELSE timer[r] + 1]
      BY <1>14 DEF Tick
    <3>2. \A r \in Reqs : (IF pc[r] = "idle" THEN 0 ELSE timer[r] + 1)
                             \in 0..(GrpcTimeout + RedisTimeout)
      BY <2>0, TimeAssumption
    <3> QED
      BY <3>1, <3>2
  <2>2. \A r \in Reqs : pc'[r] # "idle" => timer'[r] <= Limit(pc'[r])
    BY <1>14, <2>0, TimeAssumption DEF Tick
  <2>3. /\ cache' \in [Codes -> Urls \cup {NoUrl}] /\ ttl' \in [Codes -> 0..TTL]
        /\ saved' \in [Codes -> Urls \cup {NoUrl}] /\ savedTtl' \in [Codes -> 0..TTL]
    BY <1>14, TimeAssumption DEF Tick, Live, Less
  <2>4. age' \in [Codes -> [Urls -> 0..Old]]
    BY <1>14, BoundsTyped DEF Tick, AtMost
  <2> QED
    BY <1>14, <2>1, <2>2, <2>3, <2>4 DEF Tick
<1>15. CASE UNCHANGED vars
  BY <1>15 DEF vars
<1> QED
  BY <1>1, <1>2, <1>3, <1>4, <1>5, <1>6, <1>7, <1>8, <1>9, <1>10, <1>11, <1>12,
     <1>13, <1>14, <1>15
     DEF Next, LinkSvc, RedirectSvc, Redis, Proceed, CacheMiss, CacheError, CallDeadline

\* Every variable keeps its type, and a request past the reply holds a URL.
THEOREM TypeCorrect == Spec => []TypeOK
BY TypeInit, TypeStep, PTL DEF Spec

-----------------------------------------------------------------------------
LEMMA StalenessInit == Init => StalenessInv
BY SentinelAssumption, BoundsTyped
   DEF Init, StalenessInv, EntryFresh, HeldFresh

\* While no time passes ages can only drop, so a step that moves no value keeps
\* every bound it does not touch.
LEMMA StalenessKept ==
    ASSUME TypeOK, TypeOK', StalenessInv,
           \A c \in Codes, u \in Urls : age'[c][u] <= age[c][u]
    PROVE  /\ UNCHANGED <<cache, ttl>> => EntryFresh(cache, ttl)'
           /\ UNCHANGED <<saved, savedTtl>> => EntryFresh(saved, savedTtl)'
           /\ \A r \in Reqs :
                 UNCHANGED <<pc[r], code[r], url[r], timer[r]>> => HeldFresh(r)'
<1> USE BoundsTyped, TimeAssumption DEF TypeOK, MaybeUrl
<1>1. UNCHANGED <<cache, ttl>> => EntryFresh(cache, ttl)'
  BY DEF StalenessInv, EntryFresh
<1>2. UNCHANGED <<saved, savedTtl>> => EntryFresh(saved, savedTtl)'
  BY DEF StalenessInv, EntryFresh
<1>3. ASSUME NEW r \in Reqs, UNCHANGED <<pc[r], code[r], url[r], timer[r]>>
      PROVE  HeldFresh(r)'
  <2>1. HeldFresh(r) /\ (pc[r] \in Holding => url[r] \in Urls) /\ code[r] \in Codes
    BY DEF StalenessInv
  <2>2. pc[r] \in Holding => age'[code[r]][url[r]] <= age[code[r]][url[r]]
    BY <2>1
  <2> QED
    BY <1>3, <2>1, <2>2 DEF HeldFresh, Holding
<1> QED
  BY <1>1, <1>2, <1>3

\* A tick ages every value that is not current by one, and every key and timer
\* with it.
LEMMA StalenessTick == TypeOK /\ TypeOK' /\ StalenessInv /\ Tick => StalenessInv'
<1> SUFFICES ASSUME TypeOK, TypeOK', StalenessInv, Tick PROVE StalenessInv'
  OBVIOUS
<1> USE BoundsTyped, TimeAssumption DEF TypeOK, MaybeUrl
<1>1. \A c \in Codes, u \in Urls : age'[c][u] <= age[c][u] + 1
  BY DEF Tick, AtMost
<1>2. \A c \in Codes : link'[c] \in Urls => age'[c][link'[c]] = 0
  BY DEF Tick
<1>3. EntryFresh(cache, ttl)'
  BY <1>1 DEF StalenessInv, EntryFresh, Tick, Live, Less
<1>4. EntryFresh(saved, savedTtl)'
  BY <1>1 DEF StalenessInv, EntryFresh, Tick, Live, Less
<1>5. ASSUME NEW r \in Reqs PROVE HeldFresh(r)'
  <2>1. /\ HeldFresh(r) /\ code[r] \in Codes
        /\ pc[r] \in Holding => url[r] \in Urls
        /\ pc[r] \in Holding => timer'[r] = timer[r] + 1
        /\ pc'[r] = pc[r] /\ code'[r] = code[r] /\ url'[r] = url[r]
    BY DEF StalenessInv, Tick, Holding
  <2>2. pc[r] \in Holding => age'[code[r]][url[r]] <= age[code[r]][url[r]] + 1
    BY <1>1, <2>1
  <2> QED
    BY <2>1, <2>2 DEF HeldFresh, Holding
<1> QED
  BY <1>2, <1>3, <1>4, <1>5 DEF StalenessInv

\* While no time passes ages only drop.
LEMMA AgesDrop ==
    ASSUME TypeOK, [Next]_vars, ~Tick
    PROVE  \A c \in Codes, u \in Urls : age'[c][u] <= age[c][u]
<1> USE DEF db, redis, handler
<1>1. \/ age' = age
      \/ \E c \in Codes, u \in Urls : age' = [age EXCEPT ![c][u] = 0]
  BY DEF Next, LinkSvc, RedirectSvc, Redis, Proceed, vars, CreateLink,
     UpdateLink, DeleteLink, ServeGetLink, Favicon, Receive, CacheHit, StartCall,
     CacheMiss, CacheError, Fail, LinkFound, LinkRefused, CallLost, CallDeadline,
     CacheSet, CacheSetError, Answer, CrashRedirectSvc, RedisSaves, RedisRestarts
<1>2. age \in [Codes -> [Urls -> Nat]]
  BY BoundsTyped DEF TypeOK
<1>3. ASSUME NEW c \in Codes, NEW u \in Urls, age' = [age EXCEPT ![c][u] = 0]
      PROVE  \A d \in Codes, v \in Urls : age'[d][v] <= age[d][v]
  <2> TAKE d \in Codes, v \in Urls
  <2>1. age'[d][v] = IF d = c /\ v = u THEN 0 ELSE age[d][v]
    BY <1>2, <1>3
  <2> QED
    BY <1>2, <2>1
<1> QED
  BY <1>1, <1>2, <1>3

\* Every step keeps the staleness bounds: a value enters at age 0 with the read
\* of the row, is handed on within the limit of each stage, and leaves the cache
\* with its TTL.
LEMMA StalenessStep ==
    TypeOK /\ TypeOK' /\ StalenessInv /\ [Next]_vars => StalenessInv'
<1> SUFFICES ASSUME TypeOK, TypeOK', StalenessInv, [Next]_vars PROVE StalenessInv'
  OBVIOUS
<1> USE DEF db, redis, handler
<1>1. CASE Tick
  BY <1>1, StalenessTick
<1>2. CASE ~Tick
  <2>1. \A c \in Codes, u \in Urls : age'[c][u] <= age[c][u]
    BY <1>2, AgesDrop
  <2>2. \A c \in Codes : link'[c] \in Urls => age'[c][link'[c]] = 0
    <3>1. CASE UNCHANGED <<link, age>>
      BY <3>1 DEF StalenessInv
    <3>2. ASSUME NEW c \in Codes, NEW u \in Urls, CreateLink(c, u) \/ UpdateLink(c, u)
          PROVE  \A d \in Codes : link'[d] \in Urls => age'[d][link'[d]] = 0
      BY <3>2 DEF CreateLink, UpdateLink, StalenessInv, TypeOK
    <3>3. ASSUME NEW c \in Codes, DeleteLink(c)
          PROVE  \A d \in Codes : link'[d] \in Urls => age'[d][link'[d]] = 0
      BY <3>3, SentinelAssumption DEF DeleteLink, StalenessInv, TypeOK
    <3> QED
      BY <1>2, <3>1, <3>2, <3>3 DEF Next, LinkSvc, RedirectSvc, Redis, Proceed, vars,
         ServeGetLink, Favicon, Receive, CacheHit, StartCall, CacheMiss, CacheError,
         Fail, LinkFound, LinkRefused, CallLost, CallDeadline, CacheSet,
         CacheSetError, Answer, CrashRedirectSvc, RedisSaves, RedisRestarts
  <2>3. ASSUME NEW r \in Reqs, CacheSet(r) PROVE EntryFresh(cache, ttl)'
    <3>1. /\ url[r] \in Urls /\ code[r] \in Codes /\ timer[r] <= RedisTimeout
          /\ age[code[r]][url[r]] <= GrpcTimeout + timer[r]
      BY <2>3 DEF CacheSet, TypeOK, Holding, Limit, InGrpc, StalenessInv, HeldFresh
    <3>2. age[code[r]][url[r]] \in Nat /\ timer[r] \in Nat
      BY <3>1, BoundsTyped, TimeAssumption DEF TypeOK
    <3>3. age' = age /\ cache' = [cache EXCEPT ![code[r]] = url[r]]
          /\ ttl' = [ttl EXCEPT ![code[r]] = TTL]
      BY <2>3 DEF CacheSet
    <3> QED
      BY <3>1, <3>2, <3>3, BoundsTyped, TimeAssumption
         DEF EntryFresh, StalenessInv, TypeOK, MaybeUrl
  <2>4. EntryFresh(cache, ttl)' /\ EntryFresh(saved, savedTtl)'
    <3>1. CASE UNCHANGED redis
      BY <2>1, <3>1, StalenessKept
    <3>2. CASE RedisSaves \/ RedisRestarts
      BY <3>2 DEF RedisSaves, RedisRestarts, StalenessInv, EntryFresh
    <3>3. CASE \E r \in Reqs : CacheSet(r)
      <4>1. UNCHANGED <<saved, savedTtl>>
        BY <3>3 DEF CacheSet
      <4> QED
        BY <2>1, <2>3, <3>3, <4>1, StalenessKept
    <3> QED
      BY <1>2, <3>1, <3>2, <3>3 DEF Next, LinkSvc, RedirectSvc, Redis, Proceed, vars,
         CreateLink, UpdateLink, DeleteLink, ServeGetLink, Favicon, Receive, CacheHit,
         StartCall, CacheMiss, CacheError, Fail, LinkFound, LinkRefused, CallLost,
         CallDeadline, CacheSetError, Answer, CrashRedirectSvc
  <2>5. \A r \in Reqs : HeldFresh(r)'
    <3> DEFINE Moves(r) == \A q \in Reqs \ {r} :
                             UNCHANGED <<pc[q], code[q], url[q], timer[q]>>
    <3>1. ASSUME NEW r \in Reqs, ServeGetLink(r) PROVE HeldFresh(r)' /\ Moves(r)
      BY <3>1, TimeAssumption DEF ServeGetLink, HeldFresh, TypeOK, StalenessInv
    <3>2. ASSUME NEW r \in Reqs, CacheHit(r) PROVE HeldFresh(r)' /\ Moves(r)
      <4>1. /\ code[r] \in Codes /\ cache[code[r]] # NoUrl /\ timer[r] \in Nat
            /\ ttl[code[r]] \in Nat /\ cache[code[r]] \in Urls
        BY <3>2, TimeAssumption DEF CacheHit, IsHit, TypeOK, MaybeUrl
      <4>2. age[code[r]][cache[code[r]]] <= KeyAge
        BY <4>1, BoundsTyped DEF StalenessInv, EntryFresh, TypeOK
      <4>3. age[code[r]][cache[code[r]]] \in Nat
        BY <4>1, BoundsTyped DEF TypeOK
      <4>4. /\ pc' = [pc EXCEPT ![r] = "answer"]
            /\ url' = [url EXCEPT ![r] = cache[code[r]]]
            /\ UNCHANGED <<code, timer, age>>
        BY <3>2 DEF CacheHit
      <4> QED
        BY <4>1, <4>2, <4>3, <4>4, BoundsTyped DEF HeldFresh, TypeOK
    <3>3. ASSUME NEW r \in Reqs, LinkFound(r) PROVE HeldFresh(r)' /\ Moves(r)
      <4>1. /\ code[r] \in Codes /\ url[r] \in Urls /\ timer[r] \in Nat
            /\ timer[r] <= GrpcTimeout /\ age[code[r]][url[r]] <= timer[r]
        BY <3>3, TimeAssumption
           DEF LinkFound, TypeOK, Holding, Limit, InGrpc, StalenessInv, HeldFresh
      <4>2. age[code[r]][url[r]] \in Nat
        BY <4>1, BoundsTyped DEF TypeOK
      <4> QED
        BY <3>3, <4>1, <4>2, TimeAssumption DEF LinkFound, HeldFresh, TypeOK
    <3>4. ASSUME NEW r \in Reqs, CacheSet(r) \/ CacheSetError(r)
          PROVE  HeldFresh(r)' /\ Moves(r)
      <4>1. /\ code[r] \in Codes /\ url[r] \in Urls /\ timer[r] \in Nat
            /\ age[code[r]][url[r]] <= GrpcTimeout + timer[r] /\ pc[r] = "set"
        BY <3>4, TimeAssumption
           DEF CacheSet, CacheSetError, TypeOK, Holding, StalenessInv, HeldFresh
      <4>2. age[code[r]][url[r]] \in Nat
        BY <4>1, BoundsTyped DEF TypeOK
      <4>3. pc' = [pc EXCEPT ![r] = "answer"] /\ UNCHANGED <<code, url, timer, age>>
        BY <3>4 DEF CacheSet, CacheSetError
      <4> QED
        BY <4>1, <4>2, <4>3, BoundsTyped, TimeAssumption DEF HeldFresh, TypeOK
    <3>5. ASSUME NEW r \in Reqs,
                 \/ Favicon(r) \/ StartCall(r) \/ LinkRefused(r) \/ CallLost(r)
                 \/ Answer(r) \/ \E c \in Codes : Receive(r, c)
          PROVE  HeldFresh(r)' /\ Moves(r)
      <4>1. pc'[r] \notin Holding
        BY <3>5 DEF Favicon, StartCall, LinkRefused, CallLost, Fail, Answer, Receive,
           TypeOK, Holding
      <4>2. Moves(r)
        BY <3>5 DEF Favicon, StartCall, LinkRefused, CallLost, Fail, Answer, Receive,
           TypeOK
      <4> QED
        BY <4>1, <4>2 DEF HeldFresh, Holding
    <3>6. CASE CrashRedirectSvc
      BY <3>6 DEF CrashRedirectSvc, HeldFresh
    <3>7. CASE UNCHANGED <<pc, code, url, timer>>
      BY <2>1, <3>7, StalenessKept
    <3>8. \A r \in Reqs : HeldFresh(r)' /\ Moves(r) => \A q \in Reqs : HeldFresh(q)'
      BY <2>1, StalenessKept
    <3>9. \/ CrashRedirectSvc
          \/ UNCHANGED <<pc, code, url, timer>>
          \/ \E r \in Reqs : HeldFresh(r)' /\ Moves(r)
      <4> HIDE DEF Moves
      <4> QED
        BY <1>2, <3>1, <3>2, <3>3, <3>4, <3>5 DEF Next, LinkSvc, RedirectSvc, Redis,
           Proceed, vars, CreateLink, UpdateLink, DeleteLink, CacheMiss, CacheError,
           CallDeadline, RedisSaves, RedisRestarts
    <3> QED
      BY <3>6, <3>7, <3>8, <3>9
  <2> QED
    BY <2>2, <2>4, <2>5 DEF StalenessInv
<1> QED
  BY <1>1, <1>2

\* Every bound on the way from the row to the client holds in every state.
THEOREM StalenessInvariant == Spec => []StalenessInv
BY StalenessInit, StalenessStep, TypeCorrect, PTL DEF Spec

\* No redirect is sent to a URL its link left more than MaxAge ticks ago.
THEOREM AnswersAreFresh == Spec => []BoundedStaleness
<1>1. TypeOK /\ StalenessInv => BoundedStaleness
  <2> SUFFICES ASSUME TypeOK, StalenessInv, NEW r \in Reqs, pc[r] = "answer"
               PROVE  age[code[r]][url[r]] <= MaxAge
    BY DEF BoundedStaleness
  <2>1. timer[r] <= RedisTimeout /\ timer[r] \in Nat
    <3>1. Limit(pc[r]) = RedisTimeout /\ pc[r] # "idle"
      BY DEF Limit, InGrpc
    <3> QED
      BY <3>1, TimeAssumption DEF TypeOK
  <2>2. age[code[r]][url[r]] <= KeyAge + timer[r] /\ age[code[r]][url[r]] \in Nat
    BY BoundsTyped DEF StalenessInv, HeldFresh, TypeOK, Holding
  <2> QED
    BY <2>1, <2>2, BoundsTyped, TimeAssumption DEF MaxAge
<1> QED
  BY <1>1, TypeCorrect, StalenessInvariant, PTL

-----------------------------------------------------------------------------
\* An empty URL on its way to the client is no older than the call that brought it.
EmptyInv ==
    \A r \in Reqs : pc[r] = "answer" /\ url[r] = EmptyUrl =>
        age[code[r]][EmptyUrl] <= GrpcTimeout + timer[r]

\* A step other than a tick brings an empty URL no other way than by the call: a key
\* with an empty value is no hit.
LEMMA EmptyByCall ==
    ASSUME TypeOK, [Next]_vars, ~Tick, NEW r \in Reqs, pc'[r] = "answer", url'[r] = EmptyUrl
    PROVE  pc[r] \in {"set", "answer"} /\ UNCHANGED <<code[r], url[r], timer[r]>>
<1> USE DEF TypeOK, db, redis, handler
<1>1. ASSUME NEW q \in Reqs, CacheHit(q)
      PROVE  q # r /\ UNCHANGED <<pc[r], code[r], url[r], timer[r]>>
  BY <1>1 DEF CacheHit, IsHit
<1>2. ASSUME NEW q \in Reqs, CacheSet(q) \/ CacheSetError(q)
      PROVE  pc[r] \in {"set", "answer"} /\ UNCHANGED <<code[r], url[r], timer[r]>>
  BY <1>2 DEF CacheSet, CacheSetError
<1>3. ASSUME NEW q \in Reqs, \/ ServeGetLink(q) \/ Favicon(q) \/ StartCall(q)
                             \/ LinkFound(q) \/ LinkRefused(q) \/ CallLost(q)
                             \/ Answer(q) \/ \E c \in Codes : Receive(q, c)
      PROVE  q # r \/ Favicon(q)
  BY <1>3 DEF ServeGetLink, StartCall, LinkFound, LinkRefused, CallLost, Fail, Answer, Receive
<1>4. ASSUME NEW q \in Reqs, Favicon(q) PROVE q # r
  BY <1>4 DEF Favicon
<1>5. ASSUME NEW q \in Reqs, q # r,
             \/ ServeGetLink(q) \/ Favicon(q) \/ StartCall(q)
             \/ LinkFound(q) \/ LinkRefused(q) \/ CallLost(q)
             \/ Answer(q) \/ \E c \in Codes : Receive(q, c)
      PROVE  UNCHANGED <<pc[r], code[r], url[r], timer[r]>>
  BY <1>5
     DEF ServeGetLink, Favicon, StartCall, LinkFound, LinkRefused, CallLost, Fail, Answer, Receive
<1>6. ~CrashRedirectSvc
  BY DEF CrashRedirectSvc
<1>7. CASE UNCHANGED <<pc, code, url, timer>>
  BY <1>7
<1> QED
  BY <1>1, <1>2, <1>3, <1>4, <1>5, <1>6, <1>7
     DEF Next, LinkSvc, RedirectSvc, Redis, Proceed, vars, CreateLink, UpdateLink, DeleteLink,
         CacheMiss, CacheError, CallDeadline, RedisSaves, RedisRestarts

LEMMA EmptyStep ==
    TypeOK /\ TypeOK' /\ StalenessInv /\ EmptyInv /\ [Next]_vars => EmptyInv'
<1> SUFFICES ASSUME TypeOK, TypeOK', StalenessInv, EmptyInv, [Next]_vars,
                    NEW r \in Reqs, pc'[r] = "answer", url'[r] = EmptyUrl
             PROVE  age'[code'[r]][EmptyUrl] <= GrpcTimeout + timer'[r]
  BY DEF EmptyInv
<1>1. /\ EmptyUrl \in Urls /\ GrpcTimeout \in Nat
      /\ code[r] \in Codes /\ timer[r] \in Nat
      /\ age[code[r]][EmptyUrl] \in Nat /\ age'[code[r]][EmptyUrl] \in Nat
  BY SentinelAssumption, TimeAssumption, BoundsTyped DEF TypeOK
<1>2. CASE Tick
  <2>1. /\ pc[r] = "answer" /\ url[r] = EmptyUrl /\ code'[r] = code[r]
        /\ timer'[r] = timer[r] + 1
        /\ age'[code[r]][EmptyUrl] <= age[code[r]][EmptyUrl] + 1
    BY <1>1, <1>2, BoundsTyped DEF Tick, AtMost, TypeOK
  <2> QED
    BY <1>1, <2>1 DEF EmptyInv
<1>3. CASE ~Tick
  <2>1. pc[r] \in {"set", "answer"} /\ UNCHANGED <<code[r], url[r], timer[r]>>
    BY <1>3, EmptyByCall
  <2>2. age[code[r]][EmptyUrl] <= GrpcTimeout + timer[r]
    BY <2>1 DEF EmptyInv, StalenessInv, HeldFresh
  <2>3. age'[code[r]][EmptyUrl] <= age[code[r]][EmptyUrl]
    BY <1>1, <1>3, AgesDrop
  <2> QED
    BY <1>1, <2>1, <2>2, <2>3
<1> QED
  BY <1>2, <1>3

\* A redirect to an empty URL is never served from the cache, in which such a URL
\* looks like a missing key.
THEOREM EmptyNeverStale == Spec => []EmptyIsNeverStale
<1>1. Init => EmptyInv
  BY DEF Init, EmptyInv
<1>2. TypeOK /\ EmptyInv => EmptyIsNeverStale
  <2> SUFFICES ASSUME TypeOK, EmptyInv, NEW r \in Reqs, pc[r] = "answer", url[r] = EmptyUrl
               PROVE  age[code[r]][EmptyUrl] <= FillAge
    BY DEF EmptyIsNeverStale
  <2>1. timer[r] <= RedisTimeout /\ timer[r] \in Nat
    <3>1. Limit(pc[r]) = RedisTimeout /\ pc[r] # "idle"
      BY DEF Limit, InGrpc
    <3> QED
      BY <3>1, TimeAssumption DEF TypeOK
  <2>2. age[code[r]][EmptyUrl] <= GrpcTimeout + timer[r] /\ age[code[r]][EmptyUrl] \in Nat
    BY SentinelAssumption, BoundsTyped DEF EmptyInv, TypeOK
  <2> QED
    BY <2>1, <2>2, TimeAssumption DEF FillAge
<1> QED
  BY <1>1, <1>2, EmptyStep, TypeCorrect, StalenessInvariant, PTL DEF Spec

-----------------------------------------------------------------------------
\* Whoever is refused has an excuse, and so has, before that, whoever asks for a link
\* that is not there or has got link-svc's refusal.
ExcuseInv ==
    /\ FailuresAreExcused
    /\ \A r \in Reqs : pc[r] # "idle" /\ link[code[r]] \notin Urls => excuse[r]
    /\ \A r \in Reqs : pc[r] = "refused" => excuse[r]

\* Every step keeps the excuses: whoever is refused, or asks for a link that is
\* not there, has one.
LEMMA ExcuseStep == TypeOK /\ ExcuseInv /\ [Next]_vars => ExcuseInv'
<1> SUFFICES ASSUME TypeOK, ExcuseInv, [Next]_vars PROVE ExcuseInv'
  OBVIOUS
<1> USE DEF TypeOK, ExcuseInv, FailuresAreExcused, db, redis, handler
<1>1. ASSUME NEW c \in Codes, NEW u \in Urls, CreateLink(c, u) \/ UpdateLink(c, u)
      PROVE  ExcuseInv'
  BY <1>1 DEF CreateLink, UpdateLink
<1>2. ASSUME NEW c \in Codes, DeleteLink(c) PROVE ExcuseInv'
  BY <1>2 DEF DeleteLink
<1>3. ASSUME NEW r \in Reqs, ServeGetLink(r) PROVE ExcuseInv'
  BY <1>3 DEF ServeGetLink
<1>4. ASSUME NEW r \in Reqs, Favicon(r) PROVE ExcuseInv'
  BY <1>4 DEF Favicon
<1>10. ASSUME NEW r \in Reqs, NEW c \in Codes, Receive(r, c) PROVE ExcuseInv'
  BY <1>10 DEF Receive
<1>5. ASSUME NEW r \in Reqs,
             \/ CacheHit(r) \/ StartCall(r) \/ LinkFound(r)
             \/ CacheSet(r) \/ CacheSetError(r)
      PROVE  ExcuseInv'
  BY <1>5 DEF CacheHit, StartCall, LinkFound, CacheSet, CacheSetError
<1>6. ASSUME NEW r \in Reqs, LinkRefused(r) \/ CallLost(r) PROVE ExcuseInv'
  BY <1>6 DEF LinkRefused, CallLost, Fail
<1>7. ASSUME NEW r \in Reqs, Answer(r) PROVE ExcuseInv'
  BY <1>7 DEF Answer
<1>8. CASE CrashRedirectSvc
  BY <1>8 DEF CrashRedirectSvc
<1>9. CASE RedisSaves \/ RedisRestarts \/ Tick \/ UNCHANGED vars
  BY <1>9 DEF RedisSaves, RedisRestarts, Tick, vars
<1> QED
  BY <1>1, <1>2, <1>3, <1>4, <1>5, <1>6, <1>7, <1>8, <1>9, <1>10
     DEF Next, LinkSvc, RedirectSvc, Redis, Proceed, CacheMiss, CacheError, CallDeadline

\* A redirect is refused only if its own call was lost or its link was missing.
THEOREM RefusalsAreExcused == Spec => []FailuresAreExcused
<1>1. Init => ExcuseInv
  BY DEF Init, ExcuseInv, FailuresAreExcused
<1>2. ExcuseInv => FailuresAreExcused
  BY DEF ExcuseInv
<1> QED
  BY <1>1, <1>2, ExcuseStep, TypeCorrect, PTL DEF Spec

-----------------------------------------------------------------------------
(* Redirect implements StaleRead.                                          *)

\* Nothing is learned by a step after which every key, snapshot and request holds
\* only what the redirect path already remembered.
LEMMA RememberedShrinks ==
    ASSUME TypeOK',
           \A c \in Codes : cache'[c] \in Remembered(c) \cup {NoUrl},
           \A c \in Codes : saved'[c] \in Remembered(c) \cup {NoUrl},
           \A r \in Reqs : pc'[r] \in Holding => url'[r] \in Remembered(code'[r])
    PROVE  \A c \in Codes : Remembered(c)' \subseteq Remembered(c)
<1> SUFFICES ASSUME NEW c \in Codes, NEW u \in Urls, u \in Remembered(c)'
             PROVE  u \in Remembered(c)
  BY DEF Remembered
<1>1. u # NoUrl
  BY SentinelAssumption
<1>2. CASE u = cache'[c] \/ u = saved'[c]
  BY <1>1, <1>2
<1>3. ASSUME NEW r \in Reqs, pc'[r] \in Holding, code'[r] = c, u = url'[r]
      PROVE  u \in Remembered(c)
  BY <1>3
<1> QED
  BY <1>2, <1>3 DEF Remembered, Held

\* What is remembered stays the same if no key, snapshot or held URL changes.
LEMMA RememberedSame ==
    ASSUME UNCHANGED <<cache, saved>>,
           \A r \in Reqs : /\ pc'[r] \in Holding <=> pc[r] \in Holding
                           /\ pc[r] \in Holding => UNCHANGED <<code[r], url[r]>>
    PROVE  \A c \in Codes : Remembered(c)' = Remembered(c)
BY DEF Remembered, Held

\* A URL in a key, in the snapshot or held by a request is remembered.
LEMMA Remembers ==
    ASSUME TypeOK
    PROVE  /\ \A c \in Codes : cache[c] \in Remembered(c) \cup {NoUrl}
           /\ \A c \in Codes : saved[c] \in Remembered(c) \cup {NoUrl}
           /\ \A r \in Reqs : pc[r] \in Holding => url[r] \in Remembered(code[r])
BY DEF Remembered, Held, TypeOK, MaybeUrl

\* Every step of the system is a step of the abstract register or a stutter.
LEMMA StepSimulates ==
    TypeOK /\ TypeOK' /\ [Next]_vars => [SR!Next]_(SR!vars)
<1> SUFFICES ASSUME TypeOK, TypeOK', [Next]_vars PROVE [SR!Next]_(SR!vars)
  OBVIOUS
<1> DEFINE rem == [c \in Codes |-> Remembered(c)]
           ask == [r \in Reqs |-> Asking(r)]
           ans == [r \in Reqs |-> LastAnswer(r)]
           Shrink == \A c \in Codes : Remembered(c)' \subseteq Remembered(c)
<1> USE DEF db, redis, handler, SR!vars
<1>1. ASSUME UNCHANGED link, Shrink, UNCHANGED <<ask, ans>> PROVE SR!Next
  BY <1>1 DEF SR!Next, SR!Forget, SR!Shrinks
<1>2. ASSUME UNCHANGED <<status, url, code>>,
             \A r \in Reqs : (pc'[r] = "idle") = (pc[r] = "idle")
      PROVE  UNCHANGED <<ask, ans>>
  BY <1>2 DEF Asking, LastAnswer
<1>3. ASSUME NEW c \in Codes, NEW u \in Urls \cup {Gone},
             \/ u \in Urls /\ (CreateLink(c, u) \/ UpdateLink(c, u))
             \/ u = Gone /\ DeleteLink(c)
      PROVE  SR!Next
  <2>1. UNCHANGED <<rem, ask, ans>>
    BY <1>3 DEF CreateLink, UpdateLink, DeleteLink, Remembered, Held, Asking, LastAnswer
  <2>2. SR!Write(c, u)
    BY <1>3, <2>1 DEF CreateLink, UpdateLink, DeleteLink, SR!Write
  <2> QED
    BY <2>2 DEF SR!Next
<1>4. ASSUME NEW r \in Reqs, ServeGetLink(r), link[code[r]] \in Urls PROVE SR!Next
  <2>1. code[r] \in Codes /\ pc[r] = "call"
    BY <1>4 DEF ServeGetLink, TypeOK
  <2>2. /\ url' = [url EXCEPT ![r] = link[code[r]]] /\ pc' = [pc EXCEPT ![r] = "reply"]
        /\ UNCHANGED <<link, cache, saved, code, status>>
    BY <1>4 DEF ServeGetLink
  <2>3. UNCHANGED <<ask, ans>>
    <3> SUFFICES ASSUME NEW q \in Reqs
                 PROVE  Asking(q)' = Asking(q) /\ LastAnswer(q)' = LastAnswer(q)
      OBVIOUS
    <3> QED
      BY <2>1, <2>2 DEF Asking, LastAnswer, TypeOK
  <2>4. \A c \in Codes : Held(c)' = IF c = code[r] THEN Held(c) \cup {r} ELSE Held(c)
    BY <2>1, <2>2 DEF Held, Holding, TypeOK
  <2>5. \A c \in Codes : \A q \in Held(c) : q # r /\ url'[q] = url[q]
    BY <2>1, <2>2 DEF Held, Holding, TypeOK
  <2>6. url'[r] = link[code[r]]
    BY <2>2 DEF TypeOK
  <2>7. \A c \in Codes : Remembered(c)' =
          IF c = code[r] THEN Remembered(c) \cup {link[c]} ELSE Remembered(c)
    BY <1>4, <2>1, <2>2, <2>4, <2>5, <2>6 DEF Remembered
  <2>8. SR!Learn(code[r])
    BY <1>4, <2>1, <2>2, <2>3, <2>7 DEF SR!Learn
  <2> QED
    BY <2>1, <2>8 DEF SR!Next
<1>5. ASSUME NEW r \in Reqs,
             \/ ServeGetLink(r) /\ link[code[r]] \notin Urls
             \/ StartCall(r) \/ LinkFound(r) \/ CacheSetError(r)
      PROVE  SR!Next
  <2>1. /\ UNCHANGED <<link, cache, saved, status, url, code>>
        /\ \E p \in Stages : /\ pc' = [pc EXCEPT ![r] = p]
                             /\ p # "idle" /\ pc[r] # "idle"
                             /\ p \in Holding <=> pc[r] \in Holding
    BY <1>5 DEF ServeGetLink, StartCall, LinkFound, CacheSetError, Stages, Holding
  <2>2. UNCHANGED <<ask, ans>>
    BY <1>2, <2>1 DEF TypeOK
  <2>3. Shrink
    BY <2>1, RememberedSame DEF TypeOK
  <2> QED
    BY <1>1, <2>1, <2>2, <2>3
<1>6. ASSUME NEW r \in Reqs, CacheSet(r) PROVE SR!Next
  <2>1. /\ UNCHANGED <<link, saved, status, url, code>>
        /\ pc[r] = "set" /\ pc' = [pc EXCEPT ![r] = "answer"]
        /\ cache' = [cache EXCEPT ![code[r]] = url[r]]
    BY <1>6 DEF CacheSet
  <2>2. \A c \in Codes : cache'[c] \in Remembered(c) \cup {NoUrl}
    BY <2>1, Remembers DEF TypeOK, Holding
  <2>3. \A q \in Reqs : pc'[q] \in Holding => url'[q] \in Remembered(code'[q])
    BY <2>1, Remembers DEF TypeOK, Holding
  <2>4. Shrink
    BY <2>1, <2>2, <2>3, Remembers, RememberedShrinks
  <2>5. UNCHANGED <<ask, ans>>
    BY <1>2, <2>1 DEF TypeOK
  <2> QED
    BY <1>1, <2>1, <2>4, <2>5
<1>7. ASSUME NEW r \in Reqs, CacheHit(r) PROVE SR!Next
  <2>1. /\ UNCHANGED <<link, cache, saved, status, code>>
        /\ pc[r] = "get" /\ pc' = [pc EXCEPT ![r] = "answer"]
        /\ url' = [url EXCEPT ![r] = cache[code[r]]]
        /\ code[r] \in Codes /\ cache[code[r]] # NoUrl
    BY <1>7 DEF CacheHit, IsHit, TypeOK
  <2>2. \A q \in Reqs : pc'[q] \in Holding => url'[q] \in Remembered(code[q])
    BY <2>1, Remembers DEF TypeOK, Holding
  <2>3. Shrink
    BY <2>1, <2>2, Remembers, RememberedShrinks
  <2>4. UNCHANGED <<ask, ans>>
    <3> SUFFICES ASSUME NEW q \in Reqs
                 PROVE  Asking(q)' = Asking(q) /\ LastAnswer(q)' = LastAnswer(q)
      OBVIOUS
    <3> QED
      BY <2>1 DEF Asking, LastAnswer, TypeOK
  <2> QED
    BY <1>1, <2>1, <2>3, <2>4
<1>8. ASSUME NEW r \in Reqs, Favicon(r) PROVE SR!Next
  <2>1. UNCHANGED <<link, rem>>
    BY <1>8, RememberedSame DEF Favicon, TypeOK, Holding
  <2>2. Asking(r) = NoCode /\ UNCHANGED ask
    BY <1>8 DEF Favicon, Asking
  <2>3. ans' = [ans EXCEPT ![r] = <<"204", NoUrl>>]
    BY <1>8 DEF Favicon, LastAnswer, TypeOK
  <2> QED
    BY <2>1, <2>2, <2>3 DEF SR!Next, SR!Ignore
<1>9. ASSUME NEW r \in Reqs, NEW c \in Codes, Receive(r, c) PROVE SR!Next
  <2>1. UNCHANGED <<link, rem>>
    BY <1>9, RememberedSame DEF Receive, TypeOK, Holding
  <2>2. Asking(r) = NoCode /\ ask' = [ask EXCEPT ![r] = c]
    BY <1>9 DEF Receive, Asking, TypeOK
  <2>3. ans' = [ans EXCEPT ![r] = <<"none", NoUrl>>]
    BY <1>9 DEF Receive, LastAnswer, TypeOK
  <2>4. SR!Ask(r, c)
    BY <2>1, <2>2, <2>3 DEF SR!Ask
  <2> QED
    BY <2>4 DEF SR!Next
<1>10. ASSUME NEW r \in Reqs, LinkRefused(r) \/ CallLost(r) \/ Answer(r)
       PROVE  SR!Next
  <2>1. /\ pc[r] # "idle" /\ pc' = [pc EXCEPT ![r] = "idle"]
        /\ UNCHANGED <<link, cache, saved, code>>
        /\ \A q \in Reqs \ {r} : UNCHANGED <<url[q], status[q]>>
    BY <1>10 DEF LinkRefused, CallLost, Fail, Answer, InGrpc, TypeOK
  <2>2. \A q \in Reqs : pc'[q] \in Holding => url'[q] \in Remembered(code'[q])
    BY <2>1, Remembers DEF TypeOK, Holding
  <2>3. Shrink
    BY <2>1, <2>2, Remembers, RememberedShrinks
  <2>4. Asking(r) = code[r] /\ code[r] \in Codes /\ ask' = [ask EXCEPT ![r] = NoCode]
    BY <2>1 DEF Asking, TypeOK
  <2>5. ans' = [ans EXCEPT ![r] = <<status'[r], url'[r]>>]
    BY <2>1 DEF LastAnswer, TypeOK
  <2>6. \/ status'[r] = "500" /\ url'[r] = NoUrl
        \/ status'[r] = "301" /\ url'[r] \in Remembered(code[r])
    BY <1>10, Remembers DEF LinkRefused, CallLost, Fail, Answer, TypeOK, Holding
  <2>7. SR!Reply(r)
    BY <2>1, <2>3, <2>4, <2>5, <2>6, SentinelAssumption DEF SR!Reply, SR!Shrinks
  <2> QED
    BY <2>7 DEF SR!Next
<1>11. CASE CrashRedirectSvc
  <2>1. UNCHANGED <<link, cache, saved, code>> /\ pc' = [r \in Reqs |-> "idle"]
    BY <1>11 DEF CrashRedirectSvc
  <2>2. Shrink
    BY <2>1, Remembers, RememberedShrinks DEF Holding
  <2>3. ask' = [r \in Reqs |-> NoCode]
    BY <2>1 DEF Asking
  <2>4. \A r \in Reqs : Asking(r) = NoCode <=> pc[r] = "idle"
    BY SentinelAssumption DEF Asking, TypeOK
  <2>5. ans' = [r \in Reqs |-> IF Asking(r) = NoCode THEN LastAnswer(r)
                                                      ELSE <<"lost", NoUrl>>]
    BY <1>11, <2>4 DEF CrashRedirectSvc, LastAnswer
  <2>6. SR!Lose
    BY <2>1, <2>2, <2>3, <2>5 DEF SR!Lose, SR!Shrinks
  <2> QED
    BY <2>6 DEF SR!Next
<1>12. CASE RedisSaves \/ RedisRestarts \/ Tick
  <2>1. UNCHANGED <<link, status, url, code, pc>>
    BY <1>12 DEF RedisSaves, RedisRestarts, Tick
  <2>2. \A c \in Codes : /\ cache'[c] \in {cache[c], saved[c], NoUrl}
                         /\ saved'[c] \in {cache[c], saved[c], NoUrl}
    BY <1>12 DEF RedisSaves, RedisRestarts, Tick, Live
  <2>3. Shrink
    BY <2>1, <2>2, Remembers, RememberedShrinks
  <2> QED
    BY <1>1, <1>2, <2>1, <2>3
<1>13. CASE UNCHANGED vars
  <2>1. UNCHANGED <<link, rem, ask, ans>>
    BY <1>13 DEF vars, Remembered, Held, Asking, LastAnswer
  <2> QED
    BY <2>1
<1> HIDE DEF rem, ask, ans, Shrink
<1> QED
  BY <1>3, <1>4, <1>5, <1>6, <1>7, <1>8, <1>9, <1>10, <1>11, <1>12, <1>13
     DEF Next, LinkSvc, RedirectSvc, Redis, Proceed, CacheMiss, CacheError, CallDeadline

\* The redirect path is a register with stale reads: whatever the races between
\* replies, fills, writes, crashes and Redis restarts, a URL that is no longer
\* current and no longer remembered never comes back.
THEOREM RedirectImplementsStaleRead == Spec => ImplementsStaleRead
<1>1. Init => SR!Init
  BY SentinelAssumption
     DEF Init, SR!Init, Remembered, Held, Holding, Asking, LastAnswer
<1> QED
  BY <1>1, StepSimulates, TypeCorrect, PTL DEF Spec, SR!Spec, ImplementsStaleRead
=============================================================================
