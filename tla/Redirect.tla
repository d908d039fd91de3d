------------------------------ MODULE Redirect ------------------------------
(***************************************************************************)
(* The redirect path of the shortener, end to end: the Go handler of       *)
(* redirect-svc with its Redis cache, the gRPC call to link-svc, and the   *)
(* link operations of link-svc that run concurrently with it.              *)
(*                                                                         *)
(* Time is counted in ticks.  A request that has used up the time limit of *)
(* the stage it is in must move before time advances: a gRPC call ends at  *)
(* its deadline, a Redis command at its client's timeout.                  *)
(*                                                                         *)
(* age and excuse are auxiliary: no action reads them.                     *)
(***************************************************************************)
EXTENDS Integers

CONSTANTS
    Codes,         \* short codes (UUID v4, never reused)
    Urls,          \* values of links.original_url
    EmptyUrl,      \* the empty string, which a PATCH may store
    NoUrl,         \* no value: an absent cache key, a request holding nothing
    Unborn, Gone,  \* a code not handed out yet, a code whose row was deleted
    Reqs,          \* request slots (handler goroutines) of redirect-svc
    NoCode,        \* what a client that waits for nothing asks for
    TTL,           \* CACHE_TTL in ticks
    GrpcTimeout,   \* the context deadline of GetLink in ticks
    RedisTimeout   \* longest time the handler spends on one Redis command

ASSUME SentinelAssumption ==
    /\ {NoUrl, Unborn, Gone} \cap Urls = {}
    /\ Unborn # Gone
    /\ EmptyUrl \in Urls
    /\ NoCode \notin Codes

ASSUME TimeAssumption ==
    /\ TTL \in Nat \ {0}
    /\ GrpcTimeout \in Nat \ {0}
    /\ RedisTimeout \in Nat \ {0}

VARIABLES
    link,      \* link[c]: the URL in PostgreSQL, Unborn or Gone
    cache,     \* cache[c]: the value of the Redis key, NoUrl if absent
    ttl,       \* ttl[c]: ticks before that key expires
    saved,     \* saved[c]: its value in Redis's last snapshot on disk
    savedTtl,  \* savedTtl[c]: ticks before the saved key expires
    pc,        \* pc[r]: where the handler of slot r is
    code,      \* code[r]: the code it was asked for
    url,       \* url[r]: the URL it holds, and after a 301 the Location sent
    timer,     \* timer[r]: ticks since its current stage began
    status,    \* status[r]: the answer of the slot's last request
    excuse,    \* excuse[r]: something outside Redis has let it down
    age        \* age[c][u]: ticks since u was last c's URL, capped at Old

db == <<link, age>>
redis == <<cache, ttl, saved, savedTtl>>
handler == <<pc, code, url, timer, status>>
vars == <<link, cache, ttl, saved, savedTtl, pc, code, url, timer, status,
          excuse, age>>

\* How old a value may be when it is cached, while its key lives (a key is gone
\* with its TTL'th tick), and when it is answered.
FillAge == GrpcTimeout + RedisTimeout
KeyAge == FillAge + TTL - 1
MaxAge == KeyAge + RedisTimeout
Old == MaxAge + 1

InGrpc == {"call", "reply", "refused"}
Holding == {"reply", "set", "answer"}
Stages == {"idle", "get", "call", "reply", "refused", "set", "answer"}
Statuses == {"none", "204", "301", "500", "lost"}

Limit(p) == IF p \in InGrpc THEN GrpcTimeout ELSE RedisTimeout

Init ==
    /\ link = [c \in Codes |-> Unborn]
    /\ cache = [c \in Codes |-> NoUrl]
    /\ ttl = [c \in Codes |-> 0]
    /\ saved = [c \in Codes |-> NoUrl]
    /\ savedTtl = [c \in Codes |-> 0]
    /\ pc = [r \in Reqs |-> "idle"]
    /\ code \in [Reqs -> Codes]
    /\ url = [r \in Reqs |-> NoUrl]
    /\ timer = [r \in Reqs |-> 0]
    /\ status = [r \in Reqs |-> "none"]
    /\ excuse = [r \in Reqs |-> FALSE]
    /\ age = [c \in Codes |-> [u \in Urls |-> Old]]

-----------------------------------------------------------------------------
(* link-svc: the operations of LinksController that change a row, and the  *)
(* gRPC method that reads one.                                             *)

\* POST /links: a fresh code; the DTO refuses an empty originalUrl.
CreateLink(c, u) ==
    /\ link[c] = Unborn
    /\ u # EmptyUrl
    /\ link' = [link EXCEPT ![c] = u]
    /\ age' = [age EXCEPT ![c][u] = 0]
    /\ UNCHANGED <<redis, handler, excuse>>

\* PATCH /links/:id: originalUrl is optional, so "" passes; nothing tells the
\* redirect side.
UpdateLink(c, u) ==
    /\ link[c] \in Urls
    /\ link' = [link EXCEPT ![c] = u]
    /\ age' = [age EXCEPT ![c][u] = 0]
    /\ UNCHANGED <<redis, handler, excuse>>

\* DELETE /links/:id: softDeleteLink removes the row.
DeleteLink(c) ==
    /\ link[c] \in Urls
    /\ link' = [link EXCEPT ![c] = Gone]
    /\ excuse' = [r \in Reqs |-> excuse[r] \/ (pc[r] # "idle" /\ code[r] = c)]
    /\ UNCHANGED <<age, redis, handler>>

\* Mutant: GetLink without its check for a missing row.
ServeGetLinkUnchecked(r) ==
    /\ pc[r] = "call"
    /\ url' = [url EXCEPT ![r] = IF link[code[r]] \in Urls THEN link[code[r]] ELSE NoUrl]
    /\ pc' = [pc EXCEPT ![r] = "reply"]
    /\ UNCHANGED <<db, redis, code, timer, status, excuse>>

\* The gRPC method reads the row: the reply carries its URL, a missing row is
\* an error.
ServeGetLink(r) ==
    /\ pc[r] = "call"
    /\ \/ /\ link[code[r]] \in Urls
          /\ url' = [url EXCEPT ![r] = link[code[r]]]
          /\ pc' = [pc EXCEPT ![r] = "reply"]
       \/ /\ link[code[r]] \notin Urls
          /\ url' = url
          /\ pc' = [pc EXCEPT ![r] = "refused"]
    /\ UNCHANGED <<db, redis, code, timer, status, excuse>>

-----------------------------------------------------------------------------
(* redirect-svc: GET /:code.                                               *)

Favicon(r) ==
    /\ pc[r] = "idle"
    /\ status' = [status EXCEPT ![r] = "204"]
    /\ url' = [url EXCEPT ![r] = NoUrl]
    /\ UNCHANGED <<db, redis, pc, code, timer, excuse>>

Receive(r, c) ==
    /\ pc[r] = "idle"
    /\ pc' = [pc EXCEPT ![r] = "get"]
    /\ code' = [code EXCEPT ![r] = c]
    /\ url' = [url EXCEPT ![r] = NoUrl]
    /\ timer' = [timer EXCEPT ![r] = 0]
    /\ status' = [status EXCEPT ![r] = "none"]
    /\ excuse' = [excuse EXCEPT ![r] = link[c] \notin Urls]
    /\ UNCHANGED <<db, redis>>

\* Mutant: an empty value is a hit.
IsKey(u) == u # NoUrl

\* err == nil && cachedURL != ""
IsHit(u) == u \notin {NoUrl, EmptyUrl}

\* Mutant: a hit renews the key's TTL.
CacheHitSliding(r) ==
    /\ pc[r] = "get"
    /\ IsHit(cache[code[r]])
    /\ pc' = [pc EXCEPT ![r] = "answer"]
    /\ url' = [url EXCEPT ![r] = cache[code[r]]]
    /\ ttl' = [ttl EXCEPT ![code[r]] = TTL]
    /\ UNCHANGED <<db, cache, saved, savedTtl, code, timer, status, excuse>>

CacheHit(r) ==
    /\ pc[r] = "get"
    /\ IsHit(cache[code[r]])
    /\ pc' = [pc EXCEPT ![r] = "answer"]
    /\ url' = [url EXCEPT ![r] = cache[code[r]]]
    /\ UNCHANGED <<db, redis, code, timer, status, excuse>>

StartCall(r) ==
    /\ pc[r] = "get"
    /\ pc' = [pc EXCEPT ![r] = "call"]
    /\ timer' = [timer EXCEPT ![r] = 0]
    /\ UNCHANGED <<db, redis, code, url, status, excuse>>

\* Answers 500 whatever the error: GetLink's errors are none of the values the
\* handler's switch compares with.
Fail(r) ==
    /\ pc' = [pc EXCEPT ![r] = "idle"]
    /\ status' = [status EXCEPT ![r] = "500"]
    /\ url' = [url EXCEPT ![r] = NoUrl]
    /\ timer' = [timer EXCEPT ![r] = 0]
    /\ UNCHANGED <<db, redis, code>>

\* No usable value under the key.
CacheMiss(r) == ~IsHit(cache[code[r]]) /\ StartCall(r)

\* Mutant: an error of Redis is answered like one of GetLink.
CacheErrorFails(r) == pc[r] = "get" /\ Fail(r) /\ UNCHANGED excuse

\* Redis fails or does not answer in time.
CacheError(r) == StartCall(r)

LinkFound(r) ==
    /\ pc[r] = "reply"
    /\ pc' = [pc EXCEPT ![r] = "set"]
    /\ timer' = [timer EXCEPT ![r] = 0]
    /\ UNCHANGED <<db, redis, code, url, status, excuse>>

LinkRefused(r) ==
    /\ pc[r] = "refused"
    /\ Fail(r)
    /\ UNCHANGED excuse

\* link-svc is down, or the connection breaks under the call.
CallLost(r) ==
    /\ pc[r] \in InGrpc
    /\ Fail(r)
    /\ excuse' = [excuse EXCEPT ![r] = TRUE]

\* Mutant: GetLink without its context.WithTimeout.
NoDeadline(r) == FALSE /\ CallLost(r)

\* context.DeadlineExceeded
CallDeadline(r) == timer[r] = GrpcTimeout /\ CallLost(r)

\* Mutant: the key is written without the code in its name.
CacheSetOneKey(r) ==
    /\ pc[r] = "set"
    /\ pc' = [pc EXCEPT ![r] = "answer"]
    /\ cache' = [c \in Codes |-> url[r]]
    /\ ttl' = [c \in Codes |-> TTL]
    /\ UNCHANGED <<db, saved, savedTtl, code, url, timer, status, excuse>>

\* The result of cache.Set is ignored: the answer is the same if it fails.
CacheSet(r) ==
    /\ pc[r] = "set"
    /\ pc' = [pc EXCEPT ![r] = "answer"]
    /\ cache' = [cache EXCEPT ![code[r]] = url[r]]
    /\ ttl' = [ttl EXCEPT ![code[r]] = TTL]
    /\ UNCHANGED <<db, saved, savedTtl, code, url, timer, status, excuse>>

CacheSetError(r) ==
    /\ pc[r] = "set"
    /\ pc' = [pc EXCEPT ![r] = "answer"]
    /\ UNCHANGED <<db, redis, code, url, timer, status, excuse>>

\* 301 Moved Permanently.
Answer(r) ==
    /\ pc[r] = "answer"
    /\ pc' = [pc EXCEPT ![r] = "idle"]
    /\ status' = [status EXCEPT ![r] = "301"]
    /\ timer' = [timer EXCEPT ![r] = 0]
    /\ UNCHANGED <<db, redis, code, url, excuse>>

\* The process dies and is restarted: its requests are lost, Redis is not.
CrashRedirectSvc ==
    /\ \E r \in Reqs : pc[r] # "idle"
    /\ pc' = [r \in Reqs |-> "idle"]
    /\ status' = [r \in Reqs |-> IF pc[r] = "idle" THEN status[r] ELSE "lost"]
    /\ url' = [r \in Reqs |-> IF pc[r] = "idle" THEN url[r] ELSE NoUrl]
    /\ timer' = [r \in Reqs |-> 0]
    /\ UNCHANGED <<db, redis, code, excuse>>

-----------------------------------------------------------------------------
(* Redis: snapshots to its volume and comes back with the last one; expiry *)
(* times are absolute, so they run on while a key is only on disk.         *)

RedisSaves ==
    /\ saved' = cache
    /\ savedTtl' = ttl
    /\ UNCHANGED <<db, cache, ttl, handler, excuse>>

\* Mutant: a restart gives every restored key its whole TTL again.
RestartRenews ==
    /\ cache' = saved
    /\ ttl' = [c \in Codes |-> IF saved[c] = NoUrl THEN 0 ELSE TTL]
    /\ UNCHANGED <<db, saved, savedTtl, handler, excuse>>

RedisRestarts ==
    /\ cache' = saved
    /\ ttl' = savedTtl
    /\ UNCHANGED <<db, saved, savedTtl, handler, excuse>>

-----------------------------------------------------------------------------
Less(n) == IF n > 0 THEN n - 1 ELSE 0
AtMost(m, n) == IF n < m THEN n ELSE m
Live(key, left) == [c \in Codes |-> IF left[c] > 1 THEN key[c] ELSE NoUrl]

InTime(r) == pc[r] = "idle" \/ timer[r] < Limit(pc[r])

Tick ==
    /\ \A r \in Reqs : InTime(r)
    /\ timer' = [r \in Reqs |-> IF pc[r] = "idle" THEN 0 ELSE timer[r] + 1]
    /\ cache' = Live(cache, ttl)
    /\ ttl' = [c \in Codes |-> Less(ttl[c])]
    /\ saved' = Live(saved, savedTtl)
    /\ savedTtl' = [c \in Codes |-> Less(savedTtl[c])]
    /\ age' = [c \in Codes |-> [u \in Urls |->
                 IF link[c] = u THEN 0 ELSE AtMost(Old, age[c][u] + 1)]]
    /\ UNCHANGED <<link, pc, code, url, status, excuse>>

LinkSvc ==
    \/ \E c \in Codes, u \in Urls : CreateLink(c, u) \/ UpdateLink(c, u)
    \/ \E c \in Codes : DeleteLink(c)
    \/ \E r \in Reqs : ServeGetLink(r)

\* The steps the handler of slot r takes by itself.
Proceed(r) ==
    \/ CacheHit(r) \/ CacheMiss(r) \/ CacheError(r)
    \/ LinkFound(r) \/ LinkRefused(r) \/ CallDeadline(r)
    \/ CacheSet(r) \/ CacheSetError(r)
    \/ Answer(r)

RedirectSvc ==
    \/ \E r \in Reqs : \/ Proceed(r) \/ CallLost(r) \/ Favicon(r)
                       \/ \E c \in Codes : Receive(r, c)
    \/ CrashRedirectSvc

Redis == RedisSaves \/ RedisRestarts

Next == LinkSvc \/ RedirectSvc \/ Redis \/ Tick

Spec == Init /\ [][Next]_vars

-----------------------------------------------------------------------------
(* Properties.                                                             *)

MaybeUrl == Urls \cup {NoUrl}

\* Type invariant; a request past the reply always holds a URL.
TypeOK ==
    /\ link \in [Codes -> Urls \cup {Unborn, Gone}]
    /\ cache \in [Codes -> MaybeUrl] /\ ttl \in [Codes -> 0..TTL]
    /\ saved \in [Codes -> MaybeUrl] /\ savedTtl \in [Codes -> 0..TTL]
    /\ pc \in [Reqs -> Stages]
    /\ code \in [Reqs -> Codes]
    /\ url \in [Reqs -> MaybeUrl]
    /\ timer \in [Reqs -> 0..(GrpcTimeout + RedisTimeout)]
    /\ status \in [Reqs -> Statuses]
    /\ excuse \in [Reqs -> BOOLEAN]
    /\ age \in [Codes -> [Urls -> 0..Old]]
    /\ \A r \in Reqs : /\ pc[r] \in Holding => url[r] \in Urls
                       /\ pc[r] # "idle" => timer[r] <= Limit(pc[r])

\* No redirect is sent to a URL the link left more than MaxAge ticks ago,
\* whatever the order of the reply, the writes, the cache fill, its expiry and
\* a Redis restart: an update or a delete takes effect within the TTL plus the
\* time limits of the request that filled the key and of the one that reads
\* it, although nothing ever invalidates a key.
BoundedStaleness ==
    \A r \in Reqs : pc[r] = "answer" => age[code[r]][url[r]] <= MaxAge

\* The inductive form: a value's age is bounded at every stop on its way from
\* the row to the client.
EntryFresh(key, left) ==
    \A c \in Codes : key[c] # NoUrl =>
        left[c] > 0 /\ age[c][key[c]] + left[c] <= KeyAge + 1
HeldFresh(r) ==
    /\ pc[r] = "reply" => age[code[r]][url[r]] <= timer[r]
    /\ pc[r] = "set" => age[code[r]][url[r]] <= GrpcTimeout + timer[r]
    /\ pc[r] = "answer" => age[code[r]][url[r]] <= KeyAge + timer[r]
StalenessInv ==
    /\ \A c \in Codes : link[c] \in Urls => age[c][link[c]] = 0
    /\ EntryFresh(cache, ttl) /\ EntryFresh(saved, savedTtl)
    /\ \A r \in Reqs : HeldFresh(r)

\* A redirect is refused only if its own gRPC call was lost or its link did
\* not exist at some moment of the request: faults of Redis, stale keys and
\* races with updates never cost an answer.
FailuresAreExcused == \A r \in Reqs : status[r] = "500" => excuse[r]

\* An empty URL is stored like any other and then looks like a missing key: a redirect
\* to it is never served from the cache, so it ends within the time limits of the
\* request after the link has got another URL, and does not last for the TTL.
EmptyIsNeverStale ==
    \A r \in Reqs : pc[r] = "answer" /\ url[r] = EmptyUrl =>
        age[code[r]][EmptyUrl] <= FillAge

\* The redirect path is a register with stale reads: it learns only current
\* URLs and answers only what it learned, so a replaced URL or a deleted link
\* that has dropped out of the key, the snapshot and the requests in flight
\* never comes back.
Held(c) == {r \in Reqs : pc[r] \in Holding /\ code[r] = c}
Remembered(c) == {u \in Urls : \/ u = cache[c] \/ u = saved[c]
                               \/ \E r \in Held(c) : u = url[r]}
Asking(r) == IF pc[r] = "idle" THEN NoCode ELSE code[r]
LastAnswer(r) == <<status[r], IF pc[r] = "idle" THEN url[r] ELSE NoUrl>>

SR == INSTANCE StaleRead WITH
        remembered <- [c \in Codes |-> Remembered(c)],
        asking <- [r \in Reqs |-> Asking(r)],
        answer <- [r \in Reqs |-> LastAnswer(r)]

ImplementsStaleRead == SR!Spec

\* Every request is answered or lost with the process, even if link-svc never
\* replies: the gRPC deadline ends the call.
EveryRequestEnds == \A r \in Reqs : pc[r] # "idle" ~> pc[r] = "idle"

\* Once a link stops changing, the cache forgets every other URL for good,
\* however often the stale key is read.
EventuallyFresh ==
    \A c \in Codes : \A v \in Urls \cup {Gone} :
        <>[](link[c] = v) => <>[](cache[c] \in {NoUrl, v})
=============================================================================
