----------------------------- MODULE LinkProcess -----------------------------
(***************************************************************************)
(* link-svc from start to serving: the settings, the connection to         *)
(* PostgreSQL, the gRPC server, Redis, the HTTP server, the restarts of    *)
(* Docker, and registrations while it serves.  PostgreSQL stops and starts *)
(* on its own, in the middle of anything.                                  *)
(***************************************************************************)
EXTENDS Registration

Keys == {"APP_PORT", "GRPC_PORT", "DB_AUTO_LOAD_ENTITIES",
         "AUTH_SESSION_ENABLED", "CACHE_ENABLED", "SWAGGER_ENABLE"}

CONSTANTS
    Envs,      \* environments the operator may give it
    Attempts   \* connections to PostgreSQL tried before giving up (TypeORM: 10)

ASSUME LinkProcessAssumption ==
    /\ Envs \subseteq [Keys -> {"unset", "fine", "junk"}]
    /\ Attempts \in Nat \ {0}

VARIABLES
    env,    \* env[k]: the variable k is "unset", "fine" or "junk"
    run,    \* how far the process has come, or "exited" or "stopped"
    tries,  \* attempts to connect
    dbUp    \* PostgreSQL accepts connections

process == <<env, run, tries, dbUp>>
allVars == <<vars, process>>

-----------------------------------------------------------------------------
(* The settings.  An empty variable counts as one that is not set.         *)

EnvValue(k, default, parsed) ==
    CASE env[k] = "fine" -> "value"
      [] env[k] = "junk" -> parsed
      [] OTHER -> default

\* Number() does not throw: junk becomes NaN.
EnvNumber(k) == EnvValue(k, "undefined", "NaN")
EnvBoolean(k, default) == EnvValue(k, default, "throws")

AppConfig == [port |-> EnvNumber("APP_PORT")]
GrpcConfig == [port |-> EnvNumber("GRPC_PORT")]
DatabaseConfig == [autoLoadEntities |-> EnvBoolean("DB_AUTO_LOAD_ENTITIES", "true")]
AuthConfig == [sessionEnabled |-> EnvBoolean("AUTH_SESSION_ENABLED", "undefined")]
CacheConfig == [enabled |-> EnvBoolean("CACHE_ENABLED", "undefined")]
SwaggerConfig == [enable |-> EnvBoolean("SWAGGER_ENABLE", "false")]

\* The Redis settings hold no boolean, and a number never throws: they always load.
Loads ==
    \A c \in {AuthConfig, AppConfig, GrpcConfig, CacheConfig, DatabaseConfig,
               SwaggerConfig} :
        \A s \in DOMAIN c : c[s] # "throws"

\* HTTP listens on any free port when none is set; gRPC needs one.  (Without a good
\* DB_PORT the driver takes the one PostgreSQL has.)
GrpcBinds == GrpcConfig.port = "value"
HttpBinds == AppConfig.port # "NaN"

Usable == Loads /\ GrpcBinds /\ HttpBinds

-----------------------------------------------------------------------------
(* bootstrap().  Whatever fails in it ends the process with code 1.        *)

Init2 ==
    /\ Init
    /\ env \in Envs
    /\ run = "settings" /\ tries = 0 /\ dbUp \in BOOLEAN

\* Mutant: a failure is logged, and the event loop keeps the process alive.
PassLogged(from, to, ok) ==
    /\ run = from
    /\ run' = IF ok THEN to ELSE "failed"
    /\ tries' = 0
    /\ UNCHANGED <<vars, env, dbUp>>

Pass(from, to, ok) ==
    /\ run = from
    /\ run' = IF ok THEN to ELSE "exited"
    /\ tries' = 0
    /\ UNCHANGED <<vars, env, dbUp>>

LoadSettings == Pass("settings", "database", Loads)

\* TypeORM's data source: a refused connection is tried again.
ConnectDb ==
    \/ dbUp /\ Pass("database", "grpc", TRUE)
    \/ ~dbUp /\ tries + 1 = Attempts /\ Pass("database", "grpc", FALSE)
    \/ /\ ~dbUp /\ tries + 1 < Attempts /\ run = "database"
       /\ tries' = tries + 1
       /\ UNCHANGED <<vars, env, run, dbUp>>

StartGrpc == Pass("grpc", "redis", GrpcBinds)

\* RedisService.connect creates its clients and does not wait for Redis.
ConnectRedis == Pass("redis", "http", TRUE)

ListenHttp == Pass("http", "serving", HttpBinds)

Boot == LoadSettings \/ ConnectDb \/ StartGrpc \/ ConnectRedis \/ ListenHttp

-----------------------------------------------------------------------------
(* What ends the process, and what starts it again.                        *)

\* A crash.  Docker restarts what exits.
Crash ==
    /\ run \notin {"exited", "stopped"}
    /\ Die
    /\ run' = "exited" /\ tries' = 0
    /\ UNCHANGED <<env, dbUp>>

\* docker stop: without shutdown hooks the signal ends it like a crash.
Stop ==
    /\ run # "stopped"
    /\ Die
    /\ run' = "stopped" /\ tries' = 0
    /\ UNCHANGED <<env, dbUp>>

\* The operator starts it, with other settings perhaps.
Deploy ==
    /\ run = "stopped"
    /\ run' = "settings"
    /\ env' \in Envs
    /\ UNCHANGED <<vars, tries, dbUp>>

Restart == Pass("exited", "settings", TRUE)

\* Every connection breaks, every transaction ends.  A COMMIT carried out whose
\* answer is lost is CommitFails before this step.
DbStops ==
    /\ dbUp /\ dbUp' = FALSE
    /\ pending' = [k \in Entries |-> NoReq]
    /\ out' = {}
    /\ UNCHANGED <<row, queue, pc, next, body, answer, env, run, tries>>

DbStarts ==
    /\ ~dbUp /\ dbUp' = TRUE
    /\ UNCHANGED <<vars, env, run, tries>>

-----------------------------------------------------------------------------
Accept(r) ==
    /\ run = "serving"
    /\ \E l \in Logins, n \in Usernames : Register(r, l, n)
    /\ UNCHANGED process

\* While PostgreSQL is down no connection can be made.
Work(r) ==
    /\ run = "serving"
    /\ \/ Advance(r) /\ (dbUp \/ out' \subseteq out)
       \/ ~dbUp /\ ConnectFails(r)
    /\ UNCHANGED process

Trouble(r) == run = "serving" /\ Fault(r) /\ UNCHANGED process

Abort(l) == AbortOrphan(l) /\ UNCHANGED process

Next2 ==
    \/ Boot \/ Crash \/ Stop \/ Deploy \/ Restart \/ DbStops \/ DbStarts
    \/ \E r \in Reqs : Accept(r) \/ Work(r) \/ Trouble(r)
    \/ \E l \in Logins : Abort(l)

\* bootstrap, Docker, the driver and PostgreSQL do what they can.  PostgreSQL wakes an
\* insert each time the key it waits for is free again: it does not find it taken for ever.
Fairness ==
    /\ WF_allVars(Boot) /\ WF_allVars(Restart)
    /\ \A r \in Reqs : /\ WF_allVars(Work(r))
                      /\ SF_allVars(Work(r) /\ (Insert(r) \/ InsertUsername(r)))
    /\ \A l \in Logins : WF_allVars(Abort(l))

FairSpec == Init2 /\ [][Next2]_allVars /\ Fairness

-----------------------------------------------------------------------------
\* Type invariant.
ProcessTypeOK ==
    /\ TypeOK
    /\ env \in Envs
    /\ run \in {"settings", "database", "grpc", "redis", "http", "serving", "exited",
               "stopped"}
    /\ tries \in 0..(Attempts - 1)
    /\ dbUp \in BOOLEAN

\* Whatever PostgreSQL and the settings went through, once PostgreSQL stays up, the
\* settings are usable and nobody ends the process any more, link-svc serves.
KeepsStarting ==
    <>[](dbUp /\ Usable) /\ <>[][~Crash /\ ~Stop]_allVars /\ <>[](run # "stopped")
        => <>[](run = "serving")
=============================================================================
