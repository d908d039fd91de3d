--------------------------- MODULE RedirectProcess ---------------------------
(***************************************************************************)
(* The redirect-svc process around the handlers of Redirect: the goroutine *)
(* that listens, the one that waits for a signal and shuts the server and  *)
(* its clients down, and the container that starts it again.               *)
(*                                                                         *)
(* From Fiber: Shutdown closes the listener, ends the context of every     *)
(* request and waits for the open connections; before Listen it does       *)
(* nothing.  cut is auxiliary.                                             *)
(***************************************************************************)
EXTENDS Redirect

VARIABLES
    run,      \* where Run and Shutdown are; "down" when the process has ended
    listens,  \* the listener: "no" (not yet), "yes" or "closed"
    cut       \* cut[r]: the process itself ended the call of the last request

process == <<run, listens, cut>>
pvars == <<vars, run, listens, cut>>

Runs == {"serving", "draining", "closeGrpc", "closeCache", "exit", "down"}
Closing == {"closeGrpc", "closeCache", "exit"}
GrpcOpen == run \in {"serving", "draining", "closeGrpc"}
CacheOpen == GrpcOpen \/ run = "closeCache"
Quiet == \A r \in Reqs : pc[r] = "idle"

PInit ==
    /\ Init
    /\ run = "serving"
    /\ listens = "no"
    /\ cut = [r \in Reqs |-> FALSE]

-----------------------------------------------------------------------------
(* The goroutine that serves HTTP.                                         *)

Listen ==
    /\ run # "down" /\ listens = "no"
    /\ listens' = "yes"
    /\ UNCHANGED <<vars, run, cut>>

\* Run returns the error and main ends the process.
ListenFails ==
    /\ run = "serving" /\ listens = "no"
    /\ run' = "down"
    /\ UNCHANGED <<vars, listens, cut>>

Accept(r) ==
    /\ listens = "yes" /\ run # "down"
    /\ Favicon(r) \/ \E c \in Codes : Receive(r, c)
    /\ cut' = [cut EXCEPT ![r] = FALSE]
    /\ UNCHANGED <<run, listens>>

\* What a handler does needs its clients; a closed one only returns errors.
Handle(r) ==
    /\ \/ CacheOpen /\ (CacheHit(r) \/ CacheMiss(r) \/ CacheSet(r))
       \/ CacheError(r) \/ CacheSetError(r)
       \/ LinkFound(r) \/ LinkRefused(r) \/ CallDeadline(r)
       \/ Answer(r)
    /\ UNCHANGED process

Serve(r) == GrpcOpen /\ (ServeGetLink(r) \/ CallLost(r)) /\ UNCHANGED process

\* The context of the request has ended or its client is closed.
CallCut(r) ==
    /\ run = "draining" \/ ~GrpcOpen
    /\ CallLost(r)
    /\ cut' = [cut EXCEPT ![r] = TRUE]
    /\ UNCHANGED <<run, listens>>

-----------------------------------------------------------------------------
(* The goroutine of Run.                                                   *)

\* Mutant: the listener stays open.
SignalOnly ==
    /\ run = "serving"
    /\ run' = IF listens = "yes" THEN "draining" ELSE "closeGrpc"
    /\ UNCHANGED <<vars, listens, cut>>

\* SIGINT or SIGTERM.  A second one finds nobody reading the channel.
Signal ==
    /\ run = "serving"
    /\ \/ listens = "yes" /\ run' = "draining" /\ listens' = "closed"
       \/ listens = "no" /\ run' = "closeGrpc" /\ listens' = listens
    /\ UNCHANGED <<vars, cut>>

\* Mutant: the server's Shutdown is not waited for.
DrainedAtOnce ==
    /\ run = "draining"
    /\ run' = "closeGrpc"
    /\ UNCHANGED <<vars, listens, cut>>

Drained ==
    /\ run = "draining" /\ Quiet
    /\ run' = "closeGrpc"
    /\ UNCHANGED <<vars, listens, cut>>

Close ==
    /\ \/ run = "closeGrpc" /\ run' = "closeCache"
       \/ run = "closeCache" /\ run' = "exit"
    /\ UNCHANGED <<vars, listens, cut>>

\* The process ends, and with it every request it still has.
Ends ==
    /\ run' = "down"
    /\ IF Quiet THEN UNCHANGED vars ELSE CrashRedirectSvc
    /\ UNCHANGED <<listens, cut>>

Exit == run = "exit" /\ Ends
Crash == run # "down" /\ Ends

\* restart: unless-stopped
Restart ==
    /\ run = "down"
    /\ run' = "serving" /\ listens' = "no"
    /\ UNCHANGED <<vars, cut>>

Main == Drained \/ Close \/ Exit

-----------------------------------------------------------------------------
\* What goes on whether the process is up or not.
Outside ==
    /\ \/ \E c \in Codes, u \in Urls : CreateLink(c, u) \/ UpdateLink(c, u)
       \/ \E c \in Codes : DeleteLink(c)
       \/ Redis \/ Tick
    /\ UNCHANGED process

PNext ==
    \/ Outside
    \/ \E r \in Reqs : Accept(r) \/ Handle(r) \/ Serve(r) \/ CallCut(r)
    \/ Listen \/ ListenFails \/ Signal \/ Main \/ Crash \/ Restart

PSpec == PInit /\ [][PNext]_pvars

\* Time passes and every goroutine that can go on does; nobody is obliged to
\* send a signal, to answer a call or to start the process again.
PFairness ==
    /\ WF_pvars(Tick /\ UNCHANGED process)
    /\ \A r \in Reqs : WF_pvars(Handle(r))
    /\ WF_pvars(Listen \/ ListenFails)
    /\ WF_pvars(Main)

PFairSpec == PSpec /\ PFairness

-----------------------------------------------------------------------------
(* Properties.                                                             *)

\* Once Shutdown has waited for the server, no request is left to find the gRPC
\* client or the cache closed; only a signal that comes before Listen lets the
\* late listener serve requests with closed clients.
ClosedWhenQuiet == run \in Closing /\ ~Quiet => listens = "yes"

\* The inductive form, with the types: a request runs only in a process that has
\* listened.
ProcessInv ==
    /\ run \in Runs
    /\ listens \in {"no", "yes", "closed"}
    /\ cut \in [Reqs -> BOOLEAN]
    /\ run = "down" => Quiet
    /\ run = "serving" => listens # "closed"
    /\ run = "draining" => listens = "closed"
    /\ listens = "no" \/ (listens = "closed" /\ run # "draining") => Quiet

\* A shutdown that has begun ends, although it waits without a time limit for
\* requests that wait for link-svc: the deadline of GetLink bounds them.
ShutdownEnds == run \in {"draining"} \cup Closing ~> run = "down"

\* The shutdown is graceful (app.go:121): it fails no request in progress.
ShutdownIsGraceful == \A r \in Reqs : status[r] = "500" => ~cut[r]
=============================================================================
