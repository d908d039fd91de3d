------------------------ MODULE RedirectProcessProofs ------------------------
(* Proofs about RedirectProcess, for any codes, URLs, requests and limits. *)
EXTENDS RedirectProcess, RedirectProofs

\* A step of the process is a step of the redirect path or leaves it alone.
LEMMA StepIsRedirect == [PNext]_pvars => [Next]_vars
<1> SUFFICES ASSUME [PNext]_pvars PROVE [Next]_vars
  OBVIOUS
<1>1. CASE Outside
  BY <1>1 DEF Outside, Next, LinkSvc
<1>2. ASSUME NEW r \in Reqs, Accept(r) PROVE Next
  BY <1>2 DEF Accept, Next, RedirectSvc
<1>3. ASSUME NEW r \in Reqs, Handle(r) PROVE Next
  <2>1. Proceed(r)
    BY <1>3 DEF Handle, Proceed
  <2> QED
    BY <2>1 DEF Next, RedirectSvc
<1>4. ASSUME NEW r \in Reqs, Serve(r) \/ CallCut(r) PROVE Next
  BY <1>4 DEF Serve, CallCut, Next, LinkSvc, RedirectSvc
<1>5. CASE Listen \/ ListenFails \/ Signal \/ Drained \/ Close \/ Restart
  BY <1>5 DEF Listen, ListenFails, Signal, Drained, Close, Restart
<1>6. CASE Ends
  BY <1>6 DEF Ends, Next, RedirectSvc
<1>7. CASE UNCHANGED pvars
  BY <1>7 DEF pvars
<1> QED
  BY <1>1, <1>2, <1>3, <1>4, <1>5, <1>6, <1>7 DEF PNext, Main, Exit, Crash

\* The process implements the redirect path: it starts, serves, drains, closes
\* and restarts only by its steps.
THEOREM ProcessImplementsRedirect == PSpec => Spec
<1>1. PInit => Init
  BY DEF PInit
<1> QED
  BY <1>1, StepIsRedirect, PTL DEF PSpec, Spec

\* So no answer of the process is staler than MaxAge, whatever its life cycle.
THEOREM ProcessAnswersAreFresh == PSpec => []BoundedStaleness
BY ProcessImplementsRedirect, AnswersAreFresh, PTL

-----------------------------------------------------------------------------
\* A request starts only in Accept.
LEMMA NoRequestStarts ==
    ASSUME Quiet, [PNext]_pvars, ~(\E r \in Reqs : Accept(r))
    PROVE  Quiet'
<1> USE DEF Quiet, db, redis, handler
<1>1. CASE Outside
  BY <1>1 DEF Outside, CreateLink, UpdateLink, DeleteLink, Redis, RedisSaves,
              RedisRestarts, Tick
<1>2. ASSUME NEW r \in Reqs, Handle(r) PROVE FALSE
  BY <1>2 DEF Handle, CacheHit, CacheMiss, CacheSet, CacheError, CacheSetError, StartCall,
              LinkFound, LinkRefused, CallDeadline, CallLost, Answer, InGrpc
<1>3. ASSUME NEW r \in Reqs, Serve(r) \/ CallCut(r) PROVE FALSE
  BY <1>3 DEF Serve, CallCut, ServeGetLink, CallLost, InGrpc
<1>4. CASE Listen \/ ListenFails \/ Signal \/ Drained \/ Close \/ Restart \/ Ends
          \/ UNCHANGED pvars
  BY <1>4 DEF Listen, ListenFails, Signal, Drained, Close, Restart, Ends, pvars, vars
<1> QED
  BY <1>1, <1>2, <1>3, <1>4 DEF PNext, Main, Exit, Crash

LEMMA ProcessStep == ProcessInv /\ [PNext]_pvars => ProcessInv'
<1> SUFFICES ASSUME ProcessInv, [PNext]_pvars PROVE ProcessInv'
  OBVIOUS
<1> USE DEF ProcessInv, Runs, Closing
<1>1. ASSUME NEW r \in Reqs, Accept(r) PROVE ProcessInv'
  BY <1>1 DEF Accept
<1>2. CASE UNCHANGED process /\ ~(\E r \in Reqs : Accept(r))
  BY <1>2, NoRequestStarts DEF process
<1>3. CASE UNCHANGED vars /\ (Listen \/ ListenFails \/ Signal \/ Drained \/ Close \/ Restart)
  <2>1. Quiet' <=> Quiet
    BY <1>3 DEF vars, Quiet
  <2> QED
    BY <1>3, <2>1 DEF Listen, ListenFails, Signal, Drained, Close, Restart
<1>4. CASE Ends
  <2>1. Quiet'
    BY <1>4 DEF Ends, CrashRedirectSvc, Quiet, vars
  <2> QED
    BY <1>4, <2>1 DEF Ends
<1>5. ASSUME NEW r \in Reqs, CallCut(r), ~(\E q \in Reqs : Accept(q))
      PROVE  ProcessInv'
  BY <1>5, NoRequestStarts DEF CallCut
<1>6. CASE UNCHANGED pvars
  BY <1>6 DEF pvars, vars, Quiet
<1>7. Listen \/ ListenFails \/ Signal \/ Drained \/ Close \/ Restart => UNCHANGED vars
  BY DEF Listen, ListenFails, Signal, Drained, Close, Restart
<1>8. Outside => UNCHANGED process
  BY DEF Outside
<1>9. \A r \in Reqs : Handle(r) \/ Serve(r) => UNCHANGED process
  BY DEF Handle, Serve
<1> QED
  BY <1>1, <1>2, <1>3, <1>4, <1>5, <1>6, <1>7, <1>8, <1>9 DEF PNext, Main, Exit, Crash

\* A request runs only in a process that has listened: the inductive invariant.
THEOREM ProcessInvariant == PSpec => []ProcessInv
<1>1. PInit => ProcessInv
  BY DEF PInit, Init, ProcessInv, Runs, Quiet, Closing
<1> QED
  BY <1>1, ProcessStep, PTL DEF PSpec

\* Clients are closed only after the last request, unless the signal came before
\* the process listened.
THEOREM ClosesWhenQuiet == PSpec => []ClosedWhenQuiet
<1>1. ProcessInv => ClosedWhenQuiet
  BY DEF ProcessInv, ClosedWhenQuiet, Closing
<1> QED
  BY <1>1, ProcessInvariant, PTL
=============================================================================
