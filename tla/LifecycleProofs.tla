-------------------------- MODULE LifecycleProofs --------------------------
(***************************************************************************)
(* Theorems about Lifecycle, for any number of request goroutines and any   *)
(* set of environments.                                                     *)
(***************************************************************************)
EXTENDS Lifecycle, TLAPS

\* main has passed the check.
PastLimiter == {"New", "jwks", "listen", "WaitForSignal", "exit 0"} \cup HookNames

PastNew == PastLimiter \ {"New"}

PastKeys == PastNew \ {"jwks"}

\* What the checks main has passed leave behind.
Wired ==
    /\ main \in {"NewClient", "limiter", "New"} => env.jwtSecret \/ env.dev
    /\ main \in {"limiter"} \cup PastLimiter => conn # "none"
    /\ main \in PastLimiter => limiter # "none" /\ (~env.dev => limiter = "redis")
    /\ main \in PastNew => secret
    /\ main \in PastKeys => (~env.dev => jwks)

\* The servers are started by StartServers alone, the last step of the start-up.
StartedLast == main \notin PastKeys \ {"listen"} => \A s \in Servers : server[s] = "off"

\* No request is in flight before the edge listens.
Quiet == server["http"] \in {"off", "starting", "failed"} => InFlight("http") = {}

\* How far the shutdown has come.
Drained ==
    /\ main \in {"healthServer.Shutdown", "authClient.Close", "exit 0"} /\ ~timedOut /\ ~late =>
          InFlight("http") = {} /\ server["http"] \notin {"listening", "draining"}
    /\ server["http"] = "closed" => main \in {"healthServer.Shutdown", "authClient.Close", "exit 0"}
    /\ conn = "closed" => main = "exit 0"
    /\ server["health"] = "closed" => main \in {"authClient.Close", "exit 0"}
    /\ conn # "closed" => \A p \in Procs : call[p] # "cut"

IInv == TypeOK /\ Wired /\ StartedLast /\ Quiet /\ Drained

-----------------------------------------------------------------------------

\* The hooks, spelled out.
LEMMA HookFacts ==
    /\ HookNames = {"srv.Shutdown", "healthServer.Shutdown", "authClient.Close"}
    /\ Hooks[1] = "srv.Shutdown"
    /\ AfterHook("srv.Shutdown") = "healthServer.Shutdown"
    /\ AfterHook("healthServer.Shutdown") = "authClient.Close"
    /\ AfterHook("authClient.Close") = "exit 0"
PROOF
  <1>1. /\ DOMAIN Hooks = 1..3 /\ Len(Hooks) = 3
        /\ Hooks[1] = "srv.Shutdown" /\ Hooks[2] = "healthServer.Shutdown"
        /\ Hooks[3] = "authClient.Close"
    BY DEF Hooks
  <1> HIDE DEF Hooks
  <1>2. \A i \in 1..3 : i = 1 \/ i = 2 \/ i = 3
    OBVIOUS
  <1>3. HookNames = {"srv.Shutdown", "healthServer.Shutdown", "authClient.Close"}
    BY <1>1, <1>2 DEF HookNames
  <1>4. /\ (CHOOSE j \in DOMAIN Hooks : Hooks[j] = "srv.Shutdown") = 1
        /\ (CHOOSE j \in DOMAIN Hooks : Hooks[j] = "healthServer.Shutdown") = 2
        /\ (CHOOSE j \in DOMAIN Hooks : Hooks[j] = "authClient.Close") = 3
    BY <1>1, <1>2
  <1>5. AfterHook("srv.Shutdown") = "healthServer.Shutdown"
    BY <1>1, <1>4 DEF AfterHook
  <1>6. AfterHook("healthServer.Shutdown") = "authClient.Close"
    BY <1>1, <1>4 DEF AfterHook
  <1>7. AfterHook("authClient.Close") = "exit 0"
    BY <1>1, <1>4 DEF AfterHook
  <1> QED BY <1>1, <1>3, <1>5, <1>6, <1>7

\* The process starts with nothing wired and nothing started.
LEMMA InitIInv == Init => IInv
  BY HookFacts DEF Init, IInv, TypeOK, Wired, StartedLast, Quiet, Drained, InFlight, Servers,
     Startup, PastKeys, PastNew, PastLimiter

\* A step of the start-up keeps the invariant.
LEMMA StartupIInv ==
    ASSUME IInv,
           Configure \/ CheckSecret \/ NewClient \/ WireLimiter \/ New \/ PublishKeys \/ StartServers
    PROVE  IInv'
PROOF
  <1> USE HookFacts DEF PastKeys, PastNew, PastLimiter, InFlight, Startup, Exits, Servers
  <1>0. env \in Env
    BY EnvsAssumption DEF IInv, TypeOK
  <1>1. TypeOK'
    <2>1. CASE Configure \/ CheckSecret \/ StartServers
      BY <2>1 DEF IInv, TypeOK, Configure, CheckSecret, StartServers, Check, outside, wiring
    <2>2. CASE NewClient
      BY <2>2 DEF IInv, TypeOK, NewClient, Check, outside
    <2>3. CASE WireLimiter
      BY <2>3 DEF IInv, TypeOK, WireLimiter, Check, outside
    <2>4. CASE New
      <3>1. (env.jwtSecret \/ env.dev) \in BOOLEAN
        OBVIOUS
      <3> QED BY <2>4, <3>1 DEF IInv, TypeOK, New, Check, outside
    <2>5. CASE PublishKeys
      <3>1. (env.keysDir = "good") \in BOOLEAN
        OBVIOUS
      <3> QED BY <2>5, <3>1 DEF IInv, TypeOK, PublishKeys, Check, outside
    <2> QED BY <2>1, <2>2, <2>3, <2>4, <2>5
  <1>2. Wired'
    <2>1. CASE Configure \/ CheckSecret \/ StartServers
      BY <2>1 DEF IInv, TypeOK, Wired, Configure, CheckSecret, StartServers, Check, outside, wiring
    <2>2. CASE NewClient
      BY <2>2 DEF IInv, TypeOK, Wired, NewClient, Check, outside
    <2>3. CASE WireLimiter
      BY <2>3 DEF IInv, TypeOK, Wired, WireLimiter, Check, outside
    <2>4. CASE New
      <3>1. env.jwtSecret \/ env.dev
        BY <2>4 DEF IInv, Wired, New, Check
      <3>2. secret' /\ main' = "jwks" /\ UNCHANGED <<env, limiter, conn>>
        BY <2>4, <3>1 DEF New, Check, outside
      <3>3. main = "New"
        BY <2>4 DEF New, Check
      <3> QED BY <3>2, <3>3 DEF IInv, Wired
    <2>5. CASE PublishKeys
      BY <2>5 DEF IInv, TypeOK, Wired, PublishKeys, Check, outside
    <2> QED BY <2>1, <2>2, <2>3, <2>4, <2>5
  <1>3. StartedLast'
    BY DEF IInv, TypeOK, StartedLast, Configure, CheckSecret, NewClient, WireLimiter, New, PublishKeys,
       StartServers, Check, outside, wiring
  <1>4. Quiet'
    BY DEF IInv, TypeOK, StartedLast, Quiet, Configure, CheckSecret, NewClient, WireLimiter, New,
       PublishKeys, StartServers, Check, outside, wiring
  <1>5. Drained'
    BY DEF IInv, TypeOK, StartedLast, Drained, Configure, CheckSecret, NewClient, WireLimiter, New,
       PublishKeys, StartServers, Check, outside, wiring
  <1> QED BY <1>1, <1>2, <1>3, <1>4, <1>5 DEF IInv

\* A listener that comes up or fails keeps it; one that comes up after srv.Shutdown
\* has returned is late.
LEMMA ListenIInv ==
    ASSUME IInv, NEW s \in Servers, Listen(s)
    PROVE  IInv'
PROOF
  <1> USE HookFacts DEF PastKeys, PastNew, PastLimiter, InFlight, Exits, Servers, Running
  <1>1. TypeOK'
    BY DEF IInv, TypeOK, Listen, wiring
  <1>2. Wired'
    BY DEF IInv, TypeOK, Wired, Listen, wiring
  <1>3. StartedLast'
    BY DEF IInv, TypeOK, StartedLast, Listen, wiring
  <1>4. Quiet'
    BY DEF IInv, TypeOK, Quiet, Listen, wiring
  <1>5. Drained'
    BY DEF IInv, TypeOK, Drained, Quiet, Listen, wiring, AfterEdgeHook
  <1> QED BY <1>1, <1>2, <1>3, <1>4, <1>5 DEF IInv

\* A request keeps it: none is accepted once the edge is drained.
LEMMA RequestIInv ==
    ASSUME IInv, NEW p \in Procs, Request(p)
    PROVE  IInv'
PROOF
  <1> USE HookFacts DEF InFlight, Running, Exits, Request, Accept, Respond, CallAuth, AuthReply
  <1>0. UNCHANGED <<env, main, wiring, server, timedOut, late>> /\ main \notin Exits
    OBVIOUS
  <1>1. TypeOK'
    BY <1>0 DEF IInv, TypeOK, wiring
  <1>2. Wired' /\ StartedLast'
    BY <1>0 DEF IInv, Wired, StartedLast, wiring
  <1>3. Quiet'
    BY <1>0 DEF IInv, TypeOK, Quiet, wiring
  <1>4. server["http"] = "listening" \/ InFlight("http") # {} => conn # "none"
    BY DEF IInv, TypeOK, Quiet, StartedLast, Wired, PastKeys, PastNew, PastLimiter, Servers
  <1>5. Drained'
    BY <1>0, <1>4 DEF IInv, TypeOK, Drained, wiring
  <1> QED BY <1>1, <1>2, <1>3, <1>5 DEF IInv

\* A hook that drains a server keeps it: before the deadline srv.Shutdown returns
\* only when nothing is in flight.
LEMMA ShutdownIInv ==
    ASSUME IInv, Shutdown("http", "srv.Shutdown") \/ Shutdown("health", "healthServer.Shutdown")
    PROVE  IInv'
PROOF
  <1> USE HookFacts DEF PastKeys, PastNew, PastLimiter, InFlight, Servers, Shutdown, BeginDrain, EndDrain
  <1>1. TypeOK'
    BY DEF IInv, TypeOK, wiring
  <1>2. Wired'
    BY DEF IInv, TypeOK, Wired, wiring
  <1>3. StartedLast'
    BY DEF IInv, TypeOK, StartedLast, wiring
  <1>4. Quiet'
    BY DEF IInv, TypeOK, Quiet, wiring
  <1>5. Drained'
    BY DEF IInv, TypeOK, Drained, Quiet, wiring
  <1> QED BY <1>1, <1>2, <1>3, <1>4, <1>5 DEF IInv

\* Closing the connection, a signal and the deadline keep it.
LEMMA CloseIInv ==
    ASSUME IInv, Close \/ Signal \/ Deadline
    PROVE  IInv'
PROOF
  <1> USE HookFacts DEF PastKeys, PastNew, PastLimiter, InFlight, Exits, Close, Signal, Deadline
  <1>1. TypeOK'
    BY DEF IInv, TypeOK, wiring
  <1>2. Wired' /\ StartedLast'
    BY DEF IInv, TypeOK, Wired, StartedLast, wiring
  <1>3. Quiet'
    BY DEF IInv, TypeOK, Quiet, wiring
  <1>4. Drained'
    BY DEF IInv, TypeOK, Drained, wiring
  <1> QED BY <1>1, <1>2, <1>3, <1>4 DEF IInv

\* Every step keeps it.
LEMMA NextIInv == IInv /\ [Next]_vars => IInv'
PROOF
  <1> SUFFICES ASSUME IInv, [Next]_vars PROVE IInv'
    OBVIOUS
  <1>1. CASE UNCHANGED vars
    <2>1. TypeOK' /\ Wired' /\ StartedLast'
      BY <1>1 DEF IInv, TypeOK, Wired, StartedLast, vars
    <2>2. InFlight("http")' = InFlight("http")
      BY <1>1 DEF InFlight, vars
    <2>3. Quiet' /\ Drained'
      BY <1>1, <2>2 DEF IInv, Quiet, Drained, vars
    <2> QED BY <2>1, <2>3 DEF IInv
  <1>2. CASE Ended
    BY <1>1, <1>2 DEF Ended
  <1> QED
    BY <1>1, <1>2, StartupIInv, ListenIInv, RequestIInv, ShutdownIInv, CloseIInv DEF Next, Main

\* The inductive invariant of the process holds: what main has checked, wired,
\* started and drained at each point of its way.
THEOREM Invariance == Spec => []IInv
  BY InitIInv, NextIInv, PTL DEF Spec

\* The type invariant of the process.
THEOREM TypeCorrect == Spec => []TypeOK
PROOF
  <1>1. IInv => TypeOK
    BY DEF IInv
  <1> QED BY <1>1, Invariance, PTL

\* In every environment the edge listens only when main has passed every check: with
\* a limiter, a secret and a connection, outside dev with the shared limiter and keys.
THEOREM NeverServesUnwired == Spec => []ServesOnlyConfigured
PROOF
  <1>1. IInv => ServesOnlyConfigured
    BY HookFacts DEF IInv, TypeOK, Wired, StartedLast, ServesOnlyConfigured, PastKeys, PastNew,
       PastLimiter, Servers
  <1> QED BY <1>1, Invariance, PTL

\* A start-up check that fails ends the process before either server was started.
THEOREM FailsSilently == Spec => []FailedStartIsSilent
PROOF
  <1>1. IInv => FailedStartIsSilent
    BY HookFacts DEF IInv, StartedLast, FailedStartIsSilent, PastKeys, PastNew, PastLimiter
  <1> QED BY <1>1, Invariance, PTL

\* For any number of requests: before the deadline the shutdown hooks cut no call, and
\* health endpoint and connection outlive the last request.
THEOREM DrainsBeforeClosing == Spec => []OrderlyShutdown
PROOF
  <1>1. IInv => OrderlyShutdown
    BY HookFacts DEF IInv, Drained, OrderlyShutdown, InFlight
  <1> QED BY <1>1, Invariance, PTL
=============================================================================
