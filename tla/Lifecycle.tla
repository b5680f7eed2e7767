----------------------------- MODULE Lifecycle -----------------------------
(***************************************************************************)
(* The life of the gateway process (cmd/gateway/main.go): the start-up       *)
(* checks, the two listeners, each in a goroutine of its own, the requests   *)
(* that use the orbit-auth connection, and the shutdown hooks, which run in  *)
(* order under one deadline.                                                 *)
(*                                                                          *)
(* External: observability.WaitForSignal, the fiber servers and grpc-go.     *)
(***************************************************************************)
EXTENDS Naturals, Sequences

CONSTANTS
    Procs,   \* request goroutines of the edge
    Envs     \* the environments a process can be started in

\* What main reads or tries, in the outcomes it tells apart.
Env == [dev : BOOLEAN, jwtSecret : BOOLEAN, telemetry : BOOLEAN, dial : BOOLEAN,
        redis : {"unset", "up", "down"}, keysDir : {"unset", "good", "bad"},
        httpPort : BOOLEAN, healthPort : BOOLEAN]

ASSUME EnvsAssumption == Envs \subseteq Env

VARIABLES
    env,       \* the environment of this process
    main,      \* where main is
    limiter,   \* the limiter wired into the service
    secret,    \* the token middleware's secret is not empty
    jwks,      \* the JWK set is published
    server,    \* server["http"], server["health"]: the two fiber servers
    conn,      \* the gRPC connection to orbit-auth
    call,      \* call[p]: what request goroutine p of the edge is doing
    timedOut,  \* the shutdown context has expired
    late       \* ghost: the edge began to listen after its Shutdown had returned

vars == <<env, main, limiter, secret, jwks, server, conn, call, timedOut, late>>

Servers == {"http", "health"}

\* "exit 0" and "exit 1" are the ends of the process; a panic is an "exit 1".
Exits == {"exit 0", "exit 1"}

\* The connection is closed before the servers are shut down.
Hooks_CloseFirst == <<"authClient.Close", "srv.Shutdown", "healthServer.Shutdown">>

\* observability.ShutdownConfig.OnShutdown.
Hooks == <<"srv.Shutdown", "healthServer.Shutdown", "authClient.Close">>

HookNames == {Hooks[i] : i \in DOMAIN Hooks}

Startup == {"Configure", "JWT_SECRET", "NewClient", "limiter", "New", "jwks", "listen"}

\* The state of main, its listeners, the connection and the requests.
TypeOK ==
    /\ env \in Envs
    /\ main \in Startup \cup {"WaitForSignal"} \cup HookNames \cup Exits
    /\ limiter \in {"none", "redis", "memory"}
    /\ secret \in BOOLEAN /\ jwks \in BOOLEAN
    /\ server \in [Servers -> {"off", "starting", "failed", "listening", "draining", "closed"}]
    /\ conn \in {"none", "open", "closed"}
    /\ call \in [Procs -> {"idle", "handling", "calling", "cut"}]
    /\ timedOut \in BOOLEAN /\ late \in BOOLEAN

Init ==
    /\ env \in Envs
    /\ main = "Configure"
    /\ limiter = "none"
    /\ secret = FALSE /\ jwks = FALSE
    /\ server = [s \in Servers |-> "off"]
    /\ conn = "none"
    /\ call = [p \in Procs |-> "idle"]
    /\ timedOut = FALSE /\ late = FALSE

wiring == <<limiter, secret, jwks, conn>>

outside == <<env, server, call, timedOut, late>>

-----------------------------------------------------------------------------
\* Start-up: each check goes on or ends the process.

Check(from, ok, to) == main = from /\ main' = IF ok THEN to ELSE "exit 1"

Configure ==
    /\ Check("Configure", env.telemetry, "JWT_SECRET")
    /\ UNCHANGED <<outside, wiring>>

CheckSecret ==
    /\ Check("JWT_SECRET", env.jwtSecret \/ env.dev, "NewClient")
    /\ UNCHANGED <<outside, wiring>>

NewClient ==
    /\ Check("NewClient", env.dial, "limiter")
    /\ conn' = IF env.dial THEN "open" ELSE conn
    /\ UNCHANGED <<outside, limiter, secret, jwks>>

\* A Redis that does not answer the ping is done without.
WireLimiter_Degrades ==
    /\ Check("limiter", env.redis = "up" \/ env.dev, "New")
    /\ limiter' = CASE env.redis = "up" -> "redis"
                    [] env.redis = "unset" /\ env.dev -> "memory"
                    [] OTHER -> "none"
    /\ UNCHANGED <<outside, secret, jwks, conn>>

\* Redis when it is named, and then it must answer; memory in dev only.
WireLimiter ==
    /\ Check("limiter", env.redis = "up" \/ (env.redis = "unset" /\ env.dev), "New")
    /\ limiter' = CASE env.redis = "up" -> "redis"
                    [] env.redis = "unset" /\ env.dev -> "memory"
                    [] OTHER -> "none"
    /\ UNCHANGED <<outside, secret, jwks, conn>>

\* The servers are started before the keys are loaded.
New_StartsServers ==
    /\ Check("New", TRUE, "jwks")
    /\ secret' = (env.jwtSecret \/ env.dev)
    /\ server' = [s \in Servers |-> "starting"]
    /\ UNCHANGED <<env, call, timedOut, late, limiter, jwks, conn>>

\* NewService and httpapi.New, with resolveJWTSecret's fallback in dev.
New ==
    /\ Check("New", TRUE, "jwks")
    /\ secret' = (env.jwtSecret \/ env.dev)
    /\ UNCHANGED <<outside, limiter, jwks, conn>>

PublishKeys ==
    /\ Check("jwks", env.keysDir = "good" \/ (env.keysDir = "unset" /\ env.dev), "listen")
    /\ jwks' = (env.keysDir = "good")
    /\ UNCHANGED <<outside, limiter, secret, conn>>

\* Only the edge gets a listener.
StartServers_EdgeOnly ==
    /\ main = "listen"
    /\ main' = "WaitForSignal"
    /\ server' = [s \in {"http"} |-> "starting"]
    /\ UNCHANGED <<env, call, timedOut, late, wiring>>

\* The two go statements.
StartServers ==
    /\ main = "listen"
    /\ main' = "WaitForSignal"
    /\ server' = [s \in Servers |-> "starting"]
    /\ UNCHANGED <<env, call, timedOut, late, wiring>>

-----------------------------------------------------------------------------
\* The listener goroutines.

PortFree(s) == IF s = "http" THEN env.httpPort ELSE env.healthPort

Running == main \notin Exits

\* srv.Shutdown has returned.
AfterEdgeHook == main \in HookNames \ {"srv.Shutdown"}

\* Listen blocks while it serves; a failure is only logged.
Listen(s) ==
    /\ Running /\ server[s] = "starting"
    /\ server' = [server EXCEPT ![s] = IF PortFree(s) THEN "listening" ELSE "failed"]
    /\ late' = (late \/ (s = "http" /\ PortFree(s) /\ AfterEdgeHook))
    /\ UNCHANGED <<env, main, wiring, call, timedOut>>

-----------------------------------------------------------------------------
\* Requests.

Accept(p) ==
    /\ Running /\ server["http"] = "listening" /\ call[p] = "idle"
    /\ call' = [call EXCEPT ![p] = "handling"]
    /\ UNCHANGED <<env, main, wiring, server, timedOut, late>>

\* A local service answers.
Respond(p) ==
    /\ Running /\ call[p] = "handling"
    /\ call' = [call EXCEPT ![p] = "idle"]
    /\ UNCHANGED <<env, main, wiring, server, timedOut, late>>

\* The request leaves on the connection, or meets it closed.
CallAuth(p) ==
    /\ Running /\ call[p] = "handling"
    /\ call' = [call EXCEPT ![p] = IF conn = "open" THEN "calling" ELSE "cut"]
    /\ UNCHANGED <<env, main, wiring, server, timedOut, late>>

\* orbit-auth answers, and the response is written.  A call that was cut stays so:
\* a record that it met a closed connection.
AuthReply(p) ==
    /\ Running /\ call[p] = "calling"
    /\ call' = [call EXCEPT ![p] = "idle"]
    /\ UNCHANGED <<env, main, wiring, server, timedOut, late>>

-----------------------------------------------------------------------------
\* Shutdown.

\* WaitForSignal returns to run the hooks.
Signal ==
    /\ main = "WaitForSignal"
    /\ main' = Hooks[1]
    /\ UNCHANGED <<env, wiring, server, call, timedOut, late>>

\* The deadline of the context the hooks share.
Deadline ==
    /\ main \in HookNames /\ ~timedOut
    /\ timedOut' = TRUE
    /\ UNCHANGED <<env, main, wiring, server, call, late>>

\* The hook after this one, or the end of main.
AfterHook(h) ==
    LET i == CHOOSE j \in DOMAIN Hooks : Hooks[j] = h IN
    IF i = Len(Hooks) THEN "exit 0" ELSE Hooks[i + 1]

\* Requests in flight on server s; the health server's are not modelled.
InFlight(s) == IF s = "http" THEN {p \in Procs : call[p] # "idle"} ELSE {}

\* Shutdown stops accepting.
BeginDrain(s, h) ==
    /\ main = h /\ server[s] = "listening"
    /\ server' = [server EXCEPT ![s] = "draining"]
    /\ UNCHANGED <<env, main, wiring, call, timedOut, late>>

\* A drain without a way out at the deadline.
EndDrain_NoDeadline(s, h) ==
    /\ main = h /\ server[s] # "listening"
    /\ server[s] = "draining" => InFlight(s) = {}
    /\ server' = [server EXCEPT ![s] = IF @ = "draining" THEN "closed" ELSE @]
    /\ main' = AfterHook(h)
    /\ UNCHANGED <<env, wiring, call, timedOut, late>>

\* It returns when every request is answered, at the deadline, or at once when
\* the server is not listening, yet or any more.
EndDrain(s, h) ==
    /\ main = h /\ server[s] # "listening"
    /\ server[s] = "draining" => InFlight(s) = {} \/ timedOut
    /\ server' = [server EXCEPT ![s] = IF @ = "draining" THEN "closed" ELSE @]
    /\ main' = AfterHook(h)
    /\ UNCHANGED <<env, wiring, call, timedOut, late>>

Shutdown(s, h) == BeginDrain(s, h) \/ EndDrain(s, h)

\* Close fails the calls that are still out.
Close ==
    /\ main = "authClient.Close"
    /\ conn' = "closed"
    /\ call' = [p \in Procs |-> IF call[p] = "calling" THEN "cut" ELSE call[p]]
    /\ main' = AfterHook("authClient.Close")
    /\ UNCHANGED <<env, limiter, secret, jwks, server, timedOut, late>>

-----------------------------------------------------------------------------
Main ==
    \/ Configure \/ CheckSecret \/ NewClient \/ WireLimiter \/ New \/ PublishKeys
    \/ StartServers
    \/ Shutdown("http", "srv.Shutdown") \/ Shutdown("health", "healthServer.Shutdown")
    \/ Close

Request(p) == Accept(p) \/ Respond(p) \/ CallAuth(p) \/ AuthReply(p)

\* The process has ended.
Ended == main \in Exits /\ UNCHANGED vars

Next ==
    \/ Main \/ Signal \/ Deadline
    \/ \E s \in Servers : Listen(s)
    \/ \E p \in Procs : Request(p)
    \/ Ended

Spec == Init /\ [][Next]_vars

\* main runs, listeners come up or fail, timers fire.  No request need ever
\* arrive or end: orbit-auth may be silent.
FairSpec ==
    /\ Spec
    /\ WF_vars(Main) /\ WF_vars(Deadline)
    /\ \A s \in Servers : WF_vars(Listen(s))

-----------------------------------------------------------------------------
\* Properties.

\* The edge listens only when every check of main has been passed: it always has
\* a limiter, a connection and a secret ("the middleware never sees" an empty
\* one), and outside dev the shared limiter and the published keys.
ServesOnlyConfigured ==
    server["http"] \notin {"off", "starting", "failed"} =>
        /\ limiter # "none" /\ secret /\ conn # "none"
        /\ ~env.dev => limiter = "redis" /\ jwks

\* A start-up that fails has exposed nothing: neither server was ever started.
FailedStartIsSilent == main = "exit 1" => \A s \in Servers : server[s] = "off"

\* Before the deadline, shutdown takes nothing away from a request in flight:
\* no call is cut, and health endpoint and connection outlive the last request.
\* The exception is an edge that begins to listen after its own Shutdown.
OrderlyShutdown ==
    ~timedOut /\ ~late =>
        /\ \A p \in Procs : call[p] # "cut"
        /\ server["health"] = "closed" \/ conn = "closed" => InFlight("http") = {}

\* A signal ends the process, whatever orbit-auth and the clients do.
SignalEndsProcess == main \in HookNames ~> main = "exit 0"
=============================================================================
