-------------------------------- MODULE Edge --------------------------------
(***************************************************************************)
(* The REST edge: how a request moves through its handler.  Requests run    *)
(* concurrently and share the rate-limit buckets; a check, an upstream call *)
(* and its reply are separate steps, because other requests run in between. *)
(*                                                                          *)
(* Pipeline gives every route its stages in source order (Routes.tla).  The *)
(* limiter library, orbit-auth and the local services are external here:    *)
(* they answer with any outcome the edge has a branch for.                  *)
(***************************************************************************)
EXTENDS Naturals, Sequences, FiniteSets, Failures

CONSTANTS
    Procs,         \* request goroutines
    Pipeline,      \* [route -> its sequence of stages]
    Requests,      \* the requests clients send
    Spellings,     \* spellings of an identifier or email field
    Names,         \* what they normalise to
    Normalize,     \* [Spellings -> Names]: trim and lower-case
    Addresses,     \* the names that contain "@"
    Empty,         \* the absent or empty field
    Blank,         \* its normal form, shared with all-space fields
    NoIP,          \* clientIP's "" for an empty first X-Forwarded-For entry
    NoOrg,         \* an empty organization id
    None,          \* no bucket key, no budget
    Limit,         \* [bucket name -> its policy's limit]; 0 is the zero policy
    MaxRequests,   \* bound: requests in one behaviour
    MaxRefills     \* bound: tokens each bucket regains

LimitKinds == {"class", "ip", "org", "identifier"}

Kinds == LimitKinds \cup {"bearer", "json", "email", "call"}

\* A route ends with its one service call; there is one identifier policy.
ASSUME PipelineAssumption ==
    \A route \in DOMAIN Pipeline :
        /\ Pipeline[route] \in Seq([do : Kinds, name : STRING])
        /\ Len(Pipeline[route]) > 0
        /\ \A j \in DOMAIN Pipeline[route] :
              /\ Pipeline[route][j].do = "call" <=> j = Len(Pipeline[route])
              /\ Pipeline[route][j].do = "identifier" => Pipeline[route][j].name = "identifier"

\* No route asks a bucket twice, and the identifier's is asked last.
ASSUME ChecksAssumption ==
    \A route \in DOMAIN Pipeline : \A i, j \in DOMAIN Pipeline[route] :
        /\ Pipeline[route][i].do \in LimitKinds /\ Pipeline[route][i] = Pipeline[route][j] => i = j
        /\ Pipeline[route][i].do = "identifier" /\ Pipeline[route][j].do \in LimitKinds => j <= i

ASSUME RequestsAssumption ==
    /\ Requests # {}
    /\ \A r \in Requests : r.route \in DOMAIN Pipeline

ASSUME LimitAssumption ==
    \A route \in DOMAIN Pipeline : \A j \in DOMAIN Pipeline[route] :
        Pipeline[route][j].do \in LimitKinds => Limit[Pipeline[route][j].name] \in Nat

\* OTPRequestIdentifierPolicy is not the zero policy.
ASSUME IdentifierAssumption == Limit["identifier"] \in Nat \ {0}

ASSUME NoneAssumption ==
    \A n \in Names : None # [scope |-> "identifier", name |-> "identifier", subject |-> n]

ASSUME MaxAssumption == MaxRequests \in Nat /\ MaxRefills \in Nat

-----------------------------------------------------------------------------
\* Bucket keys.

NoKey == None

\* RequestOTP prefers the identifier and falls back to the email only when the
\* identifier is the empty string; a challenge body has no identifier field.
IdentifierOf(r) == IF r.identifier = Empty THEN r.email ELSE r.identifier

\* Keyed by the identifier as it was typed.
IdentifierKey_AsTyped(r) ==
    IF Normalize[IdentifierOf(r)] = Blank THEN NoKey
    ELSE [scope |-> "identifier", name |-> "identifier", subject |-> IdentifierOf(r)]

\* IdentifierKey and HashIdentifier: one bucket per normalised identifier,
\* whichever route asks.  A blank identifier is not addressable.
IdentifierKey(r) ==
    IF Normalize[IdentifierOf(r)] = Blank THEN NoKey
    ELSE [scope |-> "identifier", name |-> "identifier",
          subject |-> Normalize[IdentifierOf(r)]]

\* ClientKey names a bucket even for an empty address.
ClientKey(class, ip) == [scope |-> "class", name |-> class, subject |-> ip]

KeyForIP(ip, route) ==
    IF ip = NoIP THEN NoKey ELSE [scope |-> "ip", name |-> route, subject |-> ip]

KeyForOrg(org, route) ==
    IF org = NoOrg THEN NoKey ELSE [scope |-> "org", name |-> route, subject |-> org]

\* The bucket a limit stage charges for request r.
KeyOf(r, stage) ==
    CASE stage.do = "class"      -> ClientKey(stage.name, r.ip)
      [] stage.do = "ip"         -> KeyForIP(r.ip, stage.name)
      [] stage.do = "org"        -> KeyForOrg(r.org, stage.name)
      [] stage.do = "identifier" -> IdentifierKey(r)
      [] OTHER                   -> NoKey

\* The buckets request r must be admitted by, from its route alone.
KeysOf(r) ==
    LET key(j) == KeyOf(r, Pipeline[r.route][j]) IN
    {key(j) : j \in {i \in DOMAIN Pipeline[r.route] : key(i) # NoKey}}

Keys == UNION {KeysOf(r) : r \in Requests}

\* Absent headers are told apart from a budget.
ASSUME NoHeadersAssumption ==
    \A k \in Keys : \A n \in 0..Limit[k.name] : None # [key |-> k, remaining |-> n]

-----------------------------------------------------------------------------
VARIABLES
    hasLimiter,  \* Service.HasLimiter, fixed when the service is built
    tokens,      \* tokens[k]: what bucket k has left
    refills,     \* refills[k]: tokens bucket k regained so far
    req,         \* req[p]: the request goroutine p serves, or served last
    id,          \* id[p]: ghost serial number of that request
    at,          \* at[p]: the stage it is at; 0 when it has been answered
    waiting,     \* waiting[p]: its upstream call is outstanding
    receipt,     \* receipt[p]: the identifier budget it consumed, if any
    out,         \* out[p]: its response, headers first
    arrived,     \* ghost: requests so far
    admitted,    \* ghost: admitted[k]: serials bucket k let through
    served       \* ghost: the requests whose service call was made

vars == <<hasLimiter, tokens, refills, req, id, at, waiting, receipt, out,
          arrived, admitted, served>>

NoHeaders == None

Budget == [key : Keys, remaining : Nat]

\* status 0: not answered yet.  limit: the X-RateLimit headers.  retry: a
\* Retry-After header.  detail: the body carries the upstream's own message.
Response == [status : Nat, limit : Budget \cup {NoHeaders}, retry : BOOLEAN, detail : BOOLEAN]

Unanswered == [status |-> 0, limit |-> NoHeaders, retry |-> FALSE, detail |-> FALSE]

Served == [id : Nat, req : Requests]

\* The state of the buckets and of each request: no budget below zero, no stage
\* beyond the end of the route, and headers that name a bucket.
TypeOK ==
    /\ hasLimiter \in BOOLEAN
    /\ tokens \in [Keys -> Nat]
    /\ refills \in [Keys -> Nat]
    /\ req \in [Procs -> Requests]
    /\ id \in [Procs -> Nat]
    /\ at \in [Procs -> Nat]
    /\ \A p \in Procs : at[p] <= Len(Pipeline[req[p].route])
    /\ waiting \in [Procs -> BOOLEAN]
    /\ receipt \in [Procs -> Budget \cup {NoHeaders}]
    /\ out \in [Procs -> Response]
    /\ arrived \in Nat
    /\ admitted \in [Keys -> SUBSET Nat]
    /\ served \subseteq Served

Init ==
    /\ hasLimiter \in BOOLEAN
    /\ tokens = [k \in Keys |-> Limit[k.name]]
    /\ refills = [k \in Keys |-> 0]
    /\ req = [p \in Procs |-> CHOOSE r \in Requests : TRUE]
    /\ id = [p \in Procs |-> 0]
    /\ at = [p \in Procs |-> 0]
    /\ waiting = [p \in Procs |-> FALSE]
    /\ receipt = [p \in Procs |-> NoHeaders]
    /\ out = [p \in Procs |-> Unanswered]
    /\ arrived = 0
    /\ admitted = [k \in Keys |-> {}]
    /\ served = {}

-----------------------------------------------------------------------------
\* Helpers.

StageOf(p) == Pipeline[req[p].route][at[p]]

\* Goroutine p is about to run a stage of this kind.
About(p, kind) == at[p] > 0 /\ ~waiting[p] /\ StageOf(p).do = kind

Advance(p) == at' = [at EXCEPT ![p] = @ + 1]

\* Write the response and leave the handler.
Answer(p, response) ==
    /\ out' = [out EXCEPT ![p] = response]
    /\ at' = [at EXCEPT ![p] = 0]

\* What goroutine p answers: status and body on top of the headers set so far.
Reply(p, status, detail) ==
    [out[p] EXCEPT !.status = status, !.detail = detail]

buckets == <<tokens, refills, admitted>>

-----------------------------------------------------------------------------
\* Arrival: a goroutine enters the first stage of its route.

Arrive(p, r) ==
    /\ at[p] = 0
    /\ arrived < MaxRequests
    /\ arrived' = arrived + 1
    /\ req' = [req EXCEPT ![p] = r]
    /\ id' = [id EXCEPT ![p] = arrived + 1]
    /\ at' = [at EXCEPT ![p] = 1]
    /\ receipt' = [receipt EXCEPT ![p] = NoHeaders]
    /\ out' = [out EXCEPT ![p] = Unanswered]
    /\ UNCHANGED <<hasLimiter, waiting, buckets, served>>

-----------------------------------------------------------------------------
\* Rate-limit stages.

AboutLimit(p) == at[p] > 0 /\ ~waiting[p] /\ StageOf(p).do \in LimitKinds

LimitKey(p) == KeyOf(req[p], StageOf(p))

\* The library's verdict on key k: the zero policy always admits.
HasToken(k) == Limit[k.name] = 0 \/ tokens[k] > 0

\* Remaining budget never goes below zero, the zero policy's included.
Minus1(n) == IF n = 0 THEN 0 ELSE n - 1

\* Without a limiter, or with nothing to key on, the stage is passed over.
SkipLimit(p) ==
    /\ AboutLimit(p)
    /\ ~hasLimiter \/ LimitKey(p) = NoKey
    /\ Advance(p)
    /\ UNCHANGED <<hasLimiter, buckets, req, id, waiting, receipt, out, arrived, served>>

\* Service.allow admits.  wrap, applyRouteLimit and checkOrgLimit write the
\* headers now; the identifier budget is kept in the receipt.
AllowLimit(p) ==
    /\ AboutLimit(p)
    /\ hasLimiter /\ LimitKey(p) # NoKey
    /\ HasToken(LimitKey(p))
    /\ LET k      == LimitKey(p)
           budget == [key |-> k, remaining |-> Minus1(tokens[k])] IN
       /\ tokens' = [tokens EXCEPT ![k] = Minus1(@)]
       /\ admitted' = [admitted EXCEPT ![k] = @ \cup {id[p]}]
       /\ IF StageOf(p).do = "identifier"
            THEN /\ receipt' = [receipt EXCEPT ![p] = budget]
                 /\ UNCHANGED out
            ELSE /\ out' = [out EXCEPT ![p].limit = budget]
                 /\ UNCHANGED receipt
    /\ Advance(p)
    /\ UNCHANGED <<hasLimiter, refills, req, id, waiting, arrived, served>>

\* A denial that writes its response but lets the handler go on.
DenyLimit_NoReturn(p) ==
    /\ AboutLimit(p)
    /\ hasLimiter /\ LimitKey(p) # NoKey
    /\ ~HasToken(LimitKey(p))
    /\ out' = [out EXCEPT ![p] = [status |-> 429, retry |-> TRUE, detail |-> FALSE,
                                  limit |-> [key |-> LimitKey(p), remaining |-> 0]]]
    /\ Advance(p)
    /\ UNCHANGED <<hasLimiter, buckets, req, id, waiting, receipt, arrived, served>>

\* writeLimitError, denied: 429 with the denying bucket's headers.
DenyLimit(p) ==
    /\ AboutLimit(p)
    /\ hasLimiter /\ LimitKey(p) # NoKey
    /\ ~HasToken(LimitKey(p))
    /\ Answer(p, [status |-> 429, retry |-> TRUE, detail |-> FALSE,
                  limit |-> [key |-> LimitKey(p), remaining |-> 0]])
    /\ UNCHANGED <<hasLimiter, buckets, req, id, waiting, receipt, arrived, served>>

\* A limiter outage that lets the request through.
LimiterError_FailsOpen(p) ==
    /\ AboutLimit(p)
    /\ hasLimiter /\ LimitKey(p) # NoKey
    /\ LET k == LimitKey(p) IN
       \E spent \in {tokens[k], Minus1(tokens[k])} : tokens' = [tokens EXCEPT ![k] = spent]
    /\ Advance(p)
    /\ UNCHANGED <<hasLimiter, refills, admitted, req, id, waiting, receipt, out, arrived, served>>

\* A limiter outage rendered with the empty decision that came with the error.
LimiterError_EmptyDecision(p) ==
    /\ AboutLimit(p)
    /\ hasLimiter /\ LimitKey(p) # NoKey
    /\ LET k == LimitKey(p) IN
       \E spent \in {tokens[k], Minus1(tokens[k])} : tokens' = [tokens EXCEPT ![k] = spent]
    /\ Answer(p, [Reply(p, 503, FALSE) EXCEPT !.retry = TRUE,
                                              !.limit = [key |-> NoKey, remaining |-> 0]])
    /\ UNCHANGED <<hasLimiter, refills, admitted, req, id, waiting, receipt, arrived, served>>

\* writeLimitError, unavailable: the limiter returned an error, with or without
\* having taken a token.  503, on top of the headers set so far.
LimiterError(p) ==
    /\ AboutLimit(p)
    /\ hasLimiter /\ LimitKey(p) # NoKey
    /\ LET k == LimitKey(p) IN
       \E spent \in {tokens[k], Minus1(tokens[k])} : tokens' = [tokens EXCEPT ![k] = spent]
    /\ Answer(p, [Reply(p, 503, FALSE) EXCEPT !.retry = TRUE])
    /\ UNCHANGED <<hasLimiter, refills, admitted, req, id, waiting, receipt, arrived, served>>

-----------------------------------------------------------------------------
\* Validation stages: go on, or answer and stop.

Validate(p, ok, status) ==
    /\ IF ok THEN Advance(p) /\ UNCHANGED out
             ELSE Answer(p, Reply(p, status, FALSE))
    /\ UNCHANGED <<hasLimiter, buckets, req, id, waiting, receipt, arrived, served>>

requireBearer(p) == About(p, "bearer") /\ Validate(p, req[p].bearer, 401)

decodeJSONBody(p) == About(p, "json") /\ Validate(p, req[p].json, 400)

validEmail(p) == About(p, "email") /\ Validate(p, Normalize[req[p].email] \in Addresses, 400)

-----------------------------------------------------------------------------
\* The service call.

Family(p) == StageOf(p).name

Upstream == {"auth", "org", "signup", "tenant", "flags"}

\* The request leaves for orbit-auth.
CallUpstream(p) ==
    /\ About(p, "call") /\ Family(p) \in Upstream
    /\ waiting' = [waiting EXCEPT ![p] = TRUE]
    /\ served' = served \cup {[id |-> id[p], req |-> req[p]]}
    /\ UNCHANGED <<hasLimiter, buckets, req, id, at, receipt, out, arrived>>

\* POST /auth/signup answers 202, every other route 200.
SuccessStatus(p) == IF req[p].route = "signup" THEN 202 ELSE 200

\* A success that leaves the class budget in the headers.
Succeed_NoReceipt(p) == Reply(p, SuccessStatus(p), FALSE)

\* A success shows the identifier budget, when one was consumed, in place of
\* the class budget.
Succeed(p) ==
    LET response == Reply(p, SuccessStatus(p), FALSE) IN
    IF receipt[p] = NoHeaders THEN response
                              ELSE [response EXCEPT !.limit = receipt[p]]

Fail(p, failure) == Reply(p, HTTPStatus(failure.kind), failure.detail)

\* orbit-auth answers: a result, or an error code.
UpstreamReply(p) ==
    /\ at[p] > 0 /\ waiting[p]
    /\ waiting' = [waiting EXCEPT ![p] = FALSE]
    /\ \/ Answer(p, Succeed(p))
       \/ \E code \in ErrorCodes : Answer(p, Fail(p, UpstreamFailure(Family(p), code)))
    /\ UNCHANGED <<hasLimiter, buckets, req, id, receipt, arrived, served>>

\* Only the flags client has a timeout of its own; gRPC calls carry no deadline.
FlagsTimeout_Never(p) == FALSE /\ UNCHANGED vars

\* The flags HTTP client gives up after five seconds.
FlagsTimeout(p) ==
    /\ at[p] > 0 /\ waiting[p] /\ Family(p) = "flags"
    /\ waiting' = [waiting EXCEPT ![p] = FALSE]
    /\ Answer(p, Fail(p, UpstreamFailure("flags", "Other")))
    /\ UNCHANGED <<hasLimiter, buckets, req, id, receipt, arrived, served>>

\* The kinds the in-process services fail with: Challenge's Save never fails
\* once it is reached, VerifyChallenge rejects blanks and wrong codes, Claim
\* rejects blanks (Ownership.tla, Onboarding.tla); a document may be missing.
LocalFailures(family) ==
    CASE family = "verify" -> {"InvalidArgument", "Unauthenticated"}
      [] family = "claim"  -> {"InvalidArgument"}
      [] family = "asset"  -> {"NotFound"}
      [] OTHER             -> {}

\* A service of the gateway itself runs and answers.
CallLocal(p) ==
    /\ About(p, "call") /\ Family(p) \notin Upstream
    /\ served' = served \cup {[id |-> id[p], req |-> req[p]]}
    /\ \/ Answer(p, Succeed(p))
       \/ \E kind \in LocalFailures(Family(p)) : Answer(p, Fail(p, Failure(kind, FALSE)))
    /\ UNCHANGED <<hasLimiter, buckets, req, id, waiting, receipt, arrived>>

-----------------------------------------------------------------------------
\* The token bucket of the limiter library regains a token.
Refill(k) ==
    /\ tokens[k] < Limit[k.name]
    /\ refills[k] < MaxRefills
    /\ tokens' = [tokens EXCEPT ![k] = @ + 1]
    /\ refills' = [refills EXCEPT ![k] = @ + 1]
    /\ UNCHANGED <<hasLimiter, req, id, at, waiting, receipt, out, arrived, admitted, served>>

\* What the gateway does on its own account.
Handle(p) ==
    \/ SkipLimit(p) \/ AllowLimit(p) \/ DenyLimit(p) \/ LimiterError(p)
    \/ requireBearer(p) \/ decodeJSONBody(p) \/ validEmail(p)
    \/ CallUpstream(p) \/ CallLocal(p) \/ FlagsTimeout(p)

Next ==
    \/ \E p \in Procs, r \in Requests : Arrive(p, r)
    \/ \E p \in Procs : Handle(p) \/ UpstreamReply(p)
    \/ \E k \in Keys : Refill(k)

Spec == Init /\ [][Next]_vars

\* Goroutines run and the limiter answers or errs; orbit-auth need not answer.
FairSpec == Spec /\ \A p \in Procs : WF_vars(Handle(p))

-----------------------------------------------------------------------------
\* Properties.

\* Fail closed: a service call is made only for a request that every bucket of
\* its route admitted, whatever the limiter, other requests and refills did
\* between its checks (wrap, applyRouteLimit, checkOrgLimit and
\* checkIdentifierLimit all return on a denial and on a limiter error).
ServedOnlyIfAdmitted ==
    hasLimiter => \A s \in served : \A k \in KeysOf(s.req) : s.id \in admitted[k]

\* The serials of the requests that bucket k governs and that were served.
ServedUnder(k) == {s.id : s \in {t \in served : k \in KeysOf(t.req)}}

\* No bucket is overdrawn: over all the routes that share it, the service calls
\* made never exceed its limit plus what it regained.
BudgetRespected ==
    hasLimiter =>
        \A k \in Keys : Limit[k.name] > 0 =>
            Cardinality(ServedUnder(k)) <= Limit[k.name] + refills[k]

\* The served requests that went through an identifier check for name n.
DispatchesTo(n) ==
    {s.id : s \in {t \in served :
        /\ \E j \in DOMAIN Pipeline[t.req.route] : Pipeline[t.req.route][j].do = "identifier"
        /\ Normalize[IdentifierOf(t.req)] = n}}

\* One person's OTP requests and ownership challenges draw on one budget,
\* however the identifier is spelled, in whichever field it comes and through
\* whichever of the three routes.
IdentifierBudget ==
    hasLimiter =>
        \A n \in Names \ {Blank} :
            LET b == [scope |-> "identifier", name |-> "identifier", subject |-> n] IN
            Cardinality(DispatchesTo(n)) <=
                Limit["identifier"] + (IF b \in Keys THEN refills[b] ELSE 0)

\* A request its route's validation will reject.
Malformed(r) ==
    \E j \in DOMAIN Pipeline[r.route] :
        LET do == Pipeline[r.route][j].do IN
        \/ do = "bearer" /\ ~r.bearer
        \/ do = "json" /\ ~r.json
        \/ do = "email" /\ Normalize[r.email] \notin Addresses

\* The budgets that belong to a third party, not to the caller's address (an
\* identifier, an organization named in a body), are charged only after the
\* request has been validated: Challenge checks the email first, selectOrg the
\* bearer token and the body.
MalformedSpendsNoOthersBudget ==
    \A p \in Procs : Malformed(req[p]) =>
        \A k \in KeysOf(req[p]) :
            k.scope = "identifier" \/ k.name = "/session/org" => id[p] \notin admitted[k]

\* A rate-limit refusal is final and truthful: nothing was done for the request,
\* and a 429 shows the bucket that refused it, empty.
RefusalIsFinal ==
    \A p \in Procs : at[p] = 0 /\ out[p].retry =>
        /\ \A s \in served : s.id # id[p]
        /\ out[p].status = 429 =>
              /\ out[p].limit # NoHeaders
              /\ out[p].limit.remaining = 0
              /\ id[p] \notin admitted[out[p].limit.key]

\* A success shows the budget of the last bucket charged: the identifier's where
\* there is one (OTPReceipt, ChallengeReceipt), else the route's; and none when
\* nothing was charged.
SuccessShowsLastBudget ==
    \A p \in Procs : at[p] = 0 /\ out[p].status \in {200, 202} =>
        LET stages   == Pipeline[req[p].route]
            key(j)   == KeyOf(req[p], stages[j])
            charged  == {j \in DOMAIN stages : hasLimiter /\ key(j) # NoKey} IN
        IF charged = {}
          THEN out[p].limit = NoHeaders
          ELSE \E j \in charged : /\ \A i \in charged : i <= j
                                  /\ out[p].limit # NoHeaders
                                  /\ out[p].limit.key = key(j)

\* "an upstream internal detail never reaches a client verbatim": upstream text
\* is passed on only with a 4xx, and never by the public tenant and flags routes.
DetailOnlyOnClientErrors ==
    \A p \in Procs : out[p].detail =>
        LET stages == Pipeline[req[p].route] IN
        /\ out[p].status \in 400..499
        /\ stages[Len(stages)].name \in {"auth", "org", "signup"}

\* Every request is answered or is waiting for a gRPC answer: no stage hangs on
\* the limiter, and a silent flags upstream cannot hold a request.
AnsweredOrUpstream ==
    \A p \in Procs : at[p] > 0 ~> (at[p] = 0 \/ (waiting[p] /\ Family(p) # "flags"))

\* contract_test.go wants no rate-limit headers on a limiter outage, whichever
\* check meets it.
UnavailableHasNoHeaders ==
    \A p \in Procs : out[p].status = 503 => out[p].limit = NoHeaders
=============================================================================
