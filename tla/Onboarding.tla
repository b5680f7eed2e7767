----------------------------- MODULE Onboarding -----------------------------
(***************************************************************************)
(* Workstation onboarding: application.Service.Claim over the in-memory     *)
(* claim cache.  Get and Put are two critical sections and the answer comes *)
(* after them, so claims on one key interleave in between; the cache dies   *)
(* with the process.                                                        *)
(*                                                                          *)
(* A string is the sequence of its ":"-separated segments, so that          *)
(* token + ":" + uid is a concatenation and may coincide with another one;  *)
(* the empty string is the empty sequence.                                  *)
(***************************************************************************)
EXTENDS Naturals, Sequences

CONSTANTS
    Procs,          \* request goroutines
    Inputs,         \* claims: [token, uid, email, name, header]
    TrimSpace,      \* [spelling -> string]
    NormalizeUID,   \* [spelling of a uid -> string]: trim and lower-case
    None,           \* no cache entry
    MaxClaims       \* bound: claims started in one behaviour

ASSUME MaxAssumption == MaxClaims \in Nat

Token(in) == TrimSpace[in.token]

UID(in) == NormalizeUID[in.uid]

\* The Idempotency-Key header, or token + ":" + uid.
Key(in) == IF in.header # <<>> THEN in.header ELSE Token(in) \o UID(in)

\* ClaimDefaults: what the caller supplied, or a value derived from the UID.
Default(given, uid) ==
    IF TrimSpace[given] = <<>> THEN <<"derived", uid>> ELSE <<"given", TrimSpace[given]>>

\* ClaimCredentialsFor: what tells two claims' credentials apart is the UID and
\* the digest of token + ":" + uid, taken as injective.
Digest(in) == Token(in) \o UID(in)

\* The result of a claim.  Status, groups and workspace are the same for all.
Body(in) ==
    [uid    |-> UID(in),
     email  |-> Default(in.email, UID(in)),
     name   |-> Default(in.name, UID(in)),
     digest |-> Digest(in)]

Valid(in) == Token(in) # <<>> /\ UID(in) # <<>>

Result(body, replay) == [body |-> body, replay |-> replay]

Claims == {in \in Inputs : Valid(in)}

Keys == {Key(in) : in \in Claims}

Results ==
    {Result([uid |-> Body(i).uid, email |-> Body(j).email, name |-> Body(k).name,
             digest |-> Body(l).digest], r) : i, j, k, l \in Claims, r \in BOOLEAN}

\* The cache's second return value tells a miss from every result.
ASSUME MissAssumption == None \notin Results

VARIABLES
    cache,     \* memory.Claims.items
    job,       \* job[p]: where goroutine p is
    started,   \* ghost: claims started
    answers    \* ghost: what was answered since the last restart, in order

vars == <<cache, job, started, answers>>

Idle == [pc |-> "idle"]

\* Ghost: what was so when a claim began: its key had been answered, its key was
\* settled (cached, and no earlier miss on it still on its way to Put).
Known == [answered : BOOLEAN, settled : BOOLEAN]

\* A goroutine inside Claim: before Get, before Put, before it returns.
Jobs ==
    {Idle} \cup [pc : {"get", "put"}, in : Claims, known : Known]
           \cup [pc : {"reply"}, in : Claims, known : Known, result : Results]

\* The state of the claim cache and of each Claim in progress.
TypeOK ==
    /\ cache \in [Keys -> Results \cup {None}]
    /\ job \in [Procs -> Jobs]
    /\ started \in 0..MaxClaims
    /\ answers \in Seq([in : Claims, known : Known, result : Results])

Init ==
    /\ cache = [k \in Keys |-> None]
    /\ job = [p \in Procs |-> Idle]
    /\ started = 0
    /\ answers = <<>>

-----------------------------------------------------------------------------
Answered(k) == \E i \in DOMAIN answers : Key(answers[i].in) = k

Settled(k) ==
    /\ cache[k] # None
    /\ \A p \in Procs : job[p].pc = "put" => Key(job[p].in) # k

KnownOf(k) == [answered |-> Answered(k), settled |-> Settled(k)]

Begin(p, in) == job' = [job EXCEPT ![p] = [pc |-> "get", in |-> in, known |-> KnownOf(Key(in))]]

\* A claim that goes on although its token or UID is missing.
Start_Unchecked(p, in) ==
    /\ job[p].pc = "idle"
    /\ started < MaxClaims
    /\ started' = started + 1
    /\ job' = [job EXCEPT ![p] = [pc |-> "get", in |-> in,
                                 known |-> [answered |-> FALSE, settled |-> FALSE]]]
    /\ UNCHANGED <<cache, answers>>

\* A claim without a token or a UID is a 400 and never reaches the cache.
Start(p, in) ==
    /\ job[p].pc = "idle"
    /\ started < MaxClaims
    /\ started' = started + 1
    /\ IF Valid(in) THEN Begin(p, in) ELSE UNCHANGED job
    /\ UNCHANGED <<cache, answers>>

\* The result p is about to return, and a miss on its way to Put.
WillReply(p, result) ==
    job' = [job EXCEPT ![p] = [pc |-> "reply", in |-> job[p].in, known |-> job[p].known,
                               result |-> result]]

WillPut(p) == job' = [job EXCEPT ![p].pc = "put"]

\* A replay rendered for the caller's own UID.
Get_Patched(p) ==
    /\ job[p].pc = "get"
    /\ LET held == cache[Key(job[p].in)] IN
       IF held # None
         THEN WillReply(p, Result([held.body EXCEPT !.uid = UID(job[p].in)], TRUE))
         ELSE WillPut(p)
    /\ UNCHANGED <<cache, started, answers>>

\* A hit only when the entry is of the caller's own UID.
Get_ChecksUID(p) ==
    /\ job[p].pc = "get"
    /\ LET held == cache[Key(job[p].in)] IN
       IF held # None /\ held.body.uid = UID(job[p].in)
         THEN WillReply(p, Result(held.body, TRUE))
         ELSE WillPut(p)
    /\ UNCHANGED <<cache, started, answers>>

\* claims.Get: a hit is returned as a marked copy; a miss goes on.
Get(p) ==
    /\ job[p].pc = "get"
    /\ LET held == cache[Key(job[p].in)] IN
       IF held # None
         THEN WillReply(p, Result(held.body, TRUE))
         ELSE WillPut(p)
    /\ UNCHANGED <<cache, started, answers>>

\* Only a claim that came with an Idempotency-Key is kept.
Put_OnlyWithHeader(p) ==
    /\ job[p].pc = "put"
    /\ LET fresh == Result(Body(job[p].in), FALSE) IN
       /\ cache' = IF job[p].in.header = <<>> THEN cache
                   ELSE [cache EXCEPT ![Key(job[p].in)] = fresh]
       /\ WillReply(p, fresh)
    /\ UNCHANGED <<started, answers>>

\* claims.Put stores the fresh result, unconditionally, and unlocks.
Put(p) ==
    /\ job[p].pc = "put"
    /\ LET fresh == Result(Body(job[p].in), FALSE) IN
       /\ cache' = [cache EXCEPT ![Key(job[p].in)] = fresh]
       /\ WillReply(p, fresh)
    /\ UNCHANGED <<started, answers>>

\* Claim returns and the handler writes the answer.
Respond(p) ==
    /\ job[p].pc = "reply"
    /\ answers' = Append(answers, [in |-> job[p].in, known |-> job[p].known,
                                   result |-> job[p].result])
    /\ job' = [job EXCEPT ![p] = Idle]
    /\ UNCHANGED <<cache, started>>

\* The process restarts: cache and requests in flight are gone.
Restart ==
    /\ cache' = [k \in Keys |-> None]
    /\ job' = [p \in Procs |-> Idle]
    /\ answers' = <<>>
    /\ UNCHANGED started

Next ==
    \/ \E p \in Procs, in \in Inputs : Start(p, in)
    \/ \E p \in Procs : Get(p) \/ Put(p) \/ Respond(p)
    \/ Restart

Spec == Init /\ [][Next]_vars

-----------------------------------------------------------------------------
\* Properties.

\* What is known under a key: claims answered with it or in flight.
ClaimsOn(k) ==
    {answers[i].in : i \in {j \in DOMAIN answers : Key(answers[j].in) = k}}
    \cup {job[p].in : p \in {q \in Procs : job[q].pc # "idle" /\ Key(job[q].in) = k}}

\* However claims race between Get, Put and the answer, an answer is one claim's
\* result, whole: never a user from one claim with the credentials of another.
\* Without idempotent_replay it is the caller's own.
AnswersAreWhole ==
    \A i \in DOMAIN answers : LET a == answers[i] IN
        /\ \E in \in ClaimsOn(Key(a.in)) : a.result.body = Body(in)
        /\ ~a.result.replay => a.result.body = Body(a.in)

\* A claim that begins after its key has been answered is a replay: however other
\* claims race with it, a client that retries once it has its answer is never
\* provisioned anew by the same process.
RetryIsReplay ==
    \A i \in DOMAIN answers : answers[i].known.answered => answers[i].result.replay

\* A claim that begins on a settled key gets the entry as it is for good: no miss
\* and no later Put on that key, by whomever, can change what its callers see.
SettledKeyStays ==
    \A i \in DOMAIN answers :
        answers[i].known.settled =>
            /\ cache[Key(answers[i].in)] # None
            /\ answers[i].result = Result(cache[Key(answers[i].in)].body, TRUE)

\* onboarding.go: "a replay returns exactly what the first call returned".
ReplayReturnsFirst ==
    \A i, j \in DOMAIN answers :
        /\ Key(answers[i].in) = Key(answers[j].in) /\ answers[j].result.replay
        /\ \A h \in 1..(i - 1) : Key(answers[h].in) # Key(answers[i].in)
        => answers[j].result.body = answers[i].result.body

\* service_test.go: a claim without an Idempotency-Key must not be answered with
\* the claim of another token and UID.
NoForeignReplay ==
    \A i \in DOMAIN answers : LET a == answers[i] IN
        a.in.header = <<>> /\ a.result.replay =>
            \E in \in ClaimsOn(Key(a.in)) :
                Token(in) = Token(a.in) /\ UID(in) = UID(a.in) /\ a.result.body = Body(in)
=============================================================================
